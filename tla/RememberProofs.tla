--------------------------- MODULE RememberProofs ---------------------------
(***************************************************************************)
(* Proofs about Remember, for any files, entries, directories, sessions    *)
(* and accounts that its assumptions admit: the types, what a save leaves  *)
(* in state.conf, what a load of sddm.conf finds and what a greeter        *)
(* offers.                                                                 *)
(*                                                                         *)
(* The loops of the code are recursive functions in the model, and what    *)
(* they compute is proved by induction on the places of a list: Sublist    *)
(* and FlattenSeq first, then where each line of a saved file comes from   *)
(* (Laid), from which it follows what loads of it and others read there,   *)
(* then the lists of sessions and users.  The three invariants in the end  *)
(* (InMemory, Loads, Offers) need little more than these.                  *)
(***************************************************************************)
EXTENDS Remember, WellFoundedInduction, SequenceTheorems, FiniteSetTheorems, TLAPS

-----------------------------------------------------------------------------
\* Of some natural numbers one is the least.
LEMMA Least ==
    ASSUME NEW T, T \subseteq Nat, T # {}
    PROVE  \E k \in T : \A j \in T : k <= j
<1>1. PICK k \in T : \A j \in T : ~ (<<j, k>> \in OpToRel(<, Nat))
  BY WFMin, NatLessThanWellFounded
<1>2. ASSUME NEW j \in T PROVE k <= j
  <2>1. j \in Nat /\ k \in Nat
    OBVIOUS
  <2>2. ~ (j < k)
    BY <1>1, <2>1 DEF OpToRel
  <2> QED
    BY <2>1, <2>2
<1> QED
  BY <1>2

\* Induction up to N.
LEMMA UpTo ==
    ASSUME NEW N \in Nat, NEW T, 0 \in T,
           \A n \in 0 .. N - 1 : n \in T => n + 1 \in T
    PROVE  \A n \in 0 .. N : n \in T
<1> DEFINE D == {n \in 0 .. N : n \notin T}
<1>1. SUFFICES ASSUME D # {} PROVE FALSE
  OBVIOUS
<1>2. PICK k \in D : \A j \in D : k <= j
  <2>1. D \subseteq Nat
    OBVIOUS
  <2> HIDE DEF D
  <2> QED
    BY <1>1, <2>1, Least
<1>3. k \in 1 .. N /\ k - 1 \in 0 .. N - 1
  BY <1>2
<1>4. k - 1 \in T
  BY <1>2, <1>3
<1> QED
  BY <1>2, <1>3, <1>4

\* A function whose first value is base and whose value at n comes from the one
\* before by step[n].
Recurs(f, S, N, base, step) ==
    /\ f \in [0 .. N -> S]
    /\ f[0] = base
    /\ \A n \in 1 .. N : f[n] = step[n][f[n - 1]]

IsStep(step, S, N) == \A n \in 1 .. N, x \in S : step[n][x] \in S

\* There always is one.
LEMMA Recursion ==
    ASSUME NEW S, NEW N, NEW base, NEW step,
           N \in Nat, base \in S, IsStep(step, S, N)
    PROVE  \E f : Recurs(f, S, N, base, step)
<1> DEFINE Up(m, f) == f[0] = base /\ \A n \in 1 .. m : f[n] = step[n][f[n - 1]]
           T == {m \in 0 .. N : \E f \in [0 .. m -> S] : Up(m, f)}
<1>1. 0 \in T
  <2> DEFINE f == [i \in 0 .. 0 |-> base]
  <2>1. f \in [0 .. 0 -> S] /\ Up(0, f)
    OBVIOUS
  <2>2. 0 \in 0 .. N
    OBVIOUS
  <2> HIDE DEF f, Up
  <2> QED
    BY <2>1, <2>2
<1>2. ASSUME NEW m \in 0 .. N - 1, m \in T PROVE m + 1 \in T
  <2>1. PICK f \in [0 .. m -> S] : Up(m, f)
    BY <1>2
  <2> DEFINE v == step[m + 1][f[m]]
             g == [i \in 0 .. m + 1 |-> IF i <= m THEN f[i] ELSE v]
  <2>2. v \in S
    BY <1>2 DEF IsStep
  <2>3. g \in [0 .. m + 1 -> S]
    BY <2>2
  <2>4. g[0] = base
    BY <2>1
  <2>5. ASSUME NEW n \in 1 .. m + 1 PROVE g[n] = step[n][g[n - 1]]
    <3>1. CASE n <= m
      BY <2>1, <3>1
    <3>2. CASE n = m + 1
      BY <3>2
    <3> QED
      BY <3>1, <3>2
  <2> HIDE DEF g
  <2>6. Up(m + 1, g) /\ m + 1 \in 0 .. N
    BY <2>4, <2>5
  <2> HIDE DEF Up
  <2> QED
    BY <2>3, <2>6
<1>3. N \in T
  <2> HIDE DEF T
  <2>1. \A m \in 0 .. N - 1 : m \in T => m + 1 \in T
    BY <1>2
  <2>2. \A m \in 0 .. N : m \in T
    BY <1>1, <2>1, UpTo
  <2> QED
    BY <2>2
<1> QED
  BY <1>3 DEF Recurs

-----------------------------------------------------------------------------
\* The least and the greatest of some positions.

\* The least of some numbers.
LEMMA MinIs ==
    ASSUME NEW A, A \subseteq Nat, A # {}
    PROVE  Min(A) \in A /\ \A i \in A : Min(A) <= i
<1>1. \E k \in A : \A j \in A : k <= j
  BY Least
<1> QED
  BY <1>1 DEF Min

\* The greatest, where no number is beyond N.
LEMMA MaxIs ==
    ASSUME NEW N \in Nat, NEW A, A \subseteq 0 .. N, A # {}
    PROVE  Max(A) \in A /\ \A i \in A : i <= Max(A)
<1> DEFINE B == {n \in Nat : \A i \in A : i <= n}
<1>1. B \subseteq Nat /\ N \in B
  OBVIOUS
<1>2. PICK m \in B : \A n \in B : m <= n
  <2> HIDE DEF B
  <2> QED
    BY <1>1, Least
<1>3. m \in A
  <2>1. SUFFICES ASSUME m \notin A PROVE FALSE
    OBVIOUS
  <2>2. PICK i \in A : TRUE
    OBVIOUS
  <2>3. i <= m /\ i # m /\ i \in Nat /\ m \in Nat
    BY <1>2, <2>1
  <2>4. \A j \in A : j <= m - 1
    BY <1>2, <2>1
  <2>5. m - 1 \in B
    BY <2>3, <2>4
  <2> QED
    BY <1>2, <2>3, <2>5
<1>4. \A i \in A : m >= i
  BY <1>2
<1> QED
  <2>1. \E x \in A : \A y \in A : x >= y
    BY <1>3, <1>4
  <2>2. Max(A) \in A /\ \A y \in A : Max(A) >= y
    BY <2>1 DEF Max
  <2> QED
    BY <2>2

\* There is only one greatest.
LEMMA MaxOnly ==
    ASSUME NEW N \in Nat, NEW A, A \subseteq 0 .. N, NEW m \in A, \A i \in A : i <= m
    PROVE  Max(A) = m
<1>1. Max(A) \in A /\ m <= Max(A)
  BY MaxIs
<1> DEFINE x == Max(A)
<1> HIDE DEF x
<1>2. x \in A /\ m <= x
  BY <1>1 DEF x
<1>3. x <= m /\ x \in Nat /\ m \in Nat
  BY <1>2
<1> QED
  BY <1>2, <1>3 DEF x

-----------------------------------------------------------------------------
\* What Sublist leaves of a list: at are the places of it.

Picks(at, list, p, T) ==
    /\ at \in [1 .. Len(p) -> 1 .. Len(list)]
    /\ \A j, k \in 1 .. Len(p) : j < k => at[j] < at[k]
    /\ \A k \in 1 .. Len(p) : p[k] = list[at[k]] /\ p[k] \in T
    /\ \A i \in 1 .. Len(list) : list[i] \in T => \E k \in 1 .. Len(p) : at[k] = i

\* The same for the first n entries.
PicksTo(n, at, list, p, T) ==
    /\ at \in [1 .. Len(p) -> 1 .. n]
    /\ \A j, k \in 1 .. Len(p) : j < k => at[j] < at[k]
    /\ \A k \in 1 .. Len(p) : p[k] = list[at[k]] /\ p[k] \in T
    /\ \A i \in 1 .. n : list[i] \in T => \E k \in 1 .. Len(p) : at[k] = i

\* One more entry.
LEMMA PicksNext ==
    ASSUME NEW S, NEW list \in Seq(S), NEW T, NEW n \in 0 .. Len(list) - 1,
           NEW q \in Seq(S), NEW at, PicksTo(n, at, list, q, T)
    PROVE  \E new : PicksTo(n + 1, new, list,
                      IF list[n + 1] \in T THEN Append(q, list[n + 1]) ELSE q, T)
<1> DEFINE e == list[n + 1]
           p == Append(q, e)
<1>1. n \in Nat /\ Len(q) \in Nat /\ e \in S /\ Len(list) \in Nat
  OBVIOUS
<1>2. \A i \in 1 .. n + 1 : i \in 1 .. n \/ i = n + 1
  BY <1>1
<1>3. CASE e \notin T
  <2>1. PicksTo(n + 1, at, list, q, T)
    <3>1. at \in [1 .. Len(q) -> 1 .. n + 1]
      BY <1>1 DEF PicksTo
    <3>2. \A i \in 1 .. n + 1 : list[i] \in T => \E k \in 1 .. Len(q) : at[k] = i
      BY <1>2, <1>3 DEF PicksTo
    <3> QED
      BY <3>1, <3>2 DEF PicksTo
  <2> QED
    BY <1>3, <2>1
<1>4. CASE e \in T
  <2> DEFINE new == [k \in 1 .. Len(p) |-> IF k = Len(p) THEN n + 1 ELSE at[k]]
  <2>1. /\ Len(p) = Len(q) + 1 /\ p[Len(p)] = e
        /\ \A k \in 1 .. Len(q) : p[k] = q[k]
    BY <1>1, AppendProperties
  <2> HIDE DEF p, e
  <2>2. \A k \in 1 .. Len(p) : k \in 1 .. Len(q) \/ k = Len(p)
    BY <1>1, <2>1
  <2>3. \A k \in 1 .. Len(q) : at[k] \in 1 .. n
    BY DEF PicksTo
  <2>4. /\ new \in [1 .. Len(p) -> 1 .. n + 1]
        /\ \A k \in 1 .. Len(q) : k \in 1 .. Len(p) /\ new[k] = at[k]
        /\ Len(p) \in 1 .. Len(p) /\ new[Len(p)] = n + 1
    BY <1>1, <2>1, <2>2, <2>3
  <2> HIDE DEF new
  <2>5. ASSUME NEW j \in 1 .. Len(p), NEW k \in 1 .. Len(p), j < k
        PROVE  new[j] < new[k]
    <3>1. j \in 1 .. Len(q) /\ new[j] = at[j] /\ at[j] \in 1 .. n
      BY <1>1, <2>1, <2>3, <2>4, <2>5
    <3>2. CASE k = Len(p)
      BY <1>1, <2>4, <3>1, <3>2
    <3>3. CASE k \in 1 .. Len(q)
      BY <2>4, <2>5, <3>1, <3>3 DEF PicksTo
    <3> QED
      BY <2>2, <3>2, <3>3
  <2>6. ASSUME NEW k \in 1 .. Len(p) PROVE p[k] = list[new[k]] /\ p[k] \in T
    <3>1. CASE k = Len(p)
      BY <1>4, <2>1, <2>4, <3>1 DEF e
    <3>2. CASE k \in 1 .. Len(q)
      BY <2>1, <2>4, <3>2 DEF PicksTo
    <3> QED
      BY <2>2, <3>1, <3>2
  <2>7. ASSUME NEW i \in 1 .. n + 1, list[i] \in T PROVE \E k \in 1 .. Len(p) : new[k] = i
    <3>1. CASE i \in 1 .. n
      BY <2>4, <2>7, <3>1 DEF PicksTo
    <3>2. CASE i = n + 1
      BY <2>4, <3>2
    <3> QED
      BY <1>2, <3>1, <3>2
  <2>8. PicksTo(n + 1, new, list, p, T)
    BY <2>4, <2>5, <2>6, <2>7 DEF PicksTo
  <2> QED
    BY <1>4, <2>8 DEF p, e
<1> QED
  BY <1>3, <1>4

\* What the loop over the list leaves are such places of it.
LEMMA SublistPicks ==
    ASSUME NEW S, NEW list \in Seq(S), NEW T
    PROVE  /\ Sublist(list, T) \in Seq(S)
           /\ \E at : Picks(at, list, Sublist(list, T), T)
<1> DEFINE N == Len(list)
           Next1(n, q) == IF list[n] \in T THEN Append(q, list[n]) ELSE q
           F == CHOOSE f :
                  f = [n \in 0 .. N |-> IF n = 0 THEN <<>> ELSE Next1(n, f[n - 1])]
<1>1. N \in Nat
  OBVIOUS
<1>2. PICK f \in [0 .. N -> Seq(S)] :
        f[0] = <<>> /\ \A n \in 1 .. N : f[n] = Next1(n, f[n - 1])
  <2> DEFINE step == [n \in 1 .. N |-> [q \in Seq(S) |-> Next1(n, q)]]
  <2>1. \A n \in 1 .. N, q \in Seq(S) :
          step[n][q] = Next1(n, q) /\ step[n][q] \in Seq(S)
    OBVIOUS
  <2>2. IsStep(step, Seq(S), N) /\ <<>> \in Seq(S)
    BY <2>1 DEF IsStep
  <2> HIDE DEF step, Next1, N
  <2>3. PICK f : Recurs(f, Seq(S), N, <<>>, step)
    BY <1>1, <2>2, Recursion
  <2>4. f \in [0 .. N -> Seq(S)]
    BY <2>3 DEF Recurs
  <2>5. ASSUME NEW n \in 1 .. N PROVE f[n] = Next1(n, f[n - 1])
    <3>1. n - 1 \in 0 .. N
      BY <1>1
    <3>2. f[n - 1] \in Seq(S)
      BY <2>4, <3>1
    <3> QED
      BY <2>1, <2>3, <3>2 DEF Recurs
  <2> QED
    BY <2>3, <2>4, <2>5 DEF Recurs
<1>3. F \in [0 .. N -> Seq(S)] /\ F[0] = <<>>
      /\ \A n \in 1 .. N : F[n] = Next1(n, F[n - 1])
  <2> HIDE DEF Next1, N
  <2>1. f = [n \in 0 .. N |-> IF n = 0 THEN <<>> ELSE Next1(n, f[n - 1])]
    BY <1>1, <1>2
  <2>2. F = [n \in 0 .. N |-> IF n = 0 THEN <<>> ELSE Next1(n, F[n - 1])]
    BY <2>1
  <2> HIDE DEF F
  <2>3. F[0] = <<>> /\ \A n \in 1 .. N : F[n] = Next1(n, F[n - 1])
    BY <1>1, <2>2
  <2>4. \A n \in 0 .. N : F[n] = f[n]
    <3> DEFINE U == {n \in 0 .. N : F[n] = f[n]}
    <3>1. 0 \in U
      BY <1>1, <1>2, <2>3
    <3>2. ASSUME NEW n \in 0 .. N - 1, n \in U PROVE n + 1 \in U
      BY <1>1, <1>2, <2>3, <3>2
    <3> HIDE DEF U
    <3>3. \A n \in 0 .. N - 1 : n \in U => n + 1 \in U
      BY <3>2
    <3>4. \A n \in 0 .. N : n \in U
      BY <1>1, <3>1, <3>3, UpTo
    <3> QED
      BY <3>4 DEF U
  <2> QED
    BY <1>1, <1>2, <2>2, <2>3, <2>4
<1>4. Sublist(list, T) = F[N]
  BY DEF Sublist
<1> DEFINE U == {n \in 0 .. N : \E at : PicksTo(n, at, list, F[n], T)}
<1> HIDE DEF F
<1>5. 0 \in U
  <2>1. PicksTo(0, <<>>, list, <<>>, T)
    BY DEF PicksTo
  <2> QED
    BY <1>1, <1>3, <2>1
<1>6. ASSUME NEW n \in 0 .. N - 1, n \in U PROVE n + 1 \in U
  <2>1. n \in 0 .. N /\ n + 1 \in 1 .. N /\ n + 1 \in 0 .. N /\ (n + 1) - 1 = n
    BY <1>1
  <2>2. F[n] \in Seq(S) /\ F[n + 1] = Next1(n + 1, F[n])
    BY <1>3, <2>1
  <2>3. PICK at : PicksTo(n, at, list, F[n], T)
    BY <1>6
  <2>4. \E new : PicksTo(n + 1, new, list, F[n + 1], T)
    BY <2>2, <2>3, PicksNext
  <2> QED
    BY <2>1, <2>4
<1>7. N \in U
  <2> HIDE DEF U
  <2>1. \A n \in 0 .. N - 1 : n \in U => n + 1 \in U
    BY <1>6
  <2>2. \A n \in 0 .. N : n \in U
    BY <1>1, <1>5, <2>1, UpTo
  <2> QED
    BY <1>1, <2>2
<1>8. PICK at : PicksTo(N, at, list, F[N], T)
  BY <1>7
<1>9. Picks(at, list, F[N], T)
  BY <1>8 DEF Picks, PicksTo
<1> QED
  BY <1>1, <1>3, <1>4, <1>9

\* Its entries are those of the list that are in the set; of a list without
\* doubles it has none.
LEMMA SublistSet ==
    ASSUME NEW S, NEW list \in Seq(S), NEW T
    PROVE  /\ Sublist(list, T) \in Seq(S)
           /\ ToSet(Sublist(list, T)) = ToSet(list) \cap T
           /\ IsInjective(list) => IsInjective(Sublist(list, T))
<1> DEFINE p == Sublist(list, T)
<1>1. p \in Seq(S) /\ \E at : Picks(at, list, p, T)
  BY SublistPicks
<1>2. PICK at : Picks(at, list, p, T)
  BY <1>1
<1> HIDE DEF p
<1>3. Len(p) \in Nat /\ DOMAIN p = 1 .. Len(p) /\ DOMAIN list = 1 .. Len(list)
  BY <1>1
<1>4. ToSet(p) = ToSet(list) \cap T
  <2>1. ASSUME NEW k \in 1 .. Len(p) PROVE p[k] \in ToSet(list) \cap T
    BY <1>2, <1>3 DEF Picks, ToSet
  <2>2. ASSUME NEW i \in 1 .. Len(list), list[i] \in T PROVE list[i] \in ToSet(p)
    <3>1. PICK k \in 1 .. Len(p) : at[k] = i
      BY <1>2, <2>2 DEF Picks
    <3>2. p[k] = list[i]
      BY <1>2, <3>1 DEF Picks
    <3> QED
      BY <1>3, <3>2 DEF ToSet
  <2> QED
    BY <1>3, <2>1, <2>2 DEF ToSet
<1>5. ASSUME IsInjective(list) PROVE IsInjective(p)
  <2>1. SUFFICES ASSUME NEW j \in 1 .. Len(p), NEW k \in 1 .. Len(p), p[j] = p[k]
                 PROVE  j = k
    BY <1>3 DEF IsInjective
  <2>2. at[j] \in DOMAIN list /\ at[k] \in DOMAIN list /\ list[at[j]] = list[at[k]]
    BY <1>2, <1>3, <2>1 DEF Picks
  <2>3. at[j] = at[k] /\ at[j] \in 1 .. Len(list)
    BY <1>3, <1>5, <2>2 DEF IsInjective
  <2>4. (j < k => at[j] < at[k]) /\ (k < j => at[k] < at[j])
    BY <1>2 DEF Picks
  <2> QED
    BY <1>3, <2>3, <2>4
<1> QED
  BY <1>1, <1>4, <1>5 DEF p

-----------------------------------------------------------------------------
\* What FlattenSeq makes of some sequences: blk and pos say which entry of
\* which of them is at a place.

Spread(p, seqs, blk, pos) ==
    /\ blk \in [1 .. Len(p) -> 1 .. Len(seqs)]
    /\ pos \in [1 .. Len(p) -> Nat \ {0}]
    /\ \A k \in 1 .. Len(p) : /\ pos[k] <= Len(seqs[blk[k]])
                              /\ p[k] = seqs[blk[k]][pos[k]]
    /\ \A j, k \in 1 .. Len(p) :
          j < k => blk[j] < blk[k] \/ (blk[j] = blk[k] /\ pos[j] < pos[k])
    /\ \A b \in 1 .. Len(seqs) : \A i \in 1 .. Len(seqs[b]) :
          \E k \in 1 .. Len(p) : blk[k] = b /\ pos[k] = i

\* One more sequence.
LEMMA SpreadNext ==
    ASSUME NEW S, NEW seqs \in Seq(Seq(S)), NEW p \in Seq(S), NEW q \in Seq(S),
           NEW blk, NEW pos, Spread(p, seqs, blk, pos)
    PROVE  \E b2, p2 : Spread(p \o q, Append(seqs, q), b2, p2)
<1> DEFINE r == p \o q
           all == Append(seqs, q)
           b2 == [k \in 1 .. Len(r) |-> IF k <= Len(p) THEN blk[k] ELSE Len(seqs) + 1]
           p2 == [k \in 1 .. Len(r) |-> IF k <= Len(p) THEN pos[k] ELSE k - Len(p)]
<1>1. Len(p) \in Nat /\ Len(q) \in Nat /\ Len(seqs) \in Nat
  OBVIOUS
<1>2. /\ Len(r) = Len(p) + Len(q)
      /\ \A k \in 1 .. Len(p) : r[k] = p[k]
      /\ \A k \in 1 .. Len(q) : r[Len(p) + k] = q[k]
  BY <1>1, ConcatProperties
<1>3. /\ Len(all) = Len(seqs) + 1 /\ all[Len(seqs) + 1] = q
      /\ \A b \in 1 .. Len(seqs) : all[b] = seqs[b]
  BY <1>1, AppendProperties
<1>4. /\ \A k \in 1 .. Len(p) : blk[k] \in 1 .. Len(seqs) /\ pos[k] \in Nat \ {0}
      /\ \A k \in 1 .. Len(p) : pos[k] <= Len(seqs[blk[k]]) /\ p[k] = seqs[blk[k]][pos[k]]
      /\ \A j, k \in 1 .. Len(p) :
            j < k => blk[j] < blk[k] \/ (blk[j] = blk[k] /\ pos[j] < pos[k])
      /\ \A b \in 1 .. Len(seqs) : \A i \in 1 .. Len(seqs[b]) :
            \E k \in 1 .. Len(p) : blk[k] = b /\ pos[k] = i
  BY DEF Spread
<1> HIDE DEF r, all
<1>5. \A k \in 1 .. Len(r) : k \in 1 .. Len(p) \/ (k > Len(p) /\ k - Len(p) \in 1 .. Len(q))
  BY <1>1, <1>2
<1>6. /\ \A k \in 1 .. Len(p) : k \in 1 .. Len(r) /\ b2[k] = blk[k] /\ p2[k] = pos[k]
      /\ \A k \in 1 .. Len(r) : k > Len(p) => b2[k] = Len(seqs) + 1 /\ p2[k] = k - Len(p)
  BY <1>1, <1>2
<1>7. b2 \in [1 .. Len(r) -> 1 .. Len(all)] /\ p2 \in [1 .. Len(r) -> Nat \ {0}]
  <2>1. ASSUME NEW k \in 1 .. Len(r)
        PROVE  b2[k] \in 1 .. Len(all) /\ p2[k] \in Nat \ {0}
    BY <1>1, <1>3, <1>4, <1>5, <1>6
  <2> QED
    BY <2>1
<1> HIDE DEF b2, p2
<1>8. ASSUME NEW k \in 1 .. Len(r)
      PROVE  p2[k] <= Len(all[b2[k]]) /\ r[k] = all[b2[k]][p2[k]]
  <2>1. CASE k \in 1 .. Len(p)
    <3>1. all[b2[k]] = seqs[blk[k]] /\ p2[k] = pos[k] /\ r[k] = p[k]
      BY <1>2, <1>3, <1>4, <1>6, <2>1
    <3> QED
      BY <1>4, <2>1, <3>1
  <2>2. CASE k > Len(p) /\ k - Len(p) \in 1 .. Len(q)
    <3>1. all[b2[k]] = q /\ p2[k] = k - Len(p) /\ k = Len(p) + (k - Len(p))
      BY <1>1, <1>3, <1>6, <2>2
    <3>2. r[k] = q[k - Len(p)]
      BY <1>2, <2>2, <3>1
    <3> QED
      BY <2>2, <3>1, <3>2
  <2> QED
    BY <1>5, <2>1, <2>2
<1>9. ASSUME NEW j \in 1 .. Len(r), NEW k \in 1 .. Len(r), j < k
      PROVE  b2[j] < b2[k] \/ (b2[j] = b2[k] /\ p2[j] < p2[k])
  <2>1. CASE k \in 1 .. Len(p)
    <3>1. j \in 1 .. Len(p)
      BY <1>1, <1>9, <2>1
    <3> QED
      BY <1>4, <1>6, <1>9, <2>1, <3>1
  <2>2. CASE k > Len(p)
    <3>1. CASE j \in 1 .. Len(p)
      <4>1. blk[j] \in 1 .. Len(seqs) /\ b2[j] = blk[j] /\ b2[k] = Len(seqs) + 1
        BY <1>4, <1>6, <2>2, <3>1
      <4> QED
        BY <1>1, <4>1
    <3>2. CASE j > Len(p)
      BY <1>1, <1>6, <1>9, <2>2, <3>2
    <3> QED
      BY <1>5, <3>1, <3>2
  <2> QED
    BY <1>5, <2>1, <2>2
<1>10. ASSUME NEW b \in 1 .. Len(all), NEW i \in 1 .. Len(all[b])
       PROVE  \E k \in 1 .. Len(r) : b2[k] = b /\ p2[k] = i
  <2>1. CASE b \in 1 .. Len(seqs)
    <3>1. all[b] = seqs[b]
      BY <1>3, <2>1
    <3>2. PICK k \in 1 .. Len(p) : blk[k] = b /\ pos[k] = i
      BY <1>4, <2>1, <3>1
    <3> QED
      BY <1>6, <3>2
  <2>2. CASE b = Len(seqs) + 1
    <3>1. i \in 1 .. Len(q)
      BY <1>3, <2>2
    <3>2. Len(p) + i \in 1 .. Len(r) /\ Len(p) + i > Len(p) /\ (Len(p) + i) - Len(p) = i
      BY <1>1, <1>2, <3>1
    <3>3. b2[Len(p) + i] = b /\ p2[Len(p) + i] = i
      BY <1>6, <2>2, <3>2
    <3> QED
      BY <3>2, <3>3
  <2> QED
    BY <1>1, <1>3, <2>1, <2>2
<1>11. Spread(r, all, b2, p2)
  BY <1>7, <1>8, <1>9, <1>10 DEF Spread
<1> QED
  BY <1>11 DEF r, all

\* What FlattenSeq makes of them comes block after block, nothing left out.
LEMMA FlattenSpreads ==
    ASSUME NEW S, NEW seqs \in Seq(Seq(S))
    PROVE  /\ FlattenSeq(seqs) \in Seq(S)
           /\ \E blk, pos : Spread(FlattenSeq(seqs), seqs, blk, pos)
<1> DEFINE N == Len(seqs)
<1>1. N \in Nat
  OBVIOUS
<1>2. PICK f \in [0 .. N -> Seq(S)] :
        f[0] = <<>> /\ \A n \in 1 .. N : f[n] = f[n - 1] \o seqs[n]
  <2> DEFINE step == [n \in 1 .. N |-> [q \in Seq(S) |-> q \o seqs[n]]]
  <2>1. \A n \in 1 .. N, q \in Seq(S) :
          step[n][q] = q \o seqs[n] /\ step[n][q] \in Seq(S)
    OBVIOUS
  <2>2. IsStep(step, Seq(S), N) /\ <<>> \in Seq(S)
    BY <2>1 DEF IsStep
  <2> HIDE DEF step, N
  <2>3. PICK f : Recurs(f, Seq(S), N, <<>>, step)
    BY <1>1, <2>2, Recursion
  <2>4. f \in [0 .. N -> Seq(S)]
    BY <2>3 DEF Recurs
  <2>5. ASSUME NEW n \in 1 .. N PROVE f[n] = f[n - 1] \o seqs[n]
    <3>1. n - 1 \in 0 .. N
      BY <1>1
    <3>2. f[n - 1] \in Seq(S)
      BY <2>4, <3>1
    <3> QED
      BY <2>1, <2>3, <3>2 DEF Recurs
  <2> QED
    BY <2>3, <2>4, <2>5 DEF Recurs
<1>3. \E blk, pos : Spread(f[N], seqs, blk, pos)
  <2> DEFINE T == {n \in 0 .. N : \E blk, pos : Spread(f[n], SubSeq(seqs, 1, n), blk, pos)}
  <2>1. 0 \in T
    <3>1. SubSeq(seqs, 1, 0) = <<>>
      OBVIOUS
    <3>2. Spread(<<>>, <<>>, <<>>, <<>>)
      BY DEF Spread
    <3>3. \E blk, pos : Spread(f[0], SubSeq(seqs, 1, 0), blk, pos)
      BY <1>2, <3>1, <3>2
    <3> QED
      BY <1>1, <3>3
  <2>2. ASSUME NEW n \in 0 .. N - 1, n \in T PROVE n + 1 \in T
    <3>1. n \in 0 .. N /\ n + 1 \in 1 .. N /\ n + 1 \in 0 .. N /\ (n + 1) - 1 = n
      BY <1>1
    <3>2. f[n] \in Seq(S) /\ f[n + 1] = f[n] \o seqs[n + 1] /\ seqs[n + 1] \in Seq(S)
      <4>1. seqs[n + 1] \in Seq(S)
        BY <3>1, ElementOfSeq
      <4>2. f[n] \in Seq(S)
        BY <1>2, <3>1
      <4> HIDE DEF N
      <4>3. f[n + 1] = f[(n + 1) - 1] \o seqs[n + 1]
        BY <1>2, <3>1
      <4> QED
        BY <3>1, <4>1, <4>2, <4>3
    <3>3. /\ SubSeq(seqs, 1, n) \in Seq(Seq(S))
          /\ SubSeq(seqs, 1, n + 1) = Append(SubSeq(seqs, 1, n), seqs[n + 1])
      BY <3>1
    <3>4. PICK blk, pos : Spread(f[n], SubSeq(seqs, 1, n), blk, pos)
      BY <2>2
    <3>5. \E b2, p2 : Spread(f[n + 1], SubSeq(seqs, 1, n + 1), b2, p2)
      <4> DEFINE some == SubSeq(seqs, 1, n)
                 next == seqs[n + 1]
                 p == f[n]
      <4>1. some \in Seq(Seq(S)) /\ next \in Seq(S) /\ p \in Seq(S) /\ Spread(p, some, blk, pos)
        BY <3>2, <3>3, <3>4
      <4> HIDE DEF some, next, p
      <4>2. \E b2, p2 : Spread(p \o next, Append(some, next), b2, p2)
        BY <4>1, SpreadNext
      <4> QED
        BY <3>2, <3>3, <4>2 DEF some, next, p
    <3> QED
      BY <3>1, <3>5
  <2>3. N \in T
    <3> HIDE DEF T
    <3>1. \A n \in 0 .. N - 1 : n \in T => n + 1 \in T
      BY <2>2
    <3>2. \A n \in 0 .. N : n \in T
      BY <1>1, <2>1, <3>1, UpTo
    <3> QED
      BY <1>1, <3>2
  <2>4. SubSeq(seqs, 1, N) = seqs
    OBVIOUS
  <2> QED
    BY <2>3, <2>4
<1>4. FlattenSeq(seqs) = f[N]
  <2>1. CASE N = 0
    BY <1>2, <2>1 DEF FlattenSeq
  <2>2. CASE N # 0
    <3> DEFINE F == CHOOSE g : g = [i \in 1 .. N |-> IF i = 1 THEN seqs[i]
                                                     ELSE g[i - 1] \o seqs[i]]
    <3>1. FlattenSeq(seqs) = F[N]
      BY <2>2 DEF FlattenSeq
    <3> DEFINE h == [i \in 1 .. N |-> f[i]]
    <3>2. h = [i \in 1 .. N |-> IF i = 1 THEN seqs[i] ELSE h[i - 1] \o seqs[i]]
      <4>1. ASSUME NEW i \in 1 .. N
            PROVE  f[i] = IF i = 1 THEN seqs[i] ELSE h[i - 1] \o seqs[i]
        <5>1. CASE i = 1
          <6>1. seqs[1] \in Seq(S) /\ f[1] = <<>> \o seqs[1]
            <7>1. 1 \in 1 .. N
              BY <1>1, <2>2
            <7>2. seqs[1] \in Seq(S)
              BY <7>1, ElementOfSeq
            <7> HIDE DEF N
            <7>3. f[1] = f[1 - 1] \o seqs[1]
              BY <1>2, <7>1
            <7>4. 1 - 1 = 0
              OBVIOUS
            <7>5. f[1] = f[0] \o seqs[1]
              BY <7>3, <7>4
            <7> QED
              BY <1>2, <7>2, <7>5
          <6> QED
            BY <5>1, <6>1
        <5>2. CASE i # 1
          <6>1. i - 1 \in 1 .. N
            BY <1>1, <5>2
          <6> QED
            BY <1>2, <5>2, <6>1
        <5> QED
          BY <5>1, <5>2
      <4> QED
        BY <4>1
    <3> HIDE DEF h, N
    <3>3. F = [i \in 1 .. N |-> IF i = 1 THEN seqs[i] ELSE F[i - 1] \o seqs[i]]
      BY <3>2
    <3> HIDE DEF F
    <3>4. \A i \in 1 .. N : F[i] = IF i = 1 THEN seqs[i] ELSE F[i - 1] \o seqs[i]
      BY <3>3
    <3>5. \A i \in 1 .. N : h[i] = IF i = 1 THEN seqs[i] ELSE h[i - 1] \o seqs[i]
      BY <3>2
    <3> DEFINE T == {n \in 0 .. N : n # 0 => F[n] = h[n]}
    <3>6. 0 \in T
      BY <1>1
    <3>7. ASSUME NEW n \in 0 .. N - 1, n \in T PROVE n + 1 \in T
      BY <1>1, <3>4, <3>5, <3>7
    <3>8. N \in T
      <4> HIDE DEF T
      <4>1. \A n \in 0 .. N - 1 : n \in T => n + 1 \in T
        BY <3>7
      <4>2. \A n \in 0 .. N : n \in T
        BY <1>1, <3>6, <4>1, UpTo
      <4> QED
        BY <1>1, <4>2
    <3>9. F[N] = h[N] /\ h[N] = f[N]
      BY <1>1, <2>2, <3>8 DEF h
    <3> QED
      BY <3>1, <3>9
  <2> QED
    BY <2>1, <2>2
<1>5. f[N] \in Seq(S)
  BY <1>1, <1>2
<1> QED
  BY <1>3, <1>4, <1>5

\* SetToSeq lists the elements of a finite set, each once.
LEMMA SetToSeqLists ==
    ASSUME NEW S, IsFiniteSet(S)
    PROVE  /\ SetToSeq(S) \in Seq(S)
           /\ IsInjective(SetToSeq(S))
           /\ ToSet(SetToSeq(S)) = S
<1> DEFINE n == Cardinality(S)
           q == SetToSeq(S)
<1>1. n \in Nat /\ ExistsBijection(1 .. n, S)
  BY FS_CardinalityType
<1>2. \E f \in [1 .. n -> S] : IsInjective(f)
  BY <1>1 DEF ExistsBijection, Bijection, Injection
<1>3. q \in [1 .. n -> S] /\ IsInjective(q)
  BY <1>2 DEF SetToSeq
<1> HIDE DEF q
<1>4. q \in Seq(S)
  BY <1>1, <1>3
<1>5. IsFiniteSet(1 .. n) /\ Cardinality(1 .. n) = n
  <2>1. 1 \in Int /\ n \in Int
    BY <1>1
  <2> HIDE DEF n
  <2>2. Cardinality(1 .. n) = IF 1 > n THEN 0 ELSE n - 1 + 1
    BY <2>1, FS_Interval
  <2> QED
    BY <1>1, <2>1, <2>2, FS_Interval
<1>6. q \in Injection(1 .. n, S)
  BY <1>3 DEF Injection
<1>7. q \in Surjection(1 .. n, S)
  BY <1>5, <1>6, FS_Injection
<1>8. ToSet(q) = S
  BY <1>3, <1>7 DEF Surjection, ToSet
<1> QED
  BY <1>3, <1>4, <1>8 DEF q

-----------------------------------------------------------------------------
\* Lines, and the sections that they are in.

\* A line is a header or an assignment.
LEMMA LineKinds ==
    ASSUME NEW line \in Line
    PROVE  /\ IsHeader(line) => line.section \in STRING
           /\ ~IsHeader(line) => /\ line.name \in STRING /\ line.value \in STRING
                                 /\ line = Assign(line.name, line.value)
<1>1. CASE line \in [section : STRING]
  BY <1>1 DEF IsHeader
<1>2. CASE line \in [name : STRING, value : STRING]
  BY <1>2 DEF IsHeader, Assign
<1> QED
  BY <1>1, <1>2 DEF Line

\* The lines that a save makes up.
LEMMA NewLines ==
    ASSUME NEW s \in STRING, NEW v \in STRING
    PROVE  /\ Header(s) \in Line /\ IsHeader(Header(s)) /\ Header(s).section = s
           /\ Assign(s, v) \in Line /\ ~IsHeader(Assign(s, v))
           /\ Assign(s, v).name = s /\ Assign(s, v).value = v
<1>1. Header(s) \in [section : STRING] /\ IsHeader(Header(s)) /\ Header(s).section = s
  BY DEF Header, IsHeader
<1>2. /\ Assign(s, v) \in [name : STRING, value : STRING] /\ ~IsHeader(Assign(s, v))
      /\ Assign(s, v).name = s /\ Assign(s, v).value = v
  BY DEF Assign, IsHeader
<1> QED
  BY <1>1, <1>2 DEF Line

\* The last header so far says which section a line is in.
LEMMA SectionIs ==
    ASSUME NEW text, NEW i \in Nat, NEW h \in 1 .. i, IsHeader(text[h]),
           \A j \in 1 .. i : h < j => ~IsHeader(text[j])
    PROVE  SectionAt(text, i) = text[h].section
<1> DEFINE A == {j \in 1 .. i : IsHeader(text[j])}
<1>1. A \subseteq 0 .. i /\ h \in A /\ \A j \in A : j <= h
  OBVIOUS
<1>2. SectionAt(text, i) = IF A = {} THEN General ELSE text[Max(A)].section
  BY DEF SectionAt
<1> HIDE DEF A
<1>3. Max(A) = h
  BY <1>1, MaxOnly
<1> QED
  BY <1>1, <1>2, <1>3

\* Before the first header it is the implicit section.
LEMMA SectionIsGeneral ==
    ASSUME NEW text, NEW i \in Nat, \A j \in 1 .. i : ~IsHeader(text[j])
    PROVE  SectionAt(text, i) = General
BY DEF SectionAt

\* There is no header before a line, or one that is the last.
LEMMA SectionCases ==
    ASSUME NEW text, NEW i \in Nat
    PROVE  \/ \A j \in 1 .. i : ~IsHeader(text[j])
           \/ \E h \in 1 .. i : /\ IsHeader(text[h])
                                /\ \A j \in 1 .. i : h < j => ~IsHeader(text[j])
                                /\ SectionAt(text, i) = text[h].section
<1> DEFINE A == {j \in 1 .. i : IsHeader(text[j])}
<1>1. CASE A = {}
  BY <1>1
<1>2. CASE A # {}
  <2>1. A \subseteq 0 .. i
    OBVIOUS
  <2>2. SectionAt(text, i) = text[Max(A)].section
    BY <1>2 DEF SectionAt
  <2> HIDE DEF A
  <2>3. Max(A) \in A /\ \A j \in A : j <= Max(A)
    BY <1>2, <2>1, MaxIs
  <2> DEFINE h == Max(A)
  <2>4. h \in A /\ SectionAt(text, i) = text[h].section /\ \A j \in A : j <= h
    BY <2>2, <2>3
  <2> HIDE DEF h
  <2>5. h \in 1 .. i /\ IsHeader(text[h]) /\ \A j \in 1 .. i : h < j => ~IsHeader(text[j])
    BY <2>4 DEF A
  <2> QED
    BY <2>4, <2>5
<1> QED
  BY <1>1, <1>2

\* A header starts its own section, and any other line is in that of the line
\* before it.
LEMMA SectionSteps ==
    ASSUME NEW text \in Seq(Line), NEW i \in 1 .. Len(text)
    PROVE  /\ SectionAt(text, i) \in STRING
           /\ IsHeader(text[i]) => SectionAt(text, i) = text[i].section
           /\ ~IsHeader(text[i]) /\ i = 1 => SectionAt(text, i) = General
           /\ ~IsHeader(text[i]) /\ i # 1 => SectionAt(text, i) = SectionAt(text, i - 1)
<1>1. i \in Nat /\ Len(text) \in Nat /\ \A j \in 1 .. i : text[j] \in Line
  OBVIOUS
<1>2. SectionAt(text, i) \in STRING
  <2>1. CASE \A j \in 1 .. i : ~IsHeader(text[j])
    <3>1. SectionAt(text, i) = General
      BY <1>1, <2>1, SectionIsGeneral
    <3>2. General \in STRING
      BY TextAssumption
    <3> QED
      BY <3>1, <3>2
  <2>2. CASE \E h \in 1 .. i : IsHeader(text[h]) /\ SectionAt(text, i) = text[h].section
    BY <1>1, <2>2, LineKinds
  <2> QED
    BY <1>1, <2>1, <2>2, SectionCases
<1>3. ASSUME IsHeader(text[i]) PROVE SectionAt(text, i) = text[i].section
  <2>1. i \in 1 .. i /\ \A j \in 1 .. i : i < j => ~IsHeader(text[j])
    BY <1>1
  <2> QED
    BY <1>1, <1>3, <2>1, SectionIs
<1>4. ASSUME ~IsHeader(text[i]), i = 1 PROVE SectionAt(text, i) = General
  <2>1. \A j \in 1 .. i : ~IsHeader(text[j])
    BY <1>4
  <2> QED
    BY <1>1, <2>1, SectionIsGeneral
<1>5. ASSUME ~IsHeader(text[i]), i # 1 PROVE SectionAt(text, i) = SectionAt(text, i - 1)
  <2>1. i - 1 \in Nat /\ 1 .. i = (1 .. i - 1) \union {i}
    BY <1>1
  <2>2. CASE \A j \in 1 .. i - 1 : ~IsHeader(text[j])
    <3>1. \A j \in 1 .. i : ~IsHeader(text[j])
      BY <1>5, <2>1, <2>2
    <3> QED
      BY <1>1, <2>1, <2>2, <3>1, SectionIsGeneral
  <2>3. ASSUME NEW h \in 1 .. i - 1, IsHeader(text[h]),
               \A j \in 1 .. i - 1 : h < j => ~IsHeader(text[j]),
               SectionAt(text, i - 1) = text[h].section
        PROVE  SectionAt(text, i) = SectionAt(text, i - 1)
    <3>1. h \in 1 .. i /\ \A j \in 1 .. i : h < j => ~IsHeader(text[j])
      BY <1>5, <2>1, <2>3
    <3>2. SectionAt(text, i) = text[h].section
      BY <1>1, <2>3, <3>1, SectionIs
    <3> QED
      BY <2>3, <3>2
  <2> QED
    BY <2>1, <2>2, <2>3, SectionCases
<1> QED
  BY <1>2, <1>3, <1>4, <1>5

-----------------------------------------------------------------------------
\* What loading a file gives.

\* The memory of a configuration.
IsMemory(memory, E) == memory \in [E -> STRING] /\ E \subseteq STRING \X STRING

\* The lines that assign an entry, and the last of them.
LEMMA AssignmentsAre ==
    ASSUME NEW text \in Seq(Line), NEW e
    PROVE  /\ Assignments(text, e) \subseteq 0 .. Len(text)
           /\ Assignments(text, e) \subseteq 1 .. Len(text)
           /\ \A i \in 1 .. Len(text) :
                 i \in Assignments(text, e) <=>
                    /\ ~IsHeader(text[i])
                    /\ <<SectionAt(text, i), text[i].name>> = e
           /\ Assignments(text, e) # {} =>
                 /\ Max(Assignments(text, e)) \in Assignments(text, e)
                 /\ \A i \in Assignments(text, e) : i <= Max(Assignments(text, e))
<1>1. DOMAIN text = 1 .. Len(text) /\ Len(text) \in Nat
  OBVIOUS
<1>2. Assignments(text, e) = {i \in 1 .. Len(text) :
                                /\ ~IsHeader(text[i])
                                /\ <<SectionAt(text, i), text[i].name>> = e}
  BY <1>1 DEF Assignments
<1>3. Assignments(text, e) \subseteq 0 .. Len(text)
  BY <1>1, <1>2
<1> QED
  BY <1>1, <1>2, <1>3, MaxIs

\* An entry whose section was not renamed is loaded from its last assignment.
LEMMA LoadsEntry ==
    ASSUME NEW text \in Seq(Line), NEW memory, NEW e \in DOMAIN memory,
           e = <<e[1], e[2]>>, OldNames(e[1]) = {e[1]}
    PROVE  LET at == Assignments(text, e)
           IN  LoadInternal(text, memory)[e] = IF at = {} THEN memory[e]
                                               ELSE text[Max(at)].value
<1> DEFINE at == Assignments(text, e)
<1>1. UNION {Assignments(text, <<s, e[2]>>) : s \in OldNames(e[1])} = at
  OBVIOUS
<1> QED
  BY <1>1 DEF LoadInternal

\* What other programs read of any entry.
LEMMA ReadsLast ==
    ASSUME NEW text \in Seq(Line), NEW e
    PROVE  /\ Assignments(text, e) = {} => Reads(text, e) = {}
           /\ Assignments(text, e) # {} =>
                 Reads(text, e) = {text[Max(Assignments(text, e))].value}
<1> DEFINE at == Assignments(text, e)
<1>1. Reads(text, e) = {text[i].value : i \in {Max(a) : a \in {at} \ {{}}}}
  BY DEF Reads
<1> HIDE DEF at
<1>2. ASSUME at = {} PROVE Reads(text, e) = {}
  <2>1. {at} \ {{}} = {}
    BY <1>2
  <2> QED
    BY <1>1, <2>1
<1>3. ASSUME at # {} PROVE Reads(text, e) = {text[Max(at)].value}
  <2>1. {at} \ {{}} = {at}
    BY <1>3
  <2> QED
    BY <1>1, <2>1
<1> QED
  BY <1>2, <1>3 DEF at

\* No section of these entries was renamed.
NotRenamed(E) == \A e \in E : OldNames(e[1]) = {e[1]}

\* The values are texts.
LEMMA LoadedTypes ==
    ASSUME NEW text \in Seq(Line), NEW E, NEW memory, IsMemory(memory, E),
           NotRenamed(E)
    PROVE  IsMemory(LoadInternal(text, memory), E)
<1>1. DOMAIN memory = E /\ \A e \in E : e = <<e[1], e[2]>>
  BY DEF IsMemory
<1>2. ASSUME NEW e \in E PROVE LoadInternal(text, memory)[e] \in STRING
  <2> DEFINE at == Assignments(text, e)
  <2>1. LoadInternal(text, memory)[e] = IF at = {} THEN memory[e] ELSE text[Max(at)].value
    BY <1>1, <1>2, LoadsEntry DEF NotRenamed
  <2>2. CASE at = {}
    BY <2>1, <2>2 DEF IsMemory
  <2>3. CASE at # {}
    <3>1. Max(at) \in 1 .. Len(text) /\ ~IsHeader(text[Max(at)])
      BY <2>3, AssignmentsAre
    <3>2. text[Max(at)] \in Line
      BY <3>1
    <3> QED
      BY <2>1, <2>3, <3>1, <3>2, LineKinds
  <2> QED
    BY <2>2, <2>3
<1>3. /\ LoadInternal(text, memory) = [e \in E |-> LoadInternal(text, memory)[e]]
      /\ E \subseteq STRING \X STRING
  BY <1>1 DEF LoadInternal, IsMemory
<1> QED
  BY <1>2, <1>3 DEF IsMemory

-----------------------------------------------------------------------------
\* What saving writes for a line.

\* A header is left alone, an entry gets the value of the memory.
LEMMA RewrittenLine ==
    ASSUME NEW text \in Seq(Line), NEW i \in 1 .. Len(text), NEW E, NEW memory,
           IsMemory(memory, E)
    PROVE  LET line == Rewritten(text, i, memory)
               e == <<SectionAt(text, i), text[i].name>>
           IN  /\ line \in Line
               /\ IsHeader(line) <=> IsHeader(text[i])
               /\ IsHeader(text[i]) => line = text[i]
               /\ ~IsHeader(text[i]) => line.name = text[i].name
               /\ ~IsHeader(text[i]) /\ e \in E => line.value = memory[e]
               /\ ~IsHeader(text[i]) /\ e \notin E => line = text[i]
<1> DEFINE line == Rewritten(text, i, memory)
           e == <<SectionAt(text, i), text[i].name>>
<1>1. text[i] \in Line /\ DOMAIN memory = E
  BY DEF IsMemory
<1>2. line = IF ~IsHeader(text[i]) /\ e \in E THEN Assign(text[i].name, memory[e]) ELSE text[i]
  BY <1>1 DEF Rewritten
<1>3. CASE ~IsHeader(text[i]) /\ e \in E
  <2>1. text[i].name \in STRING /\ memory[e] \in STRING
    BY <1>1, <1>3, LineKinds DEF IsMemory
  <2>2. line = Assign(text[i].name, memory[e])
    BY <1>2, <1>3
  <2> HIDE DEF line, e
  <2>3. line \in Line /\ ~IsHeader(line) /\ line.name = text[i].name /\ line.value = memory[e]
    BY <2>1, <2>2, NewLines
  <2> QED
    BY <1>3, <2>3 DEF line, e
<1>4. CASE ~(~IsHeader(text[i]) /\ e \in E)
  <2>1. line = text[i]
    BY <1>2, <1>4
  <2> HIDE DEF line, e
  <2> QED
    BY <1>1, <1>4, <2>1 DEF line, e
<1> QED
  BY <1>3, <1>4

\* When saving changes nothing the file has the memory already.
LEMMA Unchanged ==
    ASSUME NEW text \in Seq(Line), NEW E, NEW memory, NEW default,
           IsMemory(memory, E), IsMemory(default, E),
           NotRenamed(E),
           ~Changed(text, memory, default)
    PROVE  LoadInternal(text, default) = memory
<1>1. DOMAIN memory = E /\ DOMAIN default = E /\ \A e \in E : e = <<e[1], e[2]>>
  BY DEF IsMemory
<1>2. ASSUME NEW e \in E PROVE LoadInternal(text, default)[e] = memory[e]
  <2> DEFINE at == Assignments(text, e)
  <2>1. LoadInternal(text, default)[e] = IF at = {} THEN default[e] ELSE text[Max(at)].value
    BY <1>1, LoadsEntry DEF NotRenamed
  <2>2. CASE at = {}
    <3>1. e \notin Remaining(text, memory, default)
      BY DEF Changed
    <3>2. memory[e] = default[e]
      BY <1>1, <2>2, <3>1 DEF Remaining
    <3> QED
      BY <2>1, <2>2, <3>2
  <2>3. CASE at # {}
    <3> DEFINE m == Max(at)
    <3>1. m \in 1 .. Len(text) /\ m \in at
      BY <2>3, AssignmentsAre
    <3> HIDE DEF m
    <3>2. ~IsHeader(text[m]) /\ <<SectionAt(text, m), text[m].name>> = e
      BY <3>1, AssignmentsAre
    <3>3. Rewritten(text, m, memory).value = memory[e]
      BY <3>1, <3>2, RewrittenLine
    <3>4. Rewritten(text, m, memory) = text[m]
      BY <3>1 DEF Changed
    <3> QED
      BY <2>1, <2>3, <3>3, <3>4 DEF m
  <2> QED
    BY <2>2, <2>3
<1>3. LoadInternal(text, default) = [e \in E |-> LoadInternal(text, default)[e]]
  BY <1>1 DEF LoadInternal
<1>4. memory = [e \in E |-> memory[e]]
  BY DEF IsMemory
<1> QED
  BY <1>2, <1>3, <1>4

-----------------------------------------------------------------------------
\* How what is written, out, comes from a file: line k is in section sec[k], and
\* comes from line src[k] of the file, or is a new one where that is 0.

LaidSections(out, sec) ==
    /\ out \in Seq(Line)
    /\ sec \in [1 .. Len(out) -> STRING]
    /\ \A k \in 1 .. Len(out) : SectionAt(out, k) = sec[k]

LaidOld(out, text, memory, sec, src) ==
    /\ src \in [1 .. Len(out) -> 0 .. Len(text)]
    /\ \A k \in 1 .. Len(out) : src[k] # 0 =>
          SectionAt(text, src[k]) = sec[k] /\ out[k] = Rewritten(text, src[k], memory)
    /\ \A i \in 1 .. Len(text) :
          ~IsHeader(text[i]) => \E k \in 1 .. Len(out) : src[k] = i

LaidNew(out, text, memory, default, sec, src) ==
    /\ \A k \in 1 .. Len(out) : src[k] = 0 =>
          \/ IsHeader(out[k])
          \/ \E e \in Remaining(text, memory, default) :
                /\ ~IsHeader(out[k]) /\ <<sec[k], out[k].name>> = e
                /\ out[k].value = memory[e]
    /\ \A e \in Remaining(text, memory, default) : \E k \in 1 .. Len(out) :
          ~IsHeader(out[k]) /\ <<sec[k], out[k].name>> = e

LaidInOrder(out, sec, src) ==
    \A j, k \in 1 .. Len(out) :
       j < k /\ sec[j] = sec[k] /\ src[j] # 0 /\ src[k] # 0 => src[j] < src[k]

Laid(out, text, memory, default, sec, src) ==
    /\ LaidSections(out, sec)
    /\ LaidOld(out, text, memory, sec, src)
    /\ LaidNew(out, text, memory, default, sec, src)
    /\ LaidInOrder(out, sec, src)

\* A line that comes from the file assigns to what that one did, and one that
\* does not, to what had to be added.
LEMMA LaidLine ==
    ASSUME NEW text \in Seq(Line), NEW E, NEW memory, NEW default,
           IsMemory(memory, E), NEW out, NEW sec, NEW src,
           Laid(out, text, memory, default, sec, src), NEW k \in 1 .. Len(out), NEW e
    PROVE  /\ src[k] # 0 => (k \in Assignments(out, e) <=> src[k] \in Assignments(text, e))
           /\ src[k] # 0 /\ k \in Assignments(out, e) /\ e \notin E => out[k] = text[src[k]]
           /\ src[k] = 0 /\ k \in Assignments(out, e) => e \in E
           /\ k \in Assignments(out, e) /\ e \in E => out[k].value = memory[e]
<1>1. /\ out \in Seq(Line)
      /\ SectionAt(out, k) = sec[k] /\ src[k] \in 0 .. Len(text)
      /\ src[k] # 0 => /\ SectionAt(text, src[k]) = sec[k]
                       /\ out[k] = Rewritten(text, src[k], memory)
      /\ src[k] = 0 => \/ IsHeader(out[k])
                       \/ \E d \in Remaining(text, memory, default) :
                             /\ ~IsHeader(out[k]) /\ <<sec[k], out[k].name>> = d
                             /\ out[k].value = memory[d]
  BY DEF Laid, LaidSections, LaidOld, LaidNew
<1>2. k \in Assignments(out, e) <=> ~IsHeader(out[k]) /\ <<sec[k], out[k].name>> = e
  BY <1>1, AssignmentsAre
<1>3. ASSUME src[k] # 0
      PROVE  /\ k \in Assignments(out, e) <=> src[k] \in Assignments(text, e)
             /\ k \in Assignments(out, e) /\ e \notin E => out[k] = text[src[k]]
             /\ k \in Assignments(out, e) /\ e \in E => out[k].value = memory[e]
  <2> DEFINE i == src[k]
  <2>1. i \in 1 .. Len(text) /\ SectionAt(text, i) = sec[k]
        /\ out[k] = Rewritten(text, i, memory)
    BY <1>1, <1>3
  <2> HIDE DEF i
  <2>2. i \in Assignments(text, e) <=>
          ~IsHeader(text[i]) /\ <<sec[k], text[i].name>> = e
    BY <2>1, AssignmentsAre
  <2>3. /\ IsHeader(out[k]) <=> IsHeader(text[i])
        /\ ~IsHeader(text[i]) => out[k].name = text[i].name
        /\ ~IsHeader(text[i]) /\ <<sec[k], text[i].name>> \in E =>
              out[k].value = memory[<<sec[k], text[i].name>>]
        /\ ~IsHeader(text[i]) /\ <<sec[k], text[i].name>> \notin E => out[k] = text[i]
    BY <2>1, RewrittenLine
  <2> QED
    BY <1>2, <2>2, <2>3 DEF i
<1>4. ASSUME src[k] = 0, k \in Assignments(out, e)
      PROVE  e \in E /\ out[k].value = memory[e]
  <2>1. PICK d \in Remaining(text, memory, default) :
          <<sec[k], out[k].name>> = d /\ out[k].value = memory[d]
    BY <1>1, <1>2, <1>4
  <2>2. d = e /\ d \in E
    BY <1>2, <1>4, <2>1 DEF Remaining, IsMemory
  <2> QED
    BY <2>1, <2>2
<1> QED
  BY <1>3, <1>4

\* Every assignment of the file is there.
LEMMA LaidBack ==
    ASSUME NEW text \in Seq(Line), NEW E, NEW memory, NEW default,
           IsMemory(memory, E), NEW out, NEW sec, NEW src,
           Laid(out, text, memory, default, sec, src), NEW e,
           NEW i \in Assignments(text, e)
    PROVE  \E k \in 1 .. Len(out) : k \in Assignments(out, e) /\ src[k] = i
<1>1. i \in 1 .. Len(text) /\ ~IsHeader(text[i]) /\ i # 0
  BY AssignmentsAre
<1>2. PICK k \in 1 .. Len(out) : src[k] = i
  BY <1>1 DEF Laid, LaidOld
<1>3. k \in Assignments(out, e)
  BY <1>1, <1>2, LaidLine
<1> QED
  BY <1>2, <1>3

\* Whatever differs from the default is.
LEMMA LaidHas ==
    ASSUME NEW text \in Seq(Line), NEW E, NEW memory, NEW default,
           IsMemory(memory, E), NEW out, NEW sec, NEW src,
           Laid(out, text, memory, default, sec, src), NEW e
    PROVE  e \in E /\ memory[e] # default[e] => Assignments(out, e) # {}
<1>1. out \in Seq(Line)
  BY DEF Laid, LaidSections
<1>2. ASSUME NEW i \in Assignments(text, e) PROVE Assignments(out, e) # {}
  BY LaidBack
<1>3. ASSUME e \in E, memory[e] # default[e] PROVE Assignments(out, e) # {}
  <2>1. CASE Assignments(text, e) # {}
    BY <1>2, <2>1
  <2>2. CASE Assignments(text, e) = {}
    <3>1. e \in Remaining(text, memory, default)
      BY <1>3, <2>2 DEF Remaining, IsMemory
    <3>2. PICK k \in 1 .. Len(out) : ~IsHeader(out[k]) /\ <<sec[k], out[k].name>> = e
      BY <3>1 DEF Laid, LaidNew
    <3>3. SectionAt(out, k) = sec[k]
      BY DEF Laid, LaidSections
    <3>4. k \in Assignments(out, e)
      BY <1>1, <3>2, <3>3, AssignmentsAre
    <3> QED
      BY <3>4
  <2> QED
    BY <2>1, <2>2
<1> QED
  BY <1>3

\* What is loaded from it is the memory.
LEMMA LaidLoads ==
    ASSUME NEW text \in Seq(Line), NEW E, NEW memory, NEW default,
           IsMemory(memory, E), IsMemory(default, E),
           NotRenamed(E),
           NEW out, NEW sec, NEW src, Laid(out, text, memory, default, sec, src)
    PROVE  ~Changed(out, memory, default) /\ LoadInternal(out, default) = memory
<1>1. out \in Seq(Line) /\ DOMAIN memory = E /\ DOMAIN default = E
  BY DEF Laid, LaidSections, IsMemory
<1>2. Remaining(out, memory, default) = {}
  BY <1>1, LaidHas DEF Remaining
<1>3. ASSUME NEW k \in 1 .. Len(out) PROVE Rewritten(out, k, memory) = out[k]
  <2> DEFINE e == <<SectionAt(out, k), out[k].name>>
  <2>1. CASE ~IsHeader(out[k]) /\ e \in E
    <3>1. k \in Assignments(out, e)
      BY <1>1, <2>1, AssignmentsAre
    <3>2. out[k].value = memory[e]
      BY <2>1, <3>1, LaidLine
    <3>3. Rewritten(out, k, memory) = Assign(out[k].name, memory[e])
      BY <1>1, <2>1 DEF Rewritten
    <3>4. out[k] \in Line
      BY <1>1
    <3>5. out[k] = Assign(out[k].name, out[k].value)
      BY <2>1, <3>4, LineKinds
    <3> QED
      BY <3>2, <3>3, <3>5
  <2>2. CASE ~(~IsHeader(out[k]) /\ e \in E)
    BY <1>1, <2>2 DEF Rewritten
  <2> QED
    BY <2>1, <2>2
<1>4. ~Changed(out, memory, default)
  BY <1>1, <1>2, <1>3 DEF Changed
<1> QED
  BY <1>1, <1>4, Unchanged

\* Two files say the same of an entry.
Alike(out, text, e) ==
    /\ Assignments(out, e) = {} <=> Assignments(text, e) = {}
    /\ Reads(out, e) = Reads(text, e)

\* Other programs read from it what they read before.
LEMMA LaidKeeps ==
    ASSUME NEW text \in Seq(Line), NEW E, NEW memory, NEW default,
           IsMemory(memory, E), NEW out, NEW sec, NEW src,
           Laid(out, text, memory, default, sec, src), NEW e, e \notin E
    PROVE  Alike(out, text, e)
<1>1. out \in Seq(Line)
  BY DEF Laid, LaidSections
<1>2. /\ Assignments(out, e) \subseteq 1 .. Len(out)
      /\ Assignments(text, e) \subseteq 1 .. Len(text)
  BY <1>1, AssignmentsAre
<1>3. ASSUME NEW k \in Assignments(out, e)
      PROVE  /\ k \in 1 .. Len(out) /\ src[k] # 0 /\ src[k] \in Assignments(text, e)
             /\ out[k] = text[src[k]]
  <2>1. k \in 1 .. Len(out)
    BY <1>2
  <2> QED
    BY <2>1, LaidLine
<1>4. ASSUME NEW i \in Assignments(text, e)
      PROVE  \E k \in 1 .. Len(out) : k \in Assignments(out, e) /\ src[k] = i
  BY LaidBack
<1>5. Assignments(out, e) = {} <=> Assignments(text, e) = {}
  BY <1>3, <1>4
<1>6. CASE Assignments(out, e) = {}
  BY <1>1, <1>5, <1>6, ReadsLast DEF Alike
<1>7. CASE Assignments(out, e) # {}
  <2> DEFINE m == Max(Assignments(out, e))
             n == Max(Assignments(text, e))
  <2>1. m \in Assignments(out, e) /\ \A k \in Assignments(out, e) : k <= m
    BY <1>1, <1>7, AssignmentsAre
  <2>2. n \in Assignments(text, e) /\ \A i \in Assignments(text, e) : i <= n
    BY <1>5, <1>7, AssignmentsAre
  <2>3. Reads(out, e) = {out[m].value} /\ Reads(text, e) = {text[n].value}
    BY <1>1, <1>5, <1>7, ReadsLast
  <2> HIDE DEF m, n
  <2>4. /\ m \in 1 .. Len(out) /\ src[m] # 0 /\ src[m] \in Assignments(text, e)
        /\ out[m] = text[src[m]]
    BY <1>3, <2>1
  <2>5. PICK k \in 1 .. Len(out) : k \in Assignments(out, e) /\ src[k] = n
    BY <1>4, <2>2
  <2>6. k <= m /\ n \in 1 .. Len(text) /\ src[m] <= n /\ src[m] \in 1 .. Len(text)
    BY <1>2, <2>1, <2>2, <2>4, <2>5
  <2>7. sec[k] = sec[m]
    <3>1. /\ <<SectionAt(out, k), out[k].name>> = e
          /\ <<SectionAt(out, m), out[m].name>> = e
      BY <1>1, <2>1, <2>4, <2>5, AssignmentsAre
    <3>2. SectionAt(out, k) = sec[k] /\ SectionAt(out, m) = sec[m]
      BY <2>4, <2>5 DEF Laid, LaidSections
    <3> QED
      BY <3>1, <3>2
  <2>8. k < m => src[k] < src[m]
    BY <2>4, <2>5, <2>6, <2>7 DEF Laid, LaidInOrder
  <2>9. src[m] = n
    BY <2>4, <2>5, <2>6, <2>8
  <2> QED
    BY <1>5, <2>3, <2>4, <2>9 DEF Alike
<1> QED
  BY <1>6, <1>7

-----------------------------------------------------------------------------
\* Some places of a file, in their order.

InOrder(p, T) ==
    /\ p \in Seq(T)
    /\ \A j, k \in 1 .. Len(p) : j < k => p[j] < p[k]
    /\ \A i \in T : \E k \in 1 .. Len(p) : p[k] = i

\* Some places of a file, in their order.
LEMMA PickedPositions ==
    ASSUME NEW text \in Seq(Line), NEW T, T \subseteq 1 .. Len(text)
    PROVE  InOrder(Sublist(Positions(text), T), T)
<1> DEFINE list == Positions(text)
           p == Sublist(list, T)
           N == Len(text)
<1>1. N \in Nat /\ DOMAIN text = 1 .. N
  OBVIOUS
<1>2. list = [i \in 1 .. N |-> i]
  BY <1>1 DEF Positions
<1>3. list \in Seq(1 .. N) /\ Len(list) = N /\ \A i \in 1 .. N : list[i] = i
  <2> HIDE DEF list, N
  <2>1. list \in [1 .. N -> 1 .. N]
    BY <1>2
  <2>2. list \in Seq(1 .. N)
    BY <1>1, <2>1
  <2>3. Len(list) = N
    BY <1>1, <2>1
  <2> QED
    BY <1>2, <2>2, <2>3
<1> HIDE DEF list, N
<1>4. p \in Seq(1 .. N) /\ \E at : Picks(at, list, p, T)
  BY <1>3, SublistPicks
<1>5. PICK at : Picks(at, list, p, T)
  BY <1>4
<1> HIDE DEF p
<1>6. \A k \in 1 .. Len(p) : at[k] \in 1 .. N /\ p[k] = at[k] /\ p[k] \in T
  BY <1>3, <1>5 DEF Picks
<1>7. \A j, k \in 1 .. Len(p) : j < k => p[j] < p[k]
  BY <1>5, <1>6 DEF Picks
<1>8. \A i \in T : \E k \in 1 .. Len(p) : p[k] = i
  <2>1. SUFFICES ASSUME NEW i \in T PROVE \E k \in 1 .. Len(p) : p[k] = i
    OBVIOUS
  <2>2. i \in 1 .. Len(list) /\ list[i] = i
    BY <1>3 DEF N
  <2>3. \E k \in 1 .. Len(p) : at[k] = i
    BY <1>5, <2>2 DEF Picks
  <2> QED
    BY <1>6, <2>3
<1>9. p \in Seq(T)
  BY <1>4, <1>6
<1> QED
  BY <1>7, <1>8, <1>9 DEF InOrder, p, list

\* A known section stays one: of the sections in a file, those of its headers.
LEMMA FirstOfSection ==
    ASSUME NEW text \in Seq(Line), NEW i \in 1 .. Len(text)
    PROVE  \E h \in 1 .. i : /\ SectionAt(text, h) = SectionAt(text, i)
                             /\ \A j \in 1 .. h - 1 : SectionAt(text, j) # SectionAt(text, h)
                             /\ ~IsHeader(text[h]) => h = 1 /\ SectionAt(text, h) = General
<1> DEFINE A == {h \in 1 .. i : SectionAt(text, h) = SectionAt(text, i)}
<1>1. A \subseteq Nat /\ i \in A
  OBVIOUS
<1>2. PICK h \in A : \A j \in A : h <= j
  <2> HIDE DEF A
  <2> QED
    BY <1>1, Least
<1>3. \A j \in 1 .. h - 1 : SectionAt(text, j) # SectionAt(text, h)
  <2>1. SUFFICES ASSUME NEW j \in 1 .. h - 1, SectionAt(text, j) = SectionAt(text, h)
                 PROVE  FALSE
    OBVIOUS
  <2>2. j \in A /\ j \in Nat /\ h \in Nat /\ j < h
    BY <1>2, <2>1
  <2> QED
    BY <1>2, <2>2
<1>4. ASSUME ~IsHeader(text[h]) PROVE h = 1 /\ SectionAt(text, h) = General
  <2>1. h \in 1 .. Len(text)
    BY <1>2
  <2>2. CASE h = 1
    BY <1>4, <2>1, <2>2, SectionSteps
  <2>3. CASE h # 1
    <3>1. SectionAt(text, h) = SectionAt(text, h - 1)
      BY <1>4, <2>1, <2>3, SectionSteps
    <3>2. h - 1 \in 1 .. h - 1
      BY <2>1, <2>3
    <3> QED
      BY <1>3, <3>1, <3>2
  <2> QED
    BY <2>2, <2>3
<1>5. h \in 1 .. i /\ SectionAt(text, h) = SectionAt(text, i)
  BY <1>2
<1> QED
  BY <1>3, <1>4, <1>5

-----------------------------------------------------------------------------
\* What has to be added to a section.

AddedIs(a, text, s, memory, default) ==
    /\ a \in Seq(Line)
    /\ \A k \in 1 .. Len(a) : /\ ~IsHeader(a[k])
                              /\ <<s, a[k].name>> \in Remaining(text, memory, default)
                              /\ a[k].value = memory[<<s, a[k].name>>]
    /\ \A e \in Remaining(text, memory, default) :
          e[1] = s => \E k \in 1 .. Len(a) : <<s, a[k].name>> = e

\* A save adds each remaining entry of a section once.
LEMMA AddedProperties ==
    ASSUME NEW text \in Seq(Line), NEW s, NEW E, NEW memory, NEW default,
           IsMemory(memory, E), IsFiniteSet(E)
    PROVE  AddedIs(Added(text, s, memory, default), text, s, memory, default)
<1> DEFINE R == Remaining(text, memory, default)
           D == {e \in R : e[1] = s}
           q == SetToSeq(D)
           a == Added(text, s, memory, default)
<1>1. R \subseteq E /\ \A e \in E : /\ e = <<e[1], e[2]>> /\ e[1] \in STRING
                                   /\ e[2] \in STRING /\ memory[e] \in STRING
  BY DEF Remaining, IsMemory
<1>2. IsFiniteSet(D)
  BY <1>1, FS_Subset
<1>3. q \in Seq(D) /\ ToSet(q) = D
  <2> HIDE DEF D
  <2> QED
    BY <1>2, SetToSeqLists
<1>4. a = [k \in DOMAIN q |-> Assign(q[k][2], memory[q[k]])]
  BY DEF Added
<1> HIDE DEF R, a, q
<1>5. DOMAIN q = 1 .. Len(q) /\ Len(q) \in Nat
  BY <1>3
<1>6. ASSUME NEW k \in 1 .. Len(q)
      PROVE  /\ q[k] \in R /\ q[k] = <<s, q[k][2]>>
             /\ Assign(q[k][2], memory[q[k]]) \in Line
             /\ ~IsHeader(Assign(q[k][2], memory[q[k]]))
             /\ Assign(q[k][2], memory[q[k]]).name = q[k][2]
             /\ Assign(q[k][2], memory[q[k]]).value = memory[q[k]]
  <2>1. q[k] \in D
    BY <1>3
  <2>2. q[k] \in R /\ q[k] = <<s, q[k][2]>> /\ q[k][2] \in STRING /\ memory[q[k]] \in STRING
    BY <1>1, <2>1
  <2> QED
    BY <2>2, NewLines
<1> DEFINE line(k) == Assign(q[k][2], memory[q[k]])
<1>7. a = [k \in 1 .. Len(q) |-> line(k)]
  BY <1>4, <1>5
<1>8. \A k \in 1 .. Len(q) : /\ line(k) \in Line /\ ~IsHeader(line(k)) /\ q[k] \in R
                             /\ q[k] = <<s, line(k).name>> /\ line(k).value = memory[q[k]]
  BY <1>6
<1> HIDE DEF line
<1>9. a \in [1 .. Len(q) -> Line] /\ \A k \in 1 .. Len(q) : a[k] = line(k)
  BY <1>7, <1>8
<1>10. a \in Seq(Line) /\ Len(a) = Len(q)
  BY <1>5, <1>9
<1>11. \A k \in 1 .. Len(a) : /\ ~IsHeader(a[k]) /\ <<s, a[k].name>> \in R
                              /\ a[k].value = memory[<<s, a[k].name>>]
  <2>1. TAKE k \in 1 .. Len(a)
  <2>2. k \in 1 .. Len(q) /\ a[k] = line(k)
    BY <1>9, <1>10
  <2>3. /\ ~IsHeader(line(k)) /\ q[k] \in R
        /\ q[k] = <<s, line(k).name>> /\ line(k).value = memory[q[k]]
    BY <1>8, <2>2
  <2> QED
    BY <2>2, <2>3
<1>12. ASSUME NEW e \in R, e[1] = s PROVE \E k \in 1 .. Len(a) : <<s, a[k].name>> = e
  <2>1. e \in ToSet(q)
    BY <1>3, <1>12
  <2>2. PICK k \in 1 .. Len(q) : q[k] = e
    BY <1>5, <2>1 DEF ToSet
  <2> QED
    <3>1. a[k] = line(k) /\ k \in 1 .. Len(a)
      BY <1>9, <1>10, <2>2
    <3>2. q[k] = <<s, line(k).name>>
      BY <1>8, <2>2
    <3> QED
      BY <2>2, <3>1, <3>2
<1> QED
  BY <1>10, <1>11, <1>12 DEF AddedIs, R, a

-----------------------------------------------------------------------------
\* The order of the sections.

OrderIs(order, text, memory, default) ==
    /\ order \in Seq(STRING)
    /\ IsInjective(order)
    /\ \A b \in 1 .. Len(order) : Known(order[b], memory)
    /\ \A i \in 1 .. Len(text) :
          Known(SectionAt(text, i), memory) => SectionAt(text, i) \in ToSet(order)
    /\ \A e \in Remaining(text, memory, default) : e[1] \in ToSet(order)
    /\ Len(text) # 0 /\ SectionAt(text, 1) = General => order[1] = General

\* The sections that the file has.
LEMMA OldOrder ==
    ASSUME NEW text \in Seq(Line), NEW memory
    PROVE  LET begins == Begins(text, memory)
               old == [k \in DOMAIN begins |-> SectionAt(text, begins[k])]
           IN  /\ old \in Seq(STRING) /\ IsInjective(old)
               /\ \A b \in 1 .. Len(old) : Known(old[b], memory)
               /\ \A i \in 1 .. Len(text) :
                     Known(SectionAt(text, i), memory) => SectionAt(text, i) \in ToSet(old)
               /\ Len(text) # 0 /\ SectionAt(text, 1) = General =>
                     Len(old) # 0 /\ old[1] = General
<1> DEFINE N == Len(text)
           first == {i \in 1 .. N : \A j \in 1 .. (i - 1) :
                                       SectionAt(text, j) # SectionAt(text, i)}
           T == {i \in first : Known(SectionAt(text, i), memory)}
           p == Begins(text, memory)
           old == [k \in DOMAIN p |-> SectionAt(text, p[k])]
<1>1. N \in Nat /\ DOMAIN text = 1 .. N
  OBVIOUS
<1>2. p = Sublist(Positions(text), T)
  BY <1>1 DEF Begins
<1>3. T \subseteq 1 .. Len(text)
  OBVIOUS
<1>4. InOrder(p, T)
  <2> HIDE DEF T, p
  <2> QED
    BY <1>2, <1>3, PickedPositions
<1> HIDE DEF p
<1>5. p \in Seq(T) /\ DOMAIN p = 1 .. Len(p) /\ Len(p) \in Nat
  <2> HIDE DEF T
  <2> QED
    BY <1>4 DEF InOrder
<1>6. \A k \in 1 .. Len(p) : p[k] \in T
  <2> HIDE DEF T
  <2> QED
    BY <1>5
<1>7. \A i \in 1 .. N : SectionAt(text, i) \in STRING
  BY SectionSteps
<1>8. old = [k \in 1 .. Len(p) |-> SectionAt(text, p[k])]
  BY <1>5
<1> HIDE DEF old
<1>9. old \in Seq(STRING) /\ Len(old) = Len(p)
  <2>1. \A k \in 1 .. Len(p) : SectionAt(text, p[k]) \in STRING
    BY <1>6, <1>7
  <2> HIDE DEF T
  <2>2. old \in [1 .. Len(p) -> STRING]
    BY <1>8, <2>1
  <2> QED
    BY <1>5, <2>2
<1>10. \A k \in 1 .. Len(p) : old[k] = SectionAt(text, p[k])
  BY <1>8
<1>11. \A j, k \in 1 .. Len(p) : j < k => old[j] # old[k]
  <2>1. SUFFICES ASSUME NEW j \in 1 .. Len(p), NEW k \in 1 .. Len(p), j < k
                 PROVE  SectionAt(text, p[j]) # SectionAt(text, p[k])
    BY <1>10
  <2>2. p[j] < p[k]
    BY <1>4, <2>1 DEF InOrder
  <2>3. p[j] \in 1 .. p[k] - 1
    BY <1>6, <2>2
  <2> QED
    BY <1>6, <2>3
<1>12. IsInjective(old)
  <2>1. SUFFICES ASSUME NEW j \in 1 .. Len(p), NEW k \in 1 .. Len(p), old[j] = old[k]
                 PROVE  j = k
    BY <1>9 DEF IsInjective
  <2> QED
    BY <1>5, <1>11, <2>1
<1>13. \A b \in 1 .. Len(old) : Known(old[b], memory)
  BY <1>6, <1>9, <1>10
<1>14. ASSUME NEW i \in 1 .. N, Known(SectionAt(text, i), memory)
       PROVE  SectionAt(text, i) \in ToSet(old)
  <2>1. PICK h \in 1 .. i : /\ SectionAt(text, h) = SectionAt(text, i)
                            /\ \A j \in 1 .. h - 1 : SectionAt(text, j) # SectionAt(text, h)
    BY FirstOfSection
  <2>2. h \in T
    BY <1>14, <2>1
  <2>3. PICK k \in 1 .. Len(p) : p[k] = h
    <3> HIDE DEF T
    <3> QED
      BY <1>4, <2>2 DEF InOrder
  <2>4. old[k] = SectionAt(text, i) /\ k \in DOMAIN old
    BY <1>9, <1>10, <2>1, <2>3
  <2> QED
    BY <2>4 DEF ToSet
<1>15. ASSUME N # 0, SectionAt(text, 1) = General PROVE Len(old) # 0 /\ old[1] = General
  <2>1. 1 \in T
    BY <1>1, <1>15 DEF Known
  <2>2. PICK k \in 1 .. Len(p) : p[k] = 1
    <3> HIDE DEF T
    <3> QED
      BY <1>4, <2>1 DEF InOrder
  <2>3. 1 < k => p[1] < p[k]
    BY <1>4, <1>5, <2>2 DEF InOrder
  <2>4. 1 \in 1 .. Len(p) /\ p[1] \in 1 .. N
    BY <1>5, <1>6, <2>2
  <2>5. k = 1
    BY <1>1, <2>2, <2>3, <2>4
  <2> QED
    BY <1>9, <1>10, <1>15, <2>2, <2>4, <2>5
<1> QED
  BY <1>9, <1>12, <1>13, <1>14, <1>15 DEF old, p

\* The order has each known section once, the old ones as they come.
LEMMA OrderProperties ==
    ASSUME NEW text \in Seq(Line), NEW E, NEW memory, NEW default,
           IsMemory(memory, E), IsFiniteSet(E)
    PROVE  OrderIs(SectionOrder(text, memory, default), text, memory, default)
<1> DEFINE begins == Begins(text, memory)
           old == [k \in DOMAIN begins |-> SectionAt(text, begins[k])]
           R == Remaining(text, memory, default)
           D == {e[1] : e \in R} \ ToSet(old)
           q == SetToSeq(D)
           order == SectionOrder(text, memory, default)
<1>1. order = old \o q
  BY DEF SectionOrder
<1>2. /\ old \in Seq(STRING) /\ IsInjective(old)
      /\ \A b \in 1 .. Len(old) : Known(old[b], memory)
      /\ \A i \in 1 .. Len(text) :
            Known(SectionAt(text, i), memory) => SectionAt(text, i) \in ToSet(old)
      /\ Len(text) # 0 /\ SectionAt(text, 1) = General =>
            Len(old) # 0 /\ old[1] = General
  BY OldOrder
<1>3. R \subseteq E /\ \A e \in E : e[1] \in STRING /\ Known(e[1], memory)
  BY DEF Remaining, IsMemory, Known
<1>4. IsFiniteSet(D)
  <2>1. IsFiniteSet(R)
    BY <1>3, FS_Subset
  <2>2. IsFiniteSet({e[1] : e \in R})
    <3> HIDE DEF R
    <3> DEFINE f == [e \in R |-> e[1]]
               I == {e[1] : e \in R}
    <3>1. f \in Surjection(R, I)
      <4>1. f \in [R -> I]
        OBVIOUS
      <4>2. ASSUME NEW s \in I PROVE \E e \in R : f[e] = s
        OBVIOUS
      <4> QED
        BY <4>1, <4>2 DEF Surjection
    <3> QED
      BY <2>1, <3>1, FS_Surjection
  <2> QED
    BY <2>2, FS_Subset
<1> HIDE DEF D, old, order, R
<1>5. q \in Seq(D) /\ IsInjective(q) /\ ToSet(q) = D
  BY <1>4, SetToSeqLists
<1> HIDE DEF q
<1>6. /\ Len(old) \in Nat /\ DOMAIN old = 1 .. Len(old)
      /\ Len(q) \in Nat /\ DOMAIN q = 1 .. Len(q)
  BY <1>2, <1>5
<1>7. \A k \in 1 .. Len(q) : q[k] \in D
  BY <1>5
<1>8. \A d \in D : d \in STRING /\ Known(d, memory) /\ d \notin ToSet(old)
  BY <1>3 DEF D
<1>9. q \in Seq(STRING)
  <2>1. D \subseteq STRING
    BY <1>8
  <2>2. \A k \in 1 .. Len(q) : q[k] \in STRING
    BY <1>7, <2>1
  <2> QED
    BY <1>5, <1>6, <2>2
<1>10. /\ order \in Seq(STRING) /\ Len(order) = Len(old) + Len(q)
       /\ \A k \in 1 .. Len(old) : order[k] = old[k]
       /\ \A k \in 1 .. Len(q) : order[Len(old) + k] = q[k]
  BY <1>1, <1>2, <1>6, <1>9, ConcatProperties
<1>11. \A b \in 1 .. Len(order) : \/ b \in 1 .. Len(old) /\ order[b] = old[b]
                                  \/ /\ b - Len(old) \in 1 .. Len(q)
                                     /\ order[b] = q[b - Len(old)]
  <2>1. TAKE b \in 1 .. Len(order)
  <2>2. b \in 1 .. Len(old) \/ (b - Len(old) \in 1 .. Len(q) /\ b = Len(old) + (b - Len(old)))
    BY <1>6, <1>10
  <2> QED
    BY <1>10, <2>2
<1>12. \A b \in 1 .. Len(old) : old[b] \in ToSet(old)
  BY <1>6 DEF ToSet
<1>13. ToSet(order) = ToSet(old) \union D
  <2>1. DOMAIN order = 1 .. Len(order)
    BY <1>10
  <2>2. ASSUME NEW b \in 1 .. Len(order) PROVE order[b] \in ToSet(old) \union D
    BY <1>7, <1>11, <1>12
  <2>3. ASSUME NEW b \in 1 .. Len(old) PROVE old[b] \in ToSet(order)
    <3>1. b \in DOMAIN order /\ order[b] = old[b]
      BY <1>6, <1>10, <2>1
    <3> QED
      BY <3>1 DEF ToSet
  <2>4. ASSUME NEW d \in D PROVE d \in ToSet(order)
    <3>1. PICK k \in 1 .. Len(q) : q[k] = d
      BY <1>5, <1>6, <2>4 DEF ToSet
    <3>2. Len(old) + k \in DOMAIN order /\ order[Len(old) + k] = d
      BY <1>6, <1>10, <2>1, <3>1
    <3> QED
      BY <3>2 DEF ToSet
  <2> QED
    BY <1>6, <2>1, <2>2, <2>3, <2>4 DEF ToSet
<1>14. IsInjective(order)
  <2>1. DOMAIN order = 1 .. Len(order)
    BY <1>10
  <2>2. SUFFICES ASSUME NEW a \in 1 .. Len(order), NEW b \in 1 .. Len(order),
                        order[a] = order[b]
                 PROVE  a = b
    BY <2>1 DEF IsInjective
  <2>3. CASE a \in 1 .. Len(old) /\ order[a] = old[a] /\ b \in 1 .. Len(old) /\ order[b] = old[b]
    BY <1>2, <1>6, <2>2, <2>3 DEF IsInjective
  <2>4. CASE /\ a - Len(old) \in 1 .. Len(q) /\ order[a] = q[a - Len(old)]
             /\ b - Len(old) \in 1 .. Len(q) /\ order[b] = q[b - Len(old)]
    <3>1. a - Len(old) = b - Len(old)
      BY <1>5, <1>6, <2>2, <2>4 DEF IsInjective
    <3> QED
      BY <1>6, <2>2, <3>1
  <2>5. CASE /\ a \in 1 .. Len(old) /\ order[a] = old[a]
             /\ b - Len(old) \in 1 .. Len(q) /\ order[b] = q[b - Len(old)]
    BY <1>7, <1>8, <1>12, <2>2, <2>5
  <2>6. CASE /\ b \in 1 .. Len(old) /\ order[b] = old[b]
             /\ a - Len(old) \in 1 .. Len(q) /\ order[a] = q[a - Len(old)]
    BY <1>7, <1>8, <1>12, <2>2, <2>6
  <2> QED
    BY <1>11, <2>3, <2>4, <2>5, <2>6
<1>15. \A b \in 1 .. Len(order) : Known(order[b], memory)
  BY <1>2, <1>7, <1>8, <1>11
<1>16. \A e \in R : e[1] \in ToSet(order)
  BY <1>13 DEF D
<1>17. Len(text) # 0 /\ SectionAt(text, 1) = General => order[1] = General
  <2>1. Len(old) # 0 => 1 \in 1 .. Len(old)
    BY <1>6
  <2> QED
    BY <1>2, <1>10, <2>1
<1>18. \A i \in 1 .. Len(text) :
         Known(SectionAt(text, i), memory) => SectionAt(text, i) \in ToSet(order)
  BY <1>2, <1>13
<1> QED
  BY <1>10, <1>14, <1>15, <1>16, <1>17, <1>18 DEF OrderIs, order, R

-----------------------------------------------------------------------------
\* The lines of some sections, and their places p in the file.

KeptIs(p, lines, text, secs, memory) ==
    /\ p \in Seq(1 .. Len(text)) /\ lines \in Seq(Line) /\ Len(lines) = Len(p)
    /\ \A j, k \in 1 .. Len(p) : j < k => p[j] < p[k]
    /\ \A k \in 1 .. Len(p) : /\ lines[k] = Rewritten(text, p[k], memory)
                              /\ SectionAt(text, p[k]) \in secs
                              /\ IsHeader(lines[k]) <=> IsHeader(text[p[k]])
                              /\ IsHeader(lines[k]) => lines[k] = text[p[k]]
    /\ \A k \in 1 .. Len(p) :
          IsHeader(lines[k]) /\ Known(lines[k].section, memory) =>
             \A j \in 1 .. Len(text) : SectionAt(text, j) \in secs => p[k] <= j
    /\ \A i \in 1 .. Len(text) :
          /\ SectionAt(text, i) \in secs
          /\ \/ ~IsHeader(text[i]) \/ ~Known(text[i].section, memory)
             \/ \A j \in 1 .. i - 1 : SectionAt(text, j) \notin secs
          => \E k \in 1 .. Len(p) : p[k] = i

\* What is kept of some sections: all lines but headers that come again.
LEMMA KeptProperties ==
    ASSUME NEW text \in Seq(Line), NEW E, NEW memory, IsMemory(memory, E), NEW secs
    PROVE  KeptIs(Kept(text, secs, memory), Lines(text, secs, memory), text, secs, memory)
<1> DEFINE N == Len(text)
           in == {i \in 1 .. N : SectionAt(text, i) \in secs}
           again == {i \in in : /\ IsHeader(text[i]) /\ Known(text[i].section, memory)
                                /\ \E j \in in : j < i}
           p == Kept(text, secs, memory)
           lines == Lines(text, secs, memory)
           T == in \ again
<1>1. N \in Nat /\ DOMAIN text = 1 .. N
  OBVIOUS
<1>2. p = Sublist(Positions(text), T)
  BY <1>1 DEF Kept
<1>3. T \subseteq 1 .. Len(text)
  OBVIOUS
<1>4. InOrder(p, T)
  <2> HIDE DEF T, p
  <2> QED
    BY <1>2, <1>3, PickedPositions
<1>5. lines = [k \in DOMAIN p |-> Rewritten(text, p[k], memory)]
  BY DEF Lines
<1> HIDE DEF p, lines
<1>6. /\ p \in Seq(T) /\ DOMAIN p = 1 .. Len(p) /\ Len(p) \in Nat
      /\ \A j, k \in 1 .. Len(p) : j < k => p[j] < p[k]
      /\ \A i \in T : \E k \in 1 .. Len(p) : p[k] = i
  <2> HIDE DEF T
  <2> QED
    BY <1>4 DEF InOrder
<1>7. \A k \in 1 .. Len(p) : p[k] \in T
  <2> HIDE DEF T
  <2> QED
    BY <1>6
<1>8. \A k \in 1 .. Len(p) : p[k] \in 1 .. N /\ SectionAt(text, p[k]) \in secs
  BY <1>7
<1>9. p \in Seq(1 .. Len(text))
  <2> HIDE DEF T
  <2> QED
    BY <1>6, <1>8
<1>10. /\ lines \in Seq(Line) /\ Len(lines) = Len(p)
       /\ \A k \in 1 .. Len(p) : lines[k] = Rewritten(text, p[k], memory)
  <2>1. lines = [k \in 1 .. Len(p) |-> Rewritten(text, p[k], memory)]
    BY <1>5, <1>6
  <2>2. \A k \in 1 .. Len(p) : Rewritten(text, p[k], memory) \in Line
    BY <1>8, RewrittenLine
  <2> HIDE DEF T
  <2>3. lines \in [1 .. Len(p) -> Line]
    BY <2>1, <2>2
  <2>4. lines \in Seq(Line) /\ Len(lines) = Len(p)
    BY <1>6, <2>3
  <2> QED
    BY <2>1, <2>4
<1>11. \A k \in 1 .. Len(p) : /\ IsHeader(lines[k]) <=> IsHeader(text[p[k]])
                              /\ IsHeader(lines[k]) => lines[k] = text[p[k]]
  <2>1. TAKE k \in 1 .. Len(p)
  <2> DEFINE i == p[k]
             line == lines[k]
  <2>2. i \in 1 .. Len(text) /\ line = Rewritten(text, i, memory)
    BY <1>8, <1>10
  <2> HIDE DEF T, N, i, line
  <2>3. (IsHeader(line) <=> IsHeader(text[i])) /\ (IsHeader(text[i]) => line = text[i])
    BY <2>2, RewrittenLine
  <2> QED
    BY <2>3 DEF i, line
<1>12. ASSUME NEW k \in 1 .. Len(p), IsHeader(lines[k]), Known(lines[k].section, memory),
              NEW j \in 1 .. N, SectionAt(text, j) \in secs
       PROVE  p[k] <= j
  <2>1. /\ p[k] \in in /\ p[k] \notin again /\ j \in in
        /\ IsHeader(text[p[k]]) /\ Known(text[p[k]].section, memory)
    BY <1>7, <1>11, <1>12
  <2>2. ~ (j < p[k])
    BY <2>1
  <2> QED
    BY <1>8, <2>2
<1>13. ASSUME NEW i \in 1 .. N, SectionAt(text, i) \in secs,
              \/ ~IsHeader(text[i]) \/ ~Known(text[i].section, memory)
              \/ \A j \in 1 .. i - 1 : SectionAt(text, j) \notin secs
       PROVE  \E k \in 1 .. Len(p) : p[k] = i
  <2>1. i \notin again
    <3>1. SUFFICES ASSUME i \in again PROVE FALSE
      OBVIOUS
    <3>2. PICK j \in in : j < i
      BY <3>1
    <3>3. j \in 1 .. i - 1 /\ SectionAt(text, j) \in secs
      BY <3>2
    <3> QED
      BY <1>13, <3>1, <3>3
  <2>2. i \in T
    BY <1>13, <2>1
  <2> HIDE DEF T
  <2> QED
    BY <1>6, <2>2
<1> HIDE DEF T
<1>14. KeptIs(p, lines, text, secs, memory)
  BY <1>6, <1>8, <1>9, <1>10, <1>11, <1>12, <1>13 DEF KeptIs
<1> QED
  BY <1>14 DEF p, lines

-----------------------------------------------------------------------------
\* What is written of a section that is known, and where it comes from.

BlockIs(block, from, text, s, memory, default) ==
    /\ block \in Seq(Line) /\ Len(block) # 0
    /\ from \in [1 .. Len(block) -> 0 .. Len(text)]
    /\ \A i \in 1 .. Len(block) : from[i] # 0 =>
          SectionAt(text, from[i]) = s /\ block[i] = Rewritten(text, from[i], memory)
    /\ \A i \in 1 .. Len(block) : from[i] = 0 =>
          \/ IsHeader(block[i])
          \/ /\ ~IsHeader(block[i])
             /\ <<s, block[i].name>> \in Remaining(text, memory, default)
             /\ block[i].value = memory[<<s, block[i].name>>]
    /\ \A j, i \in 1 .. Len(block) :
          j < i /\ from[j] # 0 /\ from[i] # 0 => from[j] < from[i]
    /\ \A i \in 1 .. Len(text) : SectionAt(text, i) = s /\ ~IsHeader(text[i]) =>
          \E k \in 1 .. Len(block) : from[k] = i
    /\ \A e \in Remaining(text, memory, default) : e[1] = s =>
          \E k \in 1 .. Len(block) : ~IsHeader(block[k]) /\ <<s, block[k].name>> = e
    /\ \A i \in 1 .. Len(block) : IsHeader(block[i]) => i = 1 /\ block[i].section = s
    /\ ~IsHeader(block[1]) => /\ s = General /\ Len(text) # 0
                              /\ SectionAt(text, 1) = General

\* The data of a section that the file has: its lines and what is added.
LEMMA BlockOfOld ==
    ASSUME NEW text \in Seq(Line), NEW E, NEW memory, NEW default, IsMemory(memory, E),
           NEW s \in STRING, Known(s, memory),
           NEW p, NEW lines, KeptIs(p, lines, text, {s}, memory),
           NEW a, AddedIs(a, text, s, memory, default),
           \E i \in 1 .. Len(text) : SectionAt(text, i) = s
    PROVE  \E from : BlockIs(lines \o a, from, text, s, memory, default)
<1> DEFINE block == lines \o a
           from == [i \in 1 .. Len(block) |-> IF i <= Len(lines) THEN p[i] ELSE 0]
<1>1. /\ lines \in Seq(Line) /\ a \in Seq(Line) /\ Len(lines) = Len(p)
      /\ \A k \in 1 .. Len(lines) : p[k] \in 1 .. Len(text)
      /\ \A j, k \in 1 .. Len(p) : j < k => p[j] < p[k]
      /\ \A k \in 1 .. Len(p) : /\ lines[k] = Rewritten(text, p[k], memory)
                                /\ SectionAt(text, p[k]) = s
                                /\ IsHeader(lines[k]) <=> IsHeader(text[p[k]])
                                /\ IsHeader(lines[k]) => lines[k] = text[p[k]]
  BY DEF KeptIs, AddedIs
<1>2. Len(lines) \in Nat /\ Len(a) \in Nat /\ Len(text) \in Nat
  BY <1>1
<1>3. /\ block \in Seq(Line) /\ Len(block) = Len(lines) + Len(a)
      /\ \A k \in 1 .. Len(lines) : block[k] = lines[k]
      /\ \A k \in 1 .. Len(a) : block[Len(lines) + k] = a[k]
  <2>1. lines \in Seq(Line) /\ a \in Seq(Line)
    BY <1>1
  <2> QED
    BY <2>1, ConcatProperties
<1> HIDE DEF block
<1>4. /\ \A k \in 1 .. Len(lines) : k \in 1 .. Len(block) /\ from[k] = p[k] /\ from[k] # 0
      /\ \A k \in 1 .. Len(block) : k \in 1 .. Len(lines) \/ (k > Len(lines) /\ from[k] = 0)
  BY <1>1, <1>2, <1>3
<1>5. from \in [1 .. Len(block) -> 0 .. Len(text)]
  <2>1. ASSUME NEW k \in 1 .. Len(block) PROVE from[k] \in 0 .. Len(text)
    BY <1>1, <1>2, <1>4
  <2> QED
    BY <2>1
<1> HIDE DEF from
<1>6. \A k \in 1 .. Len(block) : k > Len(lines) =>
        /\ ~IsHeader(block[k])
        /\ <<s, block[k].name>> \in Remaining(text, memory, default)
        /\ block[k].value = memory[<<s, block[k].name>>]
  <2>1. SUFFICES ASSUME NEW k \in 1 .. Len(block), k > Len(lines)
                 PROVE  /\ ~IsHeader(block[k])
                        /\ <<s, block[k].name>> \in Remaining(text, memory, default)
                        /\ block[k].value = memory[<<s, block[k].name>>]
    OBVIOUS
  <2>2. k - Len(lines) \in 1 .. Len(a) /\ k = Len(lines) + (k - Len(lines))
    BY <1>2, <1>3, <2>1
  <2>3. block[k] = a[k - Len(lines)]
    BY <1>3, <2>2
  <2> QED
    BY <2>2, <2>3 DEF AddedIs
<1>7. PICK h \in 1 .. Len(text) :
        /\ SectionAt(text, h) = s
        /\ \A j \in 1 .. h - 1 : SectionAt(text, j) # s
        /\ ~IsHeader(text[h]) => h = 1 /\ SectionAt(text, h) = General
  <2>1. PICK i \in 1 .. Len(text) : SectionAt(text, i) = s
    OBVIOUS
  <2>2. \E h \in 1 .. i : /\ SectionAt(text, h) = SectionAt(text, i)
                          /\ \A j \in 1 .. h - 1 : SectionAt(text, j) # SectionAt(text, h)
                          /\ ~IsHeader(text[h]) => h = 1 /\ SectionAt(text, h) = General
    BY FirstOfSection
  <2>3. PICK g \in 1 .. i : /\ SectionAt(text, g) = SectionAt(text, i)
                            /\ \A j \in 1 .. g - 1 : SectionAt(text, j) # SectionAt(text, g)
                            /\ ~IsHeader(text[g]) => g = 1 /\ SectionAt(text, g) = General
    BY <2>2
  <2>4. g \in 1 .. Len(text) /\ SectionAt(text, g) = s
    BY <1>2, <2>1, <2>3
  <2>5. \A j \in 1 .. g - 1 : SectionAt(text, j) # s
    BY <2>3, <2>4
  <2> QED
    BY <2>3, <2>4, <2>5
<1>8. PICK kh \in 1 .. Len(p) : p[kh] = h
  BY <1>7 DEF KeptIs
<1>9. 1 \in 1 .. Len(p) /\ p[1] = h
  <2>1. 1 \in 1 .. Len(p)
    BY <1>1, <1>2, <1>8
  <2>2. 1 < kh => p[1] < h
    BY <1>1, <1>8, <2>1
  <2>3. p[1] \in 1 .. Len(text) /\ SectionAt(text, p[1]) = s
    BY <1>1, <2>1
  <2>4. ~ (p[1] < h)
    <3>1. p[1] < h => p[1] \in 1 .. h - 1
      BY <1>2, <2>3
    <3> QED
      BY <1>7, <2>3, <3>1
  <2> QED
    BY <1>1, <1>8, <2>1, <2>2, <2>4
<1>10. ASSUME NEW i \in 1 .. Len(block), IsHeader(block[i])
       PROVE  i = 1 /\ block[i].section = s
  <2>1. i \in 1 .. Len(lines) /\ block[i] = lines[i]
    BY <1>3, <1>4, <1>6, <1>10
  <2>2. /\ IsHeader(text[p[i]]) /\ lines[i] = text[p[i]] /\ p[i] \in 1 .. Len(text)
        /\ SectionAt(text, p[i]) = s
    BY <1>1, <1>10, <2>1
  <2>3. text[p[i]].section = s
    BY <2>2, SectionSteps
  <2>4. p[i] <= h
    <3>1. Known(lines[i].section, memory) /\ IsHeader(lines[i])
      BY <1>10, <2>1, <2>2, <2>3
    <3>2. i \in 1 .. Len(p)
      BY <1>1, <2>1
    <3>3. SectionAt(text, h) \in {s}
      BY <1>7
    <3>4. \A j \in 1 .. Len(text) : SectionAt(text, j) \in {s} => p[i] <= j
      BY <3>1, <3>2 DEF KeptIs
    <3> QED
      BY <3>3, <3>4
  <2>5. 1 < i => p[1] < p[i]
    BY <1>1, <1>9, <2>1
  <2> QED
    BY <1>1, <1>9, <2>1, <2>2, <2>3, <2>4, <2>5
<1>11. ASSUME ~IsHeader(block[1])
       PROVE  s = General /\ Len(text) # 0 /\ SectionAt(text, 1) = General
  <2>1. ~IsHeader(text[h])
    BY <1>1, <1>3, <1>9, <1>11
  <2> QED
    BY <1>2, <1>7, <2>1
<1>12. ASSUME NEW i \in 1 .. Len(text), SectionAt(text, i) = s, ~IsHeader(text[i])
       PROVE  \E k \in 1 .. Len(block) : from[k] = i
  <2>1. PICK k \in 1 .. Len(p) : p[k] = i
    BY <1>12 DEF KeptIs
  <2> QED
    BY <1>1, <1>4, <2>1
<1>13. ASSUME NEW e \in Remaining(text, memory, default), e[1] = s
       PROVE  \E k \in 1 .. Len(block) : ~IsHeader(block[k]) /\ <<s, block[k].name>> = e
  <2>1. PICK k \in 1 .. Len(a) : ~IsHeader(a[k]) /\ <<s, a[k].name>> = e
    BY <1>13 DEF AddedIs
  <2>2. Len(lines) + k \in 1 .. Len(block) /\ block[Len(lines) + k] = a[k]
    BY <1>2, <1>3
  <2> QED
    BY <2>1, <2>2
<1>14. \A i \in 1 .. Len(block) : from[i] # 0 =>
         SectionAt(text, from[i]) = s /\ block[i] = Rewritten(text, from[i], memory)
  BY <1>1, <1>3, <1>4
<1>15. \A j, i \in 1 .. Len(block) :
         j < i /\ from[j] # 0 /\ from[i] # 0 => from[j] < from[i]
  BY <1>1, <1>4
<1>16. Len(block) # 0
  BY <1>1, <1>2, <1>3, <1>9
<1>17. \A i \in 1 .. Len(block) : from[i] = 0 => i > Len(lines)
  BY <1>4
<1>18. BlockIs(block, from, text, s, memory, default)
  BY <1>3, <1>5, <1>6, <1>10, <1>11, <1>12, <1>13, <1>14, <1>15, <1>16, <1>17 DEF BlockIs
<1> QED
  BY <1>18 DEF block

\* The data of a new section: a header and what is added.
LEMMA BlockOfNew ==
    ASSUME NEW text \in Seq(Line), NEW memory, NEW default,
           NEW s \in STRING, NEW a, AddedIs(a, text, s, memory, default),
           ~ \E i \in 1 .. Len(text) : SectionAt(text, i) = s
    PROVE  \E from : BlockIs(<<Header(s)>> \o a, from, text, s, memory, default)
<1> DEFINE one == <<Header(s)>>
           block == one \o a
           from == [i \in 1 .. Len(block) |-> 0]
<1>1. Header(s) \in Line /\ IsHeader(Header(s)) /\ Header(s).section = s
  BY NewLines
<1>2. /\ one \in Seq(Line) /\ Len(one) = 1 /\ one[1] = Header(s)
  BY <1>1
<1>3. a \in Seq(Line) /\ Len(a) \in Nat
  BY DEF AddedIs
<1> HIDE DEF one
<1>4. /\ block \in Seq(Line) /\ Len(block) = 1 + Len(a)
      /\ block[1] = Header(s)
      /\ \A k \in 1 .. Len(a) : block[1 + k] = a[k]
  <2>1. 1 \in 1 .. Len(one)
    BY <1>2
  <2> QED
    <3>1. one \in Seq(Line) /\ a \in Seq(Line)
      BY <1>2, <1>3
    <3>2. /\ one \o a \in Seq(Line) /\ Len(one \o a) = Len(one) + Len(a)
          /\ \A i \in 1 .. Len(one) : (one \o a)[i] = one[i]
          /\ \A i \in 1 .. Len(a) : (one \o a)[Len(one) + i] = a[i]
      BY <3>1, ConcatProperties
    <3> HIDE DEF block
    <3> QED
      BY <1>2, <2>1, <3>2 DEF block
<1> HIDE DEF block
<1>5. \A k \in 1 .. Len(block) : from[k] = 0
  OBVIOUS
<1>6. from \in [1 .. Len(block) -> 0 .. Len(text)]
  OBVIOUS
<1> HIDE DEF from
<1>7. \A k \in 1 .. Len(block) : k # 1 =>
        /\ ~IsHeader(block[k])
        /\ <<s, block[k].name>> \in Remaining(text, memory, default)
        /\ block[k].value = memory[<<s, block[k].name>>]
  <2>1. SUFFICES ASSUME NEW k \in 1 .. Len(block), k # 1
                 PROVE  /\ ~IsHeader(block[k])
                        /\ <<s, block[k].name>> \in Remaining(text, memory, default)
                        /\ block[k].value = memory[<<s, block[k].name>>]
    OBVIOUS
  <2>2. k - 1 \in 1 .. Len(a) /\ k = 1 + (k - 1)
    BY <1>3, <1>4, <2>1
  <2>3. block[k] = a[k - 1]
    BY <1>4, <2>2
  <2> QED
    BY <2>2, <2>3 DEF AddedIs
<1>8. ASSUME NEW e \in Remaining(text, memory, default), e[1] = s
      PROVE  \E k \in 1 .. Len(block) : ~IsHeader(block[k]) /\ <<s, block[k].name>> = e
  <2>1. PICK k \in 1 .. Len(a) : ~IsHeader(a[k]) /\ <<s, a[k].name>> = e
    BY <1>8 DEF AddedIs
  <2>2. 1 + k \in 1 .. Len(block) /\ block[1 + k] = a[k]
    BY <1>3, <1>4
  <2> QED
    BY <2>1, <2>2
<1>9. BlockIs(block, from, text, s, memory, default)
  <2>1. \A i \in 1 .. Len(block) : IsHeader(block[i]) => i = 1 /\ block[i].section = s
    BY <1>1, <1>4, <1>7
  <2>2. Len(block) # 0 /\ IsHeader(block[1])
    BY <1>1, <1>3, <1>4
  <2>3. \A i \in 1 .. Len(block) :
          \/ IsHeader(block[i])
          \/ /\ ~IsHeader(block[i])
             /\ <<s, block[i].name>> \in Remaining(text, memory, default)
             /\ block[i].value = memory[<<s, block[i].name>>]
    BY <1>7, <2>2
  <2>4. \A i \in 1 .. Len(text) : SectionAt(text, i) # s
    OBVIOUS
  <2> QED
    BY <1>4, <1>5, <1>6, <1>8, <2>1, <2>2, <2>3, <2>4 DEF BlockIs
<1> QED
  BY <1>9 DEF block, one

\* What a save writes for a section that is known.
LEMMA BlockProperties ==
    ASSUME NEW text \in Seq(Line), NEW E, NEW memory, NEW default,
           IsMemory(memory, E), IsFiniteSet(E), NEW s \in STRING, Known(s, memory)
    PROVE  \E from : BlockIs(SectionData(text, s, memory, default), from, text, s,
                             memory, default)
<1> DEFINE a == Added(text, s, memory, default)
           p == Kept(text, {s}, memory)
           lines == Lines(text, {s}, memory)
<1>1. AddedIs(a, text, s, memory, default)
  BY AddedProperties
<1>2. KeptIs(p, lines, text, {s}, memory)
  BY KeptProperties
<1>3. DOMAIN text = 1 .. Len(text)
  OBVIOUS
<1>4. CASE \E i \in 1 .. Len(text) : SectionAt(text, i) = s
  <2>1. SectionData(text, s, memory, default) = lines \o a
    BY <1>3, <1>4 DEF SectionData
  <2> HIDE DEF a, p, lines
  <2> QED
    BY <1>1, <1>2, <1>4, <2>1, BlockOfOld
<1>5. CASE ~ \E i \in 1 .. Len(text) : SectionAt(text, i) = s
  <2>1. SectionData(text, s, memory, default) = <<Header(s)>> \o a
    BY <1>3, <1>5 DEF SectionData
  <2> HIDE DEF a
  <2> QED
    BY <1>1, <1>5, <2>1, BlockOfNew
<1> QED
  BY <1>4, <1>5

-----------------------------------------------------------------------------
\* The lines of the sections that nobody knows start with a header, each time.

NoneKnown(secs, memory) == \A s \in secs : ~Known(s, memory)

\* The header that line k is under.
HeaderOf(h, k, p, lines, text) ==
    /\ IsHeader(lines[h])
    /\ lines[h].section = SectionAt(text, p[k])
    /\ \A j \in 1 .. k : h < j => ~IsHeader(lines[j])

\* The header before a line of a section that nobody knows is kept, too.
LEMMA UnknownLines ==
    ASSUME NEW text \in Seq(Line), NEW memory, NEW secs, NoneKnown(secs, memory),
           NEW p, NEW lines, KeptIs(p, lines, text, secs, memory), NEW k \in 1 .. Len(p)
    PROVE  \E h \in 1 .. k : HeaderOf(h, k, p, lines, text)
<1>1. /\ lines \in Seq(Line) /\ Len(lines) = Len(p) /\ Len(text) \in Nat /\ Len(p) \in Nat
      /\ \A i \in 1 .. Len(p) : p[i] \in 1 .. Len(text)
      /\ \A i, j \in 1 .. Len(p) : i < j => p[i] < p[j]
      /\ \A i \in 1 .. Len(p) : /\ SectionAt(text, p[i]) \in secs
                                /\ IsHeader(lines[i]) <=> IsHeader(text[p[i]])
                                /\ IsHeader(lines[i]) => lines[i] = text[p[i]]
  <2>1. p \in Seq(1 .. Len(text))
    BY DEF KeptIs
  <2>2. \A i \in 1 .. Len(p) : p[i] \in 1 .. Len(text)
    BY <2>1
  <2> QED
    BY <2>1, <2>2 DEF KeptIs
<1> DEFINE n == p[k]
<1>2. n \in 1 .. Len(text) /\ SectionAt(text, n) \in secs /\ n \in Nat
  BY <1>1
<1> HIDE DEF n
<1>3. ~ \A j \in 1 .. n : ~IsHeader(text[j])
  BY <1>2, SectionIsGeneral DEF Known, NoneKnown
<1>4. PICK h \in 1 .. n : /\ IsHeader(text[h])
                          /\ \A j \in 1 .. n : h < j => ~IsHeader(text[j])
                          /\ SectionAt(text, n) = text[h].section
  BY <1>2, <1>3, SectionCases
<1>5. h \in 1 .. Len(text) /\ SectionAt(text, h) = text[h].section
  BY <1>2, <1>4, SectionSteps
<1>6. PICK kh \in 1 .. Len(p) : p[kh] = h
  BY <1>2, <1>4, <1>5 DEF KeptIs, NoneKnown
<1>7. kh \in 1 .. k
  <2>1. k < kh => n < h
    BY <1>1, <1>6 DEF n
  <2> QED
    BY <1>2, <1>4, <1>6, <2>1
<1>8. IsHeader(lines[kh]) /\ lines[kh].section = SectionAt(text, n)
  BY <1>1, <1>4, <1>6
<1>9. ASSUME NEW j \in 1 .. k, kh < j PROVE ~IsHeader(lines[j])
  <2>1. j \in 1 .. Len(p)
    BY <1>1
  <2>2. h < p[j] /\ (j < k => p[j] < n) /\ p[j] \in 1 .. Len(text)
    BY <1>1, <1>6, <1>9, <2>1 DEF n
  <2>3. p[j] \in 1 .. n
    BY <1>2, <2>2 DEF n
  <2> QED
    BY <1>1, <1>4, <2>1, <2>2, <2>3
<1>10. HeaderOf(kh, k, p, lines, text)
  BY <1>8, <1>9 DEF n, HeaderOf
<1> QED
  BY <1>7, <1>10

-----------------------------------------------------------------------------
\* Where the lines of what is written come from: from block blk[k] of a section
\* that is known, or from the rest.

InData(k, out, order, data, F, blk, pos, sec, src) ==
    /\ blk[k] \in 1 .. Len(order)
    /\ pos[k] \in 1 .. Len(data[blk[k]])
    /\ out[k] = data[blk[k]][pos[k]]
    /\ sec[k] = order[blk[k]]
    /\ src[k] = F[blk[k]][pos[k]]

InRest(k, out, order, text, p, rest, blk, pos, sec, src) ==
    /\ blk[k] = Len(order) + 1
    /\ pos[k] \in 1 .. Len(rest)
    /\ out[k] = rest[pos[k]]
    /\ sec[k] = SectionAt(text, p[pos[k]])
    /\ src[k] = p[pos[k]]

\* The data of the sections, one after the other, and then the rest.
LEMMA LaidOut ==
    ASSUME NEW text \in Seq(Line), NEW memory, NEW default,
           NEW order, OrderIs(order, text, memory, default),
           NEW data \in Seq(Seq(Line)), Len(data) = Len(order), NEW F,
           \A b \in 1 .. Len(order) : BlockIs(data[b], F[b], text, order[b], memory, default),
           NEW unknown, unknown = {SectionAt(text, i) : i \in 1 .. Len(text)} \ ToSet(order),
           NEW p, NEW rest, KeptIs(p, rest, text, unknown, memory),
           NEW out \in Seq(Line), NEW blk, NEW pos, Spread(out, Append(data, rest), blk, pos)
    PROVE  \E sec, src : Laid(out, text, memory, default, sec, src)
<1> DEFINE n == Len(order)
           all == Append(data, rest)
           sec == [k \in 1 .. Len(out) |-> IF blk[k] <= n THEN order[blk[k]]
                                           ELSE SectionAt(text, p[pos[k]])]
           src == [k \in 1 .. Len(out) |-> IF blk[k] <= n THEN F[blk[k]][pos[k]]
                                           ELSE p[pos[k]]]
           Data(k) == InData(k, out, order, data, F, blk, pos, sec, src)
           Rest(k) == InRest(k, out, order, text, p, rest, blk, pos, sec, src)
<1>1. /\ order \in Seq(STRING) /\ n \in Nat /\ Len(out) \in Nat /\ Len(text) \in Nat
      /\ DOMAIN order = 1 .. n
  BY DEF OrderIs
<1>2. /\ rest \in Seq(Line) /\ Len(rest) = Len(p) /\ p \in Seq(1 .. Len(text))
      /\ \A i \in 1 .. Len(p) : /\ SectionAt(text, p[i]) \in unknown
                                /\ rest[i] = Rewritten(text, p[i], memory)
      /\ \A i, j \in 1 .. Len(p) : i < j => p[i] < p[j]
  BY DEF KeptIs
<1>3. \A i \in 1 .. Len(p) : p[i] \in 1 .. Len(text)
  BY <1>2
<1>4. /\ Len(all) = n + 1 /\ all[n + 1] = rest
      /\ \A b \in 1 .. n : all[b] = data[b]
  <2>1. rest \in Seq(Line)
    BY <1>2
  <2>2. /\ Len(Append(data, rest)) = Len(data) + 1
        /\ Append(data, rest)[Len(data) + 1] = rest
        /\ \A b \in 1 .. Len(data) : Append(data, rest)[b] = data[b]
    BY <2>1, AppendProperties
  <2> QED
    BY <2>2
<1>5. /\ \A k \in 1 .. Len(out) : /\ blk[k] \in 1 .. n + 1
                                  /\ pos[k] \in 1 .. Len(all[blk[k]])
                                  /\ out[k] = all[blk[k]][pos[k]]
      /\ \A j, k \in 1 .. Len(out) :
            j < k => blk[j] < blk[k] \/ (blk[j] = blk[k] /\ pos[j] < pos[k])
      /\ \A b \in 1 .. n + 1 : \A i \in 1 .. Len(all[b]) :
            \E k \in 1 .. Len(out) : blk[k] = b /\ pos[k] = i
  <2>1. Spread(out, all, blk, pos)
    OBVIOUS
  <2> HIDE DEF all, n
  <2>2. ASSUME NEW k \in 1 .. Len(out)
        PROVE  /\ blk[k] \in 1 .. n + 1
               /\ pos[k] \in 1 .. Len(all[blk[k]])
               /\ out[k] = all[blk[k]][pos[k]]
    <3>1. blk[k] \in 1 .. Len(all) /\ pos[k] \in Nat \ {0} /\ pos[k] <= Len(all[blk[k]])
          /\ out[k] = all[blk[k]][pos[k]]
      BY <2>1 DEF Spread
    <3>2. blk[k] \in 1 .. n + 1
      BY <1>4, <3>1
    <3>3. all[blk[k]] \in Seq(Line)
      <4>1. CASE blk[k] = n + 1
        BY <1>2, <1>4, <4>1
      <4>2. CASE blk[k] \in 1 .. n
        <5>1. data[blk[k]] \in Seq(Line)
          BY <4>2, ElementOfSeq DEF n
        <5> QED
          BY <1>4, <4>2, <5>1
      <4> QED
        BY <1>1, <3>2, <4>1, <4>2
    <3>4. Len(all[blk[k]]) \in Nat
      BY <3>3
    <3> QED
      BY <3>1, <3>2, <3>4
  <2> QED
    BY <1>4, <2>1, <2>2 DEF Spread
<1> HIDE DEF all
<1>6. /\ \A k \in 1 .. Len(out) :
            /\ blk[k] <= n => sec[k] = order[blk[k]] /\ src[k] = F[blk[k]][pos[k]]
            /\ ~ (blk[k] <= n) => sec[k] = SectionAt(text, p[pos[k]]) /\ src[k] = p[pos[k]]
      /\ DOMAIN sec = 1 .. Len(out) /\ DOMAIN src = 1 .. Len(out)
      /\ sec = [k \in 1 .. Len(out) |-> sec[k]] /\ src = [k \in 1 .. Len(out) |-> src[k]]
  OBVIOUS
<1> HIDE DEF sec, src, n
<1>7. ASSUME NEW k \in 1 .. Len(out) PROVE Data(k) \/ Rest(k)
  <2>1. CASE blk[k] <= n
    <3>1. blk[k] \in 1 .. n
      BY <1>1, <1>5, <2>1
    <3> QED
      BY <1>4, <1>5, <1>6, <2>1, <3>1 DEF InData, n
  <2>2. CASE ~ (blk[k] <= n)
    <3>1. blk[k] = n + 1
      BY <1>1, <1>5, <2>2
    <3> QED
      BY <1>4, <1>5, <1>6, <2>2, <3>1 DEF InRest, n
  <2> QED
    BY <2>1, <2>2
<1>8. ASSUME NEW b \in 1 .. n, NEW i \in 1 .. Len(data[b])
      PROVE  \E k \in 1 .. Len(out) : blk[k] = b /\ pos[k] = i /\ Data(k)
  <2>1. b \in 1 .. n + 1 /\ i \in 1 .. Len(all[b])
    BY <1>1, <1>4
  <2>2. PICK k \in 1 .. Len(out) : blk[k] = b /\ pos[k] = i
    BY <1>5, <2>1
  <2>3. ~ Rest(k)
    BY <1>1, <2>2 DEF InRest, n
  <2> QED
    BY <1>7, <2>2, <2>3
<1>9. ASSUME NEW i \in 1 .. Len(rest)
      PROVE  \E k \in 1 .. Len(out) : blk[k] = n + 1 /\ pos[k] = i /\ Rest(k)
  <2>1. n + 1 \in 1 .. n + 1 /\ i \in 1 .. Len(all[n + 1])
    BY <1>1, <1>4
  <2>2. PICK k \in 1 .. Len(out) : blk[k] = n + 1 /\ pos[k] = i
    BY <1>5, <2>1
  <2>3. ~ Data(k)
    BY <1>1, <2>2 DEF InData, n
  <2> QED
    BY <1>7, <2>2, <2>3
<1>10. ASSUME NEW k \in 1 .. Len(out), Data(k)
       PROVE  /\ blk[k] \in 1 .. n /\ pos[k] \in 1 .. Len(data[blk[k]])
              /\ out[k] = data[blk[k]][pos[k]] /\ sec[k] = order[blk[k]]
              /\ src[k] = F[blk[k]][pos[k]] /\ sec[k] \in ToSet(order)
              /\ BlockIs(data[blk[k]], F[blk[k]], text, order[blk[k]], memory, default)
  BY <1>1, <1>10 DEF InData, ToSet, n
<1>11. ASSUME NEW k \in 1 .. Len(out), Rest(k)
       PROVE  /\ blk[k] = n + 1 /\ pos[k] \in 1 .. Len(p) /\ out[k] = rest[pos[k]]
              /\ sec[k] = SectionAt(text, p[pos[k]]) /\ src[k] = p[pos[k]]
              /\ src[k] \in 1 .. Len(text) /\ sec[k] \in unknown /\ sec[k] \notin ToSet(order)
              /\ out[k] = Rewritten(text, src[k], memory)
  BY <1>2, <1>3, <1>11 DEF InRest, n
<1> HIDE DEF Data, Rest
<1>12. LaidSections(out, sec)
  <2>1. ASSUME NEW k \in 1 .. Len(out) PROVE sec[k] \in STRING
    <3>1. CASE Data(k)
      BY <1>1, <1>10, <3>1
    <3>2. CASE Rest(k)
      BY <1>11, <3>2, SectionSteps
    <3> QED
      BY <1>7, <3>1, <3>2
  <2>2. ASSUME NEW k \in 1 .. Len(out) PROVE SectionAt(out, k) = sec[k]
    <3>1. CASE Data(k)
      <4> DEFINE b == blk[k]
                 block == data[b]
      <4>1. /\ b \in 1 .. n /\ pos[k] \in 1 .. Len(block) /\ out[k] = block[pos[k]]
            /\ sec[k] = order[b] /\ BlockIs(block, F[b], text, order[b], memory, default)
        BY <1>10, <3>1
      <4>2. \A i \in 1 .. Len(block) : IsHeader(block[i]) => i = 1 /\ block[i].section = order[b]
        BY <4>1 DEF BlockIs
      <4>3. \A j \in 1 .. k : j \in 1 .. Len(out) /\ blk[j] <= b
        <5>1. TAKE j \in 1 .. k
        <5>2. j \in 1 .. Len(out) /\ (j < k \/ j = k)
          BY <1>1
        <5>3. j < k => blk[j] < blk[k] \/ (blk[j] = blk[k] /\ pos[j] < pos[k])
          BY <1>5, <5>2
        <5>4. blk[j] \in 1 .. n + 1 /\ b \in 1 .. n + 1
          BY <1>5, <5>2
        <5> QED
          BY <1>1, <5>2, <5>3, <5>4
      <4>4. ASSUME NEW j \in 1 .. k, blk[j] = b
            PROVE  pos[j] \in 1 .. Len(block) /\ out[j] = block[pos[j]]
        <5>1. blk[j] # n + 1
          BY <1>1, <4>1, <4>4
        <5>2. Data(j)
          BY <1>7, <1>11, <4>3, <5>1
        <5> QED
          BY <1>10, <4>3, <4>4, <5>2
      <4>5. 1 \in 1 .. Len(block)
        <5>1. pos[k] \in Nat /\ 1 <= pos[k] /\ pos[k] <= Len(block)
          BY <4>1
        <5>2. Len(block) \in Nat
          BY <4>1 DEF BlockIs
        <5> QED
          BY <5>1, <5>2
      <4>6. CASE IsHeader(block[1])
        <5>1. PICK h \in 1 .. Len(out) : blk[h] = b /\ pos[h] = 1
          <6>1. b \in 1 .. n /\ 1 \in 1 .. Len(data[b])
            BY <4>1, <4>5
          <6> HIDE DEF b, block
          <6>2. \E h \in 1 .. Len(out) : blk[h] = b /\ pos[h] = 1 /\ Data(h)
            BY <1>8, <6>1
          <6> QED
            BY <6>2
        <5>2. h \in 1 .. k
          <6>1. ~ (k < h)
            <7>1. k < h => blk[k] < blk[h] \/ (blk[k] = blk[h] /\ pos[k] < pos[h])
              BY <1>5, <5>1
            <7>2. b \in Int /\ pos[k] \in Int /\ pos[k] >= 1
              BY <4>1
            <7> HIDE DEF block
            <7> QED
              BY <5>1, <7>1, <7>2
          <6> QED
            BY <1>1, <6>1
        <5>3. IsHeader(out[h]) /\ out[h].section = order[b]
          <6>1. out[h] = block[1]
            BY <4>4, <5>1, <5>2
          <6> QED
            BY <4>2, <4>5, <4>6, <6>1
        <5>4. ASSUME NEW j \in 1 .. k, h < j PROVE ~IsHeader(out[j])
          <6>1. j \in 1 .. Len(out) /\ blk[j] <= b
            BY <4>3
          <6>2. blk[h] < blk[j] \/ (blk[h] = blk[j] /\ pos[h] < pos[j])
            BY <1>5, <5>4, <6>1
          <6>3. blk[j] \in Int /\ b \in Int
            BY <1>5, <4>1, <6>1
          <6>4. blk[j] = b /\ 1 < pos[j]
            <7> HIDE DEF b, block
            <7> QED
              BY <5>1, <6>1, <6>2, <6>3
          <6>5. pos[j] \in 1 .. Len(block) /\ out[j] = block[pos[j]] /\ pos[j] # 1
            BY <4>4, <6>4
          <6> QED
            BY <4>2, <6>5
        <5>5. SectionAt(out, k) = out[h].section
          BY <1>1, <5>2, <5>3, <5>4, SectionIs
        <5> QED
          BY <4>1, <5>3, <5>5
      <4>7. CASE ~IsHeader(block[1])
        <5>1. order[b] = General /\ Len(text) # 0 /\ SectionAt(text, 1) = General
          BY <4>1, <4>7 DEF BlockIs
        <5>2. order[1] = General /\ 1 \in 1 .. n /\ IsInjective(order)
          BY <1>1, <4>1, <5>1 DEF OrderIs
        <5>3. b = 1
          BY <1>1, <4>1, <5>1, <5>2 DEF IsInjective
        <5>4. ASSUME NEW j \in 1 .. k PROVE ~IsHeader(out[j])
          <6>1. j \in 1 .. Len(out) /\ blk[j] <= b /\ blk[j] \in 1 .. n + 1
            BY <1>5, <4>3
          <6>2. blk[j] = b
            BY <1>1, <5>3, <6>1
          <6>3. pos[j] \in 1 .. Len(block) /\ out[j] = block[pos[j]]
            BY <4>4, <6>2
          <6> QED
            BY <4>2, <4>7, <6>3
        <5>5. SectionAt(out, k) = General
          BY <1>1, <5>4, SectionIsGeneral
        <5> QED
          BY <4>1, <5>1, <5>5
      <4> QED
        BY <4>6, <4>7
    <3>2. CASE Rest(k)
      <4>1. /\ blk[k] = n + 1 /\ pos[k] \in 1 .. Len(p) /\ out[k] = rest[pos[k]]
            /\ sec[k] = SectionAt(text, p[pos[k]])
        BY <1>11, <3>2
      <4>2. NoneKnown(unknown, memory)
        BY DEF OrderIs, NoneKnown
      <4> DEFINE i == pos[k]
      <4>3. i \in 1 .. Len(p)
        BY <4>1
      <4> HIDE DEF i
      <4>4. PICK h \in 1 .. i : /\ IsHeader(rest[h])
                                /\ rest[h].section = SectionAt(text, p[i])
                                /\ \A j \in 1 .. i : h < j => ~IsHeader(rest[j])
        <5>1. text \in Seq(Line) /\ KeptIs(p, rest, text, unknown, memory)
          OBVIOUS
        <5>2. \E h \in 1 .. i : HeaderOf(h, i, p, rest, text)
          BY <4>2, <4>3, <5>1, UnknownLines
        <5> QED
          BY <5>2 DEF HeaderOf
      <4>5. h \in 1 .. Len(rest) /\ i \in Nat /\ Len(rest) \in Nat
        BY <1>2, <4>3
      <4>6. PICK kh \in 1 .. Len(out) : blk[kh] = n + 1 /\ pos[kh] = h /\ Rest(kh)
        BY <1>9, <4>5
      <4>7. kh \in 1 .. k
        <5>1. k < kh => blk[k] < blk[kh] \/ (blk[k] = blk[kh] /\ pos[k] < pos[kh])
          BY <1>5
        <5>2. ~ (k < kh)
          BY <1>1, <4>1, <4>4, <4>5, <4>6, <5>1 DEF i
        <5> QED
          BY <1>1, <5>2
      <4>8. IsHeader(out[kh]) /\ out[kh].section = sec[k]
        BY <1>11, <4>1, <4>4, <4>6 DEF i
      <4>9. ASSUME NEW j \in 1 .. k, kh < j PROVE ~IsHeader(out[j])
        <5>1. j \in 1 .. Len(out) /\ (j < k \/ j = k)
          BY <1>1
        <5>2. /\ blk[kh] < blk[j] \/ (blk[kh] = blk[j] /\ pos[kh] < pos[j])
              /\ blk[j] \in 1 .. n + 1
          BY <1>5, <4>9, <5>1
        <5>3. blk[j] = n + 1 /\ h < pos[j]
          BY <1>1, <4>6, <5>2
        <5>4. ~Data(j)
          BY <1>1, <1>10, <5>1, <5>3
        <5>5. Rest(j)
          BY <1>7, <5>1, <5>4
        <5>6. pos[j] \in 1 .. Len(p) /\ out[j] = rest[pos[j]]
          BY <1>11, <5>1, <5>5
        <5>7. j < k => blk[j] < blk[k] \/ (blk[j] = blk[k] /\ pos[j] < pos[k])
          BY <1>5, <5>1
        <5>8. pos[j] \in 1 .. i
          <6>1. j = k => pos[j] = i
            BY DEF i
          <6>2. j < k => pos[j] < i
            BY <1>1, <4>1, <5>3, <5>7 DEF i
          <6> QED
            BY <4>5, <5>1, <5>6, <6>1, <6>2
        <5> QED
          BY <4>4, <5>3, <5>6, <5>8
      <4> QED
        BY <1>1, <4>7, <4>8, <4>9, SectionIs
    <3> QED
      BY <1>7, <3>1, <3>2
  <2>3. sec \in [1 .. Len(out) -> STRING]
    BY <2>1 DEF sec
  <2> QED
    BY <2>2, <2>3 DEF LaidSections
<1>13. LaidOld(out, text, memory, sec, src)
  <2>1. ASSUME NEW k \in 1 .. Len(out)
        PROVE  /\ src[k] \in 0 .. Len(text)
               /\ src[k] # 0 => /\ SectionAt(text, src[k]) = sec[k]
                                /\ out[k] = Rewritten(text, src[k], memory)
    <3>1. CASE Data(k)
      <4> DEFINE b == blk[k]
                 block == data[b]
                 from == F[b]
                 i == pos[k]
      <4>1. /\ i \in 1 .. Len(block) /\ out[k] = block[i] /\ sec[k] = order[b]
            /\ src[k] = from[i] /\ BlockIs(block, from, text, order[b], memory, default)
        BY <1>10, <3>1
      <4> HIDE DEF block, from, i, b
      <4>2. from[i] \in 0 .. Len(text)
        BY <4>1 DEF BlockIs
      <4>3. from[i] # 0 => /\ SectionAt(text, from[i]) = order[b]
                           /\ block[i] = Rewritten(text, from[i], memory)
        BY <4>1 DEF BlockIs
      <4> QED
        BY <4>1, <4>2, <4>3
    <3>2. CASE Rest(k)
      BY <1>1, <1>11, <3>2
    <3> QED
      BY <1>7, <3>1, <3>2
  <2>2. ASSUME NEW i \in 1 .. Len(text), ~IsHeader(text[i])
        PROVE  \E k \in 1 .. Len(out) : src[k] = i
    <3>1. CASE SectionAt(text, i) \in ToSet(order)
      <4>1. PICK b \in 1 .. n : order[b] = SectionAt(text, i)
        BY <1>1, <3>1 DEF ToSet
      <4>2. BlockIs(data[b], F[b], text, order[b], memory, default)
        BY <4>1 DEF n
      <4>3. PICK j \in 1 .. Len(data[b]) : F[b][j] = i
        BY <2>2, <4>1, <4>2 DEF BlockIs
      <4>4. PICK k \in 1 .. Len(out) : blk[k] = b /\ pos[k] = j /\ Data(k)
        BY <1>8
      <4> QED
        BY <1>10, <4>3, <4>4
    <3>2. CASE SectionAt(text, i) \notin ToSet(order)
      <4>1. SectionAt(text, i) \in unknown
        BY <3>2
      <4>2. PICK j \in 1 .. Len(p) : p[j] = i
        BY <2>2, <4>1 DEF KeptIs
      <4>3. PICK k \in 1 .. Len(out) : blk[k] = n + 1 /\ pos[k] = j /\ Rest(k)
        BY <1>2, <1>9
      <4> QED
        BY <1>11, <4>2, <4>3
    <3> QED
      BY <3>1, <3>2
  <2>3. src \in [1 .. Len(out) -> 0 .. Len(text)]
    BY <2>1 DEF src
  <2> QED
    BY <2>1, <2>2, <2>3 DEF LaidOld
<1>14. LaidNew(out, text, memory, default, sec, src)
  <2>1. ASSUME NEW k \in 1 .. Len(out), src[k] = 0
        PROVE  \/ IsHeader(out[k])
               \/ \E e \in Remaining(text, memory, default) :
                     /\ ~IsHeader(out[k]) /\ <<sec[k], out[k].name>> = e
                     /\ out[k].value = memory[e]
    <3>1. Data(k)
      BY <1>7, <1>11, <2>1
    <3> DEFINE b == blk[k]
               block == data[b]
               from == F[b]
               i == pos[k]
    <3>2. /\ i \in 1 .. Len(block) /\ out[k] = block[i] /\ sec[k] = order[b]
          /\ src[k] = from[i] /\ BlockIs(block, from, text, order[b], memory, default)
      BY <1>10, <3>1
    <3> HIDE DEF block, from, i, b
    <3>3. \/ IsHeader(block[i])
          \/ /\ ~IsHeader(block[i])
             /\ <<order[b], block[i].name>> \in Remaining(text, memory, default)
             /\ block[i].value = memory[<<order[b], block[i].name>>]
      BY <2>1, <3>2 DEF BlockIs
    <3> QED
      BY <3>2, <3>3
  <2>2. ASSUME NEW e \in Remaining(text, memory, default)
        PROVE  \E k \in 1 .. Len(out) : ~IsHeader(out[k]) /\ <<sec[k], out[k].name>> = e
    <3>1. e[1] \in ToSet(order)
      BY DEF OrderIs
    <3>2. PICK b \in 1 .. n : order[b] = e[1]
      BY <1>1, <3>1 DEF ToSet
    <3>3. BlockIs(data[b], F[b], text, order[b], memory, default)
      BY <3>2 DEF n
    <3>4. PICK j \in 1 .. Len(data[b]) :
            ~IsHeader(data[b][j]) /\ <<order[b], data[b][j].name>> = e
      BY <3>2, <3>3 DEF BlockIs
    <3>5. PICK k \in 1 .. Len(out) : blk[k] = b /\ pos[k] = j /\ Data(k)
      BY <1>8
    <3>6. out[k] = data[b][j] /\ sec[k] = order[b]
      BY <1>10, <3>5
    <3> QED
      BY <3>4, <3>6
  <2> QED
    BY <2>1, <2>2 DEF LaidNew
<1>15. LaidInOrder(out, sec, src)
  <2>1. SUFFICES ASSUME NEW j \in 1 .. Len(out), NEW k \in 1 .. Len(out),
                        j < k, sec[j] = sec[k], src[j] # 0, src[k] # 0
                 PROVE  src[j] < src[k]
    BY DEF LaidInOrder
  <2>2. blk[j] < blk[k] \/ (blk[j] = blk[k] /\ pos[j] < pos[k])
    BY <1>5, <2>1
  <2>3. CASE Data(j) /\ Data(k)
    <3>1. /\ blk[j] \in 1 .. n /\ blk[k] \in 1 .. n /\ order[blk[j]] = order[blk[k]]
          /\ IsInjective(order)
      BY <1>10, <2>1, <2>3 DEF OrderIs
    <3>2. blk[j] = blk[k]
      BY <1>1, <3>1 DEF IsInjective
    <3>3. pos[j] < pos[k]
      BY <1>1, <2>2, <3>1, <3>2
    <3> DEFINE b == blk[k]
               block == data[b]
               from == F[b]
    <3>4. /\ pos[j] \in 1 .. Len(block) /\ pos[k] \in 1 .. Len(block)
          /\ src[j] = from[pos[j]] /\ src[k] = from[pos[k]]
          /\ BlockIs(block, from, text, order[b], memory, default)
      BY <1>10, <2>3, <3>2
    <3> HIDE DEF block, from, b
    <3>5. from[pos[j]] # 0 /\ from[pos[k]] # 0 => from[pos[j]] < from[pos[k]]
      BY <3>3, <3>4 DEF BlockIs
    <3> QED
      BY <2>1, <3>4, <3>5
  <2>4. CASE Rest(j) /\ Rest(k)
    <3>1. /\ blk[j] = n + 1 /\ blk[k] = n + 1 /\ src[j] = p[pos[j]] /\ src[k] = p[pos[k]]
          /\ pos[j] \in 1 .. Len(p) /\ pos[k] \in 1 .. Len(p)
      BY <1>11, <2>4
    <3>2. pos[j] < pos[k]
      BY <1>1, <2>2, <3>1
    <3> QED
      BY <1>2, <3>1, <3>2
  <2>5. CASE Data(j) /\ Rest(k)
    BY <1>10, <1>11, <2>1, <2>5
  <2>6. CASE Rest(j) /\ Data(k)
    BY <1>10, <1>11, <2>1, <2>6
  <2> QED
    BY <1>7, <2>3, <2>4, <2>5, <2>6
<1> QED
  BY <1>12, <1>13, <1>14, <1>15 DEF Laid

\* Each line that ConfigBase::save writes is an old one or an added one.
LEMMA SavedLaid ==
    ASSUME NEW text \in Seq(Line), NEW E, NEW memory, NEW default,
           IsMemory(memory, E), IsFiniteSet(E)
    PROVE  \E sec, src : Laid(Saved(text, memory, default), text, memory, default, sec, src)
<1> DEFINE order == SectionOrder(text, memory, default)
           n == Len(order)
           data == [k \in DOMAIN order |-> SectionData(text, order[k], memory, default)]
           F == [k \in 1 .. n |-> CHOOSE from : BlockIs(data[k], from, text, order[k],
                                                        memory, default)]
           unknown == {SectionAt(text, i) : i \in DOMAIN text} \ ToSet(order)
           p == Kept(text, unknown, memory)
           rest == Lines(text, unknown, memory)
           out == Saved(text, memory, default)
<1>1. OrderIs(order, text, memory, default)
  BY OrderProperties
<1>2. out = FlattenSeq(data) \o rest
  BY DEF Saved
<1>3. KeptIs(p, rest, text, unknown, memory)
  <2> HIDE DEF unknown
  <2> QED
    BY KeptProperties
<1>4. unknown = {SectionAt(text, i) : i \in 1 .. Len(text)} \ ToSet(order)
  OBVIOUS
<1> HIDE DEF order, p, rest, unknown, out
<1>5. order \in Seq(STRING) /\ n \in Nat /\ DOMAIN order = 1 .. n
  BY <1>1 DEF OrderIs
<1>6. \A b \in 1 .. n : \E from : BlockIs(data[b], from, text, order[b], memory, default)
  <2>1. TAKE b \in 1 .. n
  <2>2. data[b] = SectionData(text, order[b], memory, default)
    BY <1>5
  <2>3. order[b] \in STRING /\ Known(order[b], memory)
    BY <1>1, <1>5 DEF OrderIs
  <2> HIDE DEF data
  <2> QED
    BY <2>2, <2>3, BlockProperties
<1>7. data = [k \in 1 .. n |-> SectionData(text, order[k], memory, default)]
  BY <1>5
<1> HIDE DEF data
<1>8. \A b \in 1 .. n : BlockIs(data[b], F[b], text, order[b], memory, default)
  <2>1. TAKE b \in 1 .. n
  <2>2. F[b] = CHOOSE from : BlockIs(data[b], from, text, order[b], memory, default)
    OBVIOUS
  <2>3. \E from : BlockIs(data[b], from, text, order[b], memory, default)
    BY <1>6
  <2> HIDE DEF F
  <2> QED
    BY <2>2, <2>3
<1> HIDE DEF F
<1>9. data \in Seq(Seq(Line)) /\ Len(data) = n
  <2>1. \A b \in 1 .. n : data[b] \in Seq(Line)
    BY <1>8 DEF BlockIs
  <2>2. data \in [1 .. n -> Seq(Line)]
    BY <1>7, <2>1
  <2> QED
    BY <1>5, <2>2
<1>10. FlattenSeq(data) \in Seq(Line) /\ rest \in Seq(Line)
  BY <1>3, <1>9, FlattenSpreads DEF KeptIs
<1>11. \E blk, pos : Spread(FlattenSeq(data), data, blk, pos)
  BY <1>9, FlattenSpreads
<1>12. PICK blk, pos : Spread(out, Append(data, rest), blk, pos)
  <2>1. PICK blk, pos : Spread(FlattenSeq(data), data, blk, pos)
    BY <1>11
  <2> DEFINE flat == FlattenSeq(data)
  <2>2. flat \in Seq(Line) /\ Spread(flat, data, blk, pos) /\ out = flat \o rest
    BY <1>2, <1>10, <2>1
  <2> HIDE DEF flat
  <2> QED
    BY <1>9, <1>10, <2>2, SpreadNext
<1>13. out \in Seq(Line)
  BY <1>2, <1>10
<1> HIDE DEF n
<1>14. \E sec, src : Laid(out, text, memory, default, sec, src)
  BY <1>1, <1>3, <1>4, <1>8, <1>9, <1>12, <1>13, LaidOut DEF n
<1> QED
  BY <1>14 DEF out

-----------------------------------------------------------------------------
\* The entries that matter here are in sections that were not renamed.

\* Neither of the two files has an entry whose section was renamed.
LEMMA EntriesKept ==
    /\ \A e \in MainEntries \union StateEntries :
          OldNames(e[1]) = {e[1]} /\ e = <<e[1], e[2]>>
    /\ IsFiniteSet(StateEntries)
    /\ IsMemory(StateDefault, StateEntries)
<1>1. ASSUME NEW e \in MainEntries PROVE OldNames(e[1]) = {e[1]} /\ e = <<e[1], e[2]>>
  <2>1. e[1] = "Users" /\ e = <<e[1], e[2]>>
    BY DEF MainEntries, RememberUser, RememberSession
  <2> QED
    BY <2>1 DEF OldNames
<1>2. ASSUME NEW e \in StateEntries PROVE OldNames(e[1]) = {e[1]} /\ e = <<e[1], e[2]>>
  <2>1. e[1] = "Last" /\ e = <<e[1], e[2]>>
    BY DEF StateEntries, LastUser, LastSession
  <2> QED
    BY <2>1 DEF OldNames
<1>3. IsFiniteSet(StateEntries)
  <2>1. IsFiniteSet({LastUser})
    BY FS_Singleton
  <2>2. StateEntries = {LastUser} \union {LastSession}
    BY DEF StateEntries
  <2> QED
    BY <2>1, <2>2, FS_AddElement
<1>4. IsMemory(StateDefault, StateEntries)
  BY TextAssumption DEF IsMemory, StateDefault
<1> QED
  BY <1>1, <1>2, <1>3, <1>4

\* What is written is loaded, would not be written again, and keeps what others
\* read.
SavesWell(out, text, memory, default) ==
    /\ out \in Seq(Line)
    /\ ~Changed(out, memory, default)
    /\ LoadInternal(out, default) = memory
    /\ \A e : e \notin DOMAIN memory => Alike(out, text, e)

\* ConfigBase::save writes such a file, for any memory of the entries E.
LEMMA SavedProperties ==
    ASSUME NEW text \in Seq(Line), NEW E, NEW memory, NEW default,
           IsMemory(memory, E), IsMemory(default, E), IsFiniteSet(E),
           NotRenamed(E)
    PROVE  SavesWell(Saved(text, memory, default), text, memory, default)
<1> DEFINE out == Saved(text, memory, default)
<1> HIDE DEF out
<1>1. PICK sec, src : Laid(out, text, memory, default, sec, src)
  BY SavedLaid DEF out
<1>2. out \in Seq(Line)
  BY <1>1 DEF Laid, LaidSections
<1>3. ~Changed(out, memory, default) /\ LoadInternal(out, default) = memory
  BY <1>1, LaidLoads
<1>4. ASSUME NEW e, e \notin E PROVE Alike(out, text, e)
  BY <1>1, <1>4, LaidKeeps
<1>5. DOMAIN memory = E
  BY DEF IsMemory
<1> QED
  BY <1>2, <1>3, <1>4, <1>5 DEF SavesWell, out

\* The same for state.conf.
LEMMA SavedState ==
    ASSUME NEW text \in Seq(Line), NEW memory, memory \in [StateEntries -> STRING]
    PROVE  SavesWell(Saved(text, memory, StateDefault), text, memory, StateDefault)
<1>1. IsMemory(memory, StateEntries) /\ IsMemory(StateDefault, StateEntries)
  BY EntriesKept, TextAssumption DEF IsMemory
<1>2. IsFiniteSet(StateEntries) /\ NotRenamed(StateEntries)
  BY EntriesKept DEF NotRenamed
<1> QED
  BY <1>1, <1>2, SavedProperties

\* A state.conf that needs no save says what the memory says.
LEMMA NotChanged ==
    ASSUME NEW text \in Seq(Line), NEW memory \in [StateEntries -> STRING],
           ~Changed(text, memory, StateDefault)
    PROVE  LoadInternal(text, StateDefault) = memory
<1>1. IsMemory(memory, StateEntries) /\ IsMemory(StateDefault, StateEntries)
  BY EntriesKept, TextAssumption DEF IsMemory
<1>2. NotRenamed(StateEntries)
  BY EntriesKept DEF NotRenamed
<1> QED
  BY <1>1, <1>2, Unchanged

\* What is loaded from state.conf are texts.
LEMMA LoadedState ==
    ASSUME NEW text \in Seq(Line)
    PROVE  LoadInternal(text, StateDefault) \in [StateEntries -> STRING]
<1>1. IsMemory(StateDefault, StateEntries)
  BY EntriesKept
<1>2. NotRenamed(StateEntries)
  BY EntriesKept DEF NotRenamed
<1>3. IsMemory(LoadInternal(text, StateDefault), StateEntries)
  BY <1>1, <1>2, LoadedTypes
<1> QED
  BY <1>3 DEF IsMemory

-----------------------------------------------------------------------------
\* Loading sddm.conf.

Booleans == {"true", "false"}

\* A file of sddm.conf changes the entries that it has, and no others.
LEMMA MainLoaded ==
    ASSUME NEW text \in Contents, NEW values \in [MainEntries -> Booleans]
    PROVE  /\ LoadInternal(text, values) \in [MainEntries -> Booleans]
           /\ \A e \in MainEntries :
                 /\ Reads(text, e) = {} => LoadInternal(text, values)[e] = values[e]
                 /\ Reads(text, e) # {} => Reads(text, e) = {LoadInternal(text, values)[e]}
<1>1. text \in Seq(Line) /\ \A e \in MainEntries : Reads(text, e) \subseteq Booleans
  BY TextAssumption DEF Booleans
<1>2. DOMAIN values = MainEntries
  OBVIOUS
<1>3. ASSUME NEW e \in MainEntries
      PROVE  /\ Reads(text, e) = {} => LoadInternal(text, values)[e] = values[e]
             /\ Reads(text, e) # {} => Reads(text, e) = {LoadInternal(text, values)[e]}
             /\ LoadInternal(text, values)[e] \in Booleans
  <2> DEFINE at == Assignments(text, e)
  <2>1. e \in DOMAIN values /\ e = <<e[1], e[2]>> /\ OldNames(e[1]) = {e[1]}
    BY <1>2, EntriesKept
  <2>2. LoadInternal(text, values)[e] = IF at = {} THEN values[e] ELSE text[Max(at)].value
    BY <1>1, <2>1, LoadsEntry
  <2>3. (at = {} => Reads(text, e) = {}) /\ (at # {} => Reads(text, e) = {text[Max(at)].value})
    BY <1>1, ReadsLast
  <2> QED
    BY <1>1, <2>2, <2>3
<1>4. LoadInternal(text, values) = [e \in MainEntries |-> LoadInternal(text, values)[e]]
  BY <1>2 DEF LoadInternal
<1> QED
  BY <1>3, <1>4

\* Whether there is a file of sddm.conf at place i, and it has an entry.
Has(i, e) == Places[i] \in DOMAIN conf /\ Reads(conf[Places[i]].lines, e) # {}

\* The most important files that have an entry say what the values are.
Current(values) ==
    \A e \in MainEntries, i \in 1 .. Len(Places) :
       Has(i, e) /\ (\A j \in 1 .. Len(Places) : Has(j, e) => j <= i) =>
          Reads(conf[Places[i]].lines, e) = {values[e]}

CurrentTo(n, values) ==
    \A e \in MainEntries, i \in 1 .. n :
       Has(i, e) /\ (\A j \in 1 .. n : Has(j, e) => j <= i) =>
          Reads(conf[Places[i]].lines, e) = {values[e]}

ConfTypes == \A p \in DOMAIN conf : conf[p].lines \in Contents

\* One more file.
NextFile(n, values) ==
    IF Places[n] \in DOMAIN conf THEN LoadInternal(conf[Places[n]].lines, values) ELSE values

\* Loading one more file over the values of those before it.
LEMMA CurrentNext ==
    ASSUME ConfTypes, NEW n \in Nat, NEW values \in [MainEntries -> Booleans],
           CurrentTo(n, values)
    PROVE  CurrentTo(n + 1, NextFile(n + 1, values))
<1>1. SUFFICES ASSUME NEW e \in MainEntries, NEW i \in 1 .. n + 1, Has(i, e),
                      \A j \in 1 .. n + 1 : Has(j, e) => j <= i
               PROVE  Reads(conf[Places[i]].lines, e) = {NextFile(n + 1, values)[e]}
  BY DEF CurrentTo
<1> DEFINE text == conf[Places[n + 1]].lines
<1>2. CASE i = n + 1
  <2>1. Places[n + 1] \in DOMAIN conf /\ text \in Contents /\ Reads(text, e) # {}
    BY <1>1, <1>2 DEF ConfTypes, Has
  <2>2. NextFile(n + 1, values) = LoadInternal(text, values)
    BY <2>1 DEF NextFile
  <2> HIDE DEF text
  <2>3. Reads(text, e) = {LoadInternal(text, values)[e]}
    BY <2>1, MainLoaded
  <2> QED
    BY <1>2, <2>2, <2>3 DEF text
<1>3. CASE i # n + 1
  <2>1. i \in 1 .. n /\ n + 1 \in 1 .. n + 1 /\ ~ (n + 1 <= i) /\ \A j \in 1 .. n : j \in 1 .. n + 1
    BY <1>3
  <2>2. ~Has(n + 1, e)
    BY <1>1, <2>1
  <2>3. Reads(conf[Places[i]].lines, e) = {values[e]}
    BY <1>1, <2>1 DEF CurrentTo
  <2>4. NextFile(n + 1, values)[e] = values[e]
    <3>1. CASE Places[n + 1] \in DOMAIN conf
      <4>1. NextFile(n + 1, values) = LoadInternal(text, values)
        BY <3>1 DEF NextFile
      <4>2. text \in Contents /\ Reads(text, e) = {}
        BY <2>2, <3>1 DEF ConfTypes, Has
      <4> HIDE DEF text
      <4> QED
        BY <4>1, <4>2, MainLoaded
    <3>2. CASE Places[n + 1] \notin DOMAIN conf
      BY <3>2 DEF NextFile
    <3> QED
      BY <3>1, <3>2
  <2> QED
    BY <2>3, <2>4
<1> QED
  BY <1>2, <1>3

\* The loop over all files: the most important ones are loaded last.
LEMMA LoadFilesCurrent ==
    ASSUME ConfTypes, NEW values \in [MainEntries -> Booleans]
    PROVE  LoadFiles(values) \in [MainEntries -> Booleans] /\ Current(LoadFiles(values))
<1> DEFINE S == [MainEntries -> Booleans]
           N == Len(Places)
           F == CHOOSE f : f = [k \in 0 .. N |->
                                  IF k = 0 THEN values
                                  ELSE IF Places[k] \in DOMAIN conf
                                  THEN LoadInternal(conf[Places[k]].lines, f[k - 1])
                                  ELSE f[k - 1]]
<1>1. N \in Nat
  BY RememberAssumption
<1>2. \A k \in Nat, x \in S : NextFile(k, x) \in S
  <2>1. SUFFICES ASSUME NEW k \in Nat, NEW x \in S PROVE NextFile(k, x) \in S
    OBVIOUS
  <2>2. CASE Places[k] \in DOMAIN conf
    <3>1. conf[Places[k]].lines \in Contents
      BY <2>2 DEF ConfTypes
    <3>2. LoadInternal(conf[Places[k]].lines, x) \in S
      BY <3>1, MainLoaded
    <3> QED
      BY <2>2, <3>2 DEF NextFile
  <2>3. CASE Places[k] \notin DOMAIN conf
    BY <2>3 DEF NextFile
  <2> QED
    BY <2>2, <2>3
<1> HIDE DEF S, N
<1>3. PICK f \in [0 .. N -> S] :
        f[0] = values /\ \A n \in 1 .. N : f[n] = NextFile(n, f[n - 1])
  <2> DEFINE step == [n \in 1 .. N |-> [x \in S |-> NextFile(n, x)]]
  <2>1. \A n \in 1 .. N, x \in S : step[n][x] = NextFile(n, x) /\ step[n][x] \in S
    BY <1>1, <1>2
  <2>2. IsStep(step, S, N) /\ values \in S
    BY <2>1 DEF IsStep, S
  <2> HIDE DEF step
  <2>3. PICK f : Recurs(f, S, N, values, step)
    BY <1>1, <2>2, Recursion
  <2>4. f \in [0 .. N -> S]
    BY <2>3 DEF Recurs
  <2>5. ASSUME NEW n \in 1 .. N PROVE f[n] = NextFile(n, f[n - 1])
    <3>1. n - 1 \in 0 .. N
      BY <1>1
    <3>2. f[n - 1] \in S
      BY <2>4, <3>1
    <3> QED
      BY <2>1, <2>3, <3>2 DEF Recurs
  <2> QED
    BY <2>3, <2>4, <2>5 DEF Recurs
<1>4. LoadFiles(values) = f[N]
  <2>1. f = [k \in 0 .. N |-> IF k = 0 THEN values
                              ELSE IF Places[k] \in DOMAIN conf
                              THEN LoadInternal(conf[Places[k]].lines, f[k - 1])
                              ELSE f[k - 1]]
    <3>1. \A k \in 0 .. N : f[k] = IF k = 0 THEN values ELSE NextFile(k, f[k - 1])
      BY <1>1, <1>3
    <3> QED
      BY <1>3, <3>1 DEF NextFile
  <2>2. F = [k \in 0 .. N |-> IF k = 0 THEN values
                              ELSE IF Places[k] \in DOMAIN conf
                              THEN LoadInternal(conf[Places[k]].lines, F[k - 1])
                              ELSE F[k - 1]]
    BY <2>1
  <2>3. LoadFiles(values) = F[N]
    BY DEF LoadFiles, N
  <2> HIDE DEF F
  <2>4. \A k \in 0 .. N : F[k] = IF k = 0 THEN values ELSE NextFile(k, F[k - 1])
    BY <2>2 DEF NextFile
  <2> DEFINE T == {n \in 0 .. N : F[n] = f[n]}
  <2>5. 0 \in T
    BY <1>1, <1>3, <2>4
  <2>6. ASSUME NEW n \in 0 .. N - 1, n \in T PROVE n + 1 \in T
    <3>1. n + 1 \in 1 .. N /\ n + 1 \in 0 .. N /\ n + 1 # 0 /\ (n + 1) - 1 = n
      BY <1>1
    <3>2. F[n + 1] = NextFile(n + 1, F[n])
      BY <2>4, <3>1
    <3>3. f[n + 1] = NextFile(n + 1, f[n])
      BY <1>3, <3>1
    <3> QED
      BY <2>6, <3>1, <3>2, <3>3
  <2>7. N \in T
    <3> HIDE DEF T
    <3>1. \A n \in 0 .. N - 1 : n \in T => n + 1 \in T
      BY <2>6
    <3>2. \A n \in 0 .. N : n \in T
      BY <1>1, <2>5, <3>1, UpTo
    <3> QED
      BY <1>1, <3>2
  <2> QED
    BY <2>3, <2>7
<1>5. CurrentTo(N, f[N])
  <2> DEFINE T == {n \in 0 .. N : CurrentTo(n, f[n])}
  <2>1. 0 \in T
    BY <1>1 DEF CurrentTo
  <2>2. ASSUME NEW n \in 0 .. N - 1, n \in T PROVE n + 1 \in T
    <3>1. n \in 0 .. N /\ n + 1 \in 1 .. N /\ n + 1 \in 0 .. N /\ (n + 1) - 1 = n /\ n \in Nat
      BY <1>1
    <3>2. f[n] \in S /\ f[n + 1] = NextFile(n + 1, f[n]) /\ CurrentTo(n, f[n])
      BY <1>3, <2>2, <3>1
    <3>3. CurrentTo(n + 1, f[n + 1])
      BY <3>1, <3>2, CurrentNext DEF S
    <3> QED
      BY <3>1, <3>3
  <2>3. N \in T
    <3> HIDE DEF T
    <3>1. \A n \in 0 .. N - 1 : n \in T => n + 1 \in T
      BY <2>2
    <3>2. \A n \in 0 .. N : n \in T
      BY <1>1, <2>1, <3>1, UpTo
    <3> QED
      BY <1>1, <3>2
  <2> QED
    BY <2>3
<1>6. f[N] \in S
  BY <1>1, <1>3
<1> QED
  BY <1>4, <1>5, <1>6 DEF Current, CurrentTo, N, S

\* It is what the property says.
LEMMA CurrentIs ==
    ASSUME NEW values, Current(values), NEW e \in MainEntries
    PROVE  LET has == {i \in DOMAIN Places :
                         /\ Places[i] \in DOMAIN conf
                         /\ Reads(conf[Places[i]].lines, e) # {}}
           IN  has # {} => Reads(conf[Places[Max(has)]].lines, e) = {values[e]}
<1> DEFINE has == {i \in DOMAIN Places : /\ Places[i] \in DOMAIN conf
                                         /\ Reads(conf[Places[i]].lines, e) # {}}
<1>1. DOMAIN Places = 1 .. Len(Places) /\ Len(Places) \in Nat
  BY RememberAssumption
<1>2. \A i \in 1 .. Len(Places) : Has(i, e) <=> i \in has
  BY <1>1 DEF Has
<1>3. has \subseteq 0 .. Len(Places) /\ has \subseteq 1 .. Len(Places)
  BY <1>1
<1> HIDE DEF has
<1>4. SUFFICES ASSUME has # {}
               PROVE  Reads(conf[Places[Max(has)]].lines, e) = {values[e]}
  BY DEF has
<1>5. Max(has) \in has /\ \A i \in has : i <= Max(has)
  BY <1>1, <1>3, <1>4, MaxIs
<1> DEFINE m == Max(has)
<1>6. m \in has /\ \A i \in has : i <= m
  BY <1>5
<1> HIDE DEF m
<1>7. m \in 1 .. Len(Places) /\ Has(m, e) /\ \A j \in 1 .. Len(Places) : Has(j, e) => j <= m
  BY <1>2, <1>3, <1>6
<1>8. Reads(conf[Places[m]].lines, e) = {values[e]}
  BY <1>7 DEF Current
<1> QED
  BY <1>8 DEF m

\* The latest of the modification times.
IsLatest(latest, c, d, n) ==
    /\ latest \in 0 .. n
    /\ \A p \in DOMAIN c : c[p].time <= latest
    /\ \A x \in Directories : d[x] <= latest

\* The Max of the three sets is that.
LEMMA LatestIs ==
    ASSUME NEW c, NEW d, NEW n \in Nat,
           \A p \in DOMAIN c : c[p].time \in 0 .. n,
           \A x \in Directories : d[x] \in 0 .. n
    PROVE  IsLatest(Max({0} \union {c[p].time : p \in DOMAIN c}
                            \union {d[x] : x \in Directories}), c, d, n)
<1> DEFINE A == {0} \union {c[p].time : p \in DOMAIN c} \union {d[x] : x \in Directories}
<1>1. /\ A \subseteq 0 .. n /\ A # {}
      /\ \A p \in DOMAIN c : c[p].time \in A
      /\ \A x \in Directories : d[x] \in A
  OBVIOUS
<1> HIDE DEF A
<1>2. Max(A) \in A /\ \A i \in A : i <= Max(A)
  BY <1>1, MaxIs
<1>3. Max(A) \in 0 .. n
  BY <1>1, <1>2
<1> QED
  BY <1>1, <1>2, <1>3 DEF A, IsLatest

-----------------------------------------------------------------------------
\* The sessions that a greeter offers.

\* The place of a session file among the directories.
LEMMA PlaceIs ==
    /\ DOMAIN Dirs = 1 .. Len(Dirs) /\ Len(Dirs) \in Nat
    /\ \A p \in DOMAIN Files : Place(p) \in 1 .. Len(Dirs) /\ Dirs[Place(p)] = Files[p].dir
<1>1. DOMAIN Dirs = 1 .. Len(Dirs) /\ Len(Dirs) \in Nat
  BY SessionAssumption
<1>2. ASSUME NEW p \in DOMAIN Files
      PROVE  Place(p) \in 1 .. Len(Dirs) /\ Dirs[Place(p)] = Files[p].dir
  <2> DEFINE A == {k \in DOMAIN Dirs : Dirs[k] = Files[p].dir}
  <2>1. A \subseteq Nat
    BY <1>1
  <2>2. A # {}
    BY SessionAssumption DEF ToSet
  <2>3. Place(p) = Min(A)
    BY DEF Place
  <2>4. Min(A) \in A
    <3> HIDE DEF A
    <3> QED
      BY <2>1, <2>2, MinIs
  <2> QED
    BY <1>1, <2>3, <2>4
<1> QED
  BY <1>1, <1>2

\* The files of a type that no file of a directory before theirs hides.
InFront(p, d) ==
    \A q \in d : Files[q].type = Files[p].type /\ Files[q].name = Files[p].name
                    => Place(p) <= Place(q)
OfType(type, d) == {p \in d : Files[p].type = type}
First(type, d) == {p \in OfType(type, d) : InFront(p, d)}

\* There is one of each name, and it is what SetTo finds.
LEMMA FirstOfName ==
    ASSUME NEW d, d \subseteq DOMAIN Files, NEW type, NEW q \in OfType(type, d)
    PROVE  \E p \in First(type, d) : Files[p].name = Files[q].name
<1> DEFINE Q == {p \in OfType(type, d) : Files[p].name = Files[q].name}
           K == {Place(p) : p \in Q}
<1>1. q \in Q /\ Q \subseteq d /\ Q \subseteq DOMAIN Files
  BY DEF OfType
<1>2. K \subseteq Nat /\ K # {}
  <2> HIDE DEF Q
  <2>1. \A p \in Q : Place(p) \in Nat
    BY <1>1, PlaceIs
  <2> QED
    BY <1>1, <2>1
<1>3. PICK k \in K : \A j \in K : k <= j
  <2> HIDE DEF K
  <2> QED
    BY <1>2, Least
<1>4. PICK p \in Q : Place(p) = k
  OBVIOUS
<1>5. InFront(p, d)
  BY <1>3, <1>4 DEF InFront, OfType
<1> QED
  BY <1>4, <1>5 DEF First

\* Session::setTo with its name finds the file that is in front.
LEMMA SetToFirst ==
    ASSUME NEW d, d \subseteq DOMAIN Files, NEW type, NEW p \in First(type, d)
    PROVE  SetTo(type, Files[p].name, d) = {p}
<1> DEFINE n == Files[p].name
           found == {x \in d : Files[x].type = type /\ Files[x].name = n}
<1>1. p \in d /\ p \in DOMAIN Files /\ Files[p].type = type /\ InFront(p, d)
  BY DEF First, OfType
<1>2. n \notin DOMAIN Files
  BY <1>1, SessionAssumption
<1>3. SetTo(type, n, d) = {x \in found : \A y \in found : Place(x) <= Place(y)}
  BY <1>2 DEF SetTo
<1>4. p \in found /\ \A y \in found : Place(p) <= Place(y)
  BY <1>1 DEF InFront
<1>5. ASSUME NEW x \in found, \A y \in found : Place(x) <= Place(y) PROVE x = p
  <2>1. x \in DOMAIN Files /\ Files[x].type = Files[p].type /\ Files[x].name = Files[p].name
    BY <1>1
  <2>2. Place(x) <= Place(p) /\ Place(p) <= Place(x)
    BY <1>4, <1>5
  <2>3. Place(x) \in Nat /\ Place(p) \in Nat /\ Dirs[Place(x)] = Files[x].dir
        /\ Dirs[Place(p)] = Files[p].dir
    BY <1>1, <2>1, PlaceIs
  <2>4. Place(x) = Place(p)
    BY <2>2, <2>3
  <2>5. Files[x].dir = Files[p].dir
    BY <2>3, <2>4
  <2> QED
    BY <1>1, <2>1, <2>5, SessionAssumption
<1> QED
  BY <1>3, <1>4, <1>5

\* The names that one of the directories has.
NamesIn(type, d, k) ==
    {Files[p].name : p \in {p \in d : /\ Files[p].type = type
                                      /\ Files[p].dir = Dirs[k]}}

Fresh(type, d, k) == NamesIn(type, d, k) \ UNION {NamesIn(type, d, j) : j \in 1 .. (k - 1)}

\* The list has each name once.
LEMMA EntryListIs ==
    ASSUME NEW d, d \subseteq DOMAIN Files, NEW type
    PROVE  /\ EntryList(type, d) \in Seq(ToSet(Names))
           /\ IsInjective(EntryList(type, d))
           /\ ToSet(EntryList(type, d)) = {Files[p].name : p \in OfType(type, d)}
<1> DEFINE S == ToSet(Names)
           seqs == [k \in DOMAIN Dirs |-> Sublist(Names, Fresh(type, d, k))]
           N == Len(Dirs)
           names == EntryList(type, d)
<1>1. DOMAIN Dirs = 1 .. N /\ N \in Nat
  BY PlaceIs
<1>2. Names \in Seq(S) /\ IsInjective(Names)
  BY SessionAssumption
<1>3. EntryList(type, d) = FlattenSeq(seqs)
  BY DEF EntryList, Fresh, NamesIn
<1> HIDE DEF S
<1>4. ASSUME NEW k \in 1 .. N
      PROVE  /\ Sublist(Names, Fresh(type, d, k)) \in Seq(S)
             /\ ToSet(Sublist(Names, Fresh(type, d, k))) = ToSet(Names) \cap Fresh(type, d, k)
             /\ IsInjective(Sublist(Names, Fresh(type, d, k)))
  BY <1>2, SublistSet
<1>5. /\ seqs \in Seq(Seq(S)) /\ Len(seqs) = N
      /\ \A k \in 1 .. N : /\ seqs[k] \in Seq(S) /\ IsInjective(seqs[k])
                           /\ ToSet(seqs[k]) = S \cap Fresh(type, d, k)
  BY <1>1, <1>4 DEF S
<1> HIDE DEF seqs, N, names
<1>6. names \in Seq(S) /\ \E blk, pos : Spread(names, seqs, blk, pos)
  BY <1>3, <1>5, FlattenSpreads DEF names
<1>7. PICK blk, pos : Spread(names, seqs, blk, pos)
  BY <1>6
<1>8. DOMAIN names = 1 .. Len(names) /\ Len(names) \in Nat
  BY <1>6
<1>9. ASSUME NEW i \in 1 .. Len(names)
      PROVE  /\ blk[i] \in 1 .. N
             /\ pos[i] \in DOMAIN seqs[blk[i]]
             /\ names[i] = seqs[blk[i]][pos[i]]
             /\ names[i] \in Fresh(type, d, blk[i])
  <2>1. /\ blk[i] \in 1 .. N /\ pos[i] \in Nat \ {0} /\ pos[i] <= Len(seqs[blk[i]])
        /\ names[i] = seqs[blk[i]][pos[i]]
    BY <1>5, <1>7 DEF Spread
  <2>2. seqs[blk[i]] \in Seq(S)
    BY <1>5, <2>1
  <2> DEFINE b == seqs[blk[i]]
  <2>3. b \in Seq(S) /\ pos[i] \in Nat \ {0} /\ pos[i] <= Len(b)
    BY <2>1, <2>2
  <2> HIDE DEF b
  <2>4. pos[i] \in DOMAIN b
    BY <2>3
  <2>5. b[pos[i]] \in ToSet(b)
    BY <2>4 DEF ToSet
  <2> QED
    BY <1>5, <2>1, <2>4, <2>5 DEF b
<1>10. ASSUME NEW i \in 1 .. Len(names)
       PROVE  \E p \in OfType(type, d) : names[i] = Files[p].name
  BY <1>9 DEF Fresh, NamesIn, OfType
<1>11. ASSUME NEW p \in OfType(type, d) PROVE Files[p].name \in ToSet(names)
  <2> DEFINE n == Files[p].name
             K == {k \in 1 .. N : n \in NamesIn(type, d, k)}
  <2>1. p \in d /\ p \in DOMAIN Files /\ Files[p].type = type
    BY DEF OfType
  <2>2. Place(p) \in 1 .. N /\ Dirs[Place(p)] = Files[p].dir
    BY <2>1, PlaceIs DEF N
  <2>3. n \in NamesIn(type, d, Place(p))
    BY <2>1, <2>2 DEF NamesIn
  <2>4. K \subseteq Nat /\ K # {}
    BY <1>1, <2>2, <2>3
  <2>5. PICK k \in K : \A j \in K : k <= j
    <3> HIDE DEF K
    <3> QED
      BY <2>4, Least
  <2>6. ASSUME NEW j \in 1 .. (k - 1) PROVE n \notin NamesIn(type, d, j)
    <3>1. j \in 1 .. N /\ ~ (k <= j)
      BY <1>1
    <3> QED
      BY <2>5, <3>1
  <2>7. n \in Fresh(type, d, k) /\ k \in 1 .. N
    BY <2>6 DEF Fresh
  <2>8. n \in S
    BY <2>1, SessionAssumption DEF S
  <2>9. n \in ToSet(seqs[k]) /\ seqs[k] \in Seq(S)
    BY <1>5, <2>7, <2>8
  <2> HIDE DEF n
  <2>10. PICK i \in 1 .. Len(seqs[k]) : seqs[k][i] = n
    <3> DEFINE b == seqs[k]
    <3>1. b \in Seq(S) /\ n \in ToSet(b)
      BY <2>9
    <3> HIDE DEF b
    <3>2. \E i \in 1 .. Len(b) : b[i] = n
      BY <3>1 DEF ToSet
    <3> QED
      BY <3>2 DEF b
  <2>11. PICK m \in 1 .. Len(names) : blk[m] = k /\ pos[m] = i
    BY <1>5, <1>7, <2>7 DEF Spread
  <2>12. names[m] = n
    BY <1>9, <2>10, <2>11
  <2> QED
    BY <1>8, <2>12 DEF ToSet, n
<1>12. ASSUME NEW i \in 1 .. Len(names), NEW j \in 1 .. Len(names), i < j
       PROVE  names[i] # names[j]
  <2>1. CASE blk[i] < blk[j]
    <3>1. blk[i] \in 1 .. (blk[j] - 1)
      BY <1>1, <1>9, <2>1
    <3>2. names[i] \in NamesIn(type, d, blk[i])
      BY <1>9 DEF Fresh
    <3>3. names[j] \notin NamesIn(type, d, blk[i])
      <4>1. names[j] \in Fresh(type, d, blk[j])
        BY <1>9
      <4> QED
        BY <3>1, <4>1 DEF Fresh
    <3> QED
      BY <3>2, <3>3
  <2>2. CASE blk[i] = blk[j] /\ pos[i] < pos[j]
    <3>1. /\ IsInjective(seqs[blk[i]])
          /\ pos[i] \in DOMAIN seqs[blk[i]] /\ pos[j] \in DOMAIN seqs[blk[i]]
          /\ names[i] = seqs[blk[i]][pos[i]] /\ names[j] = seqs[blk[i]][pos[j]]
      <4>1. blk[i] \in 1 .. N
        BY <1>9
      <4>2. IsInjective(seqs[blk[i]])
        BY <1>5, <4>1
      <4>3. /\ pos[i] \in DOMAIN seqs[blk[i]] /\ names[i] = seqs[blk[i]][pos[i]]
            /\ pos[j] \in DOMAIN seqs[blk[j]] /\ names[j] = seqs[blk[j]][pos[j]]
        BY <1>9
      <4> QED
        BY <2>2, <4>2, <4>3
    <3>2. pos[i] # pos[j]
      <4>1. pos[i] \in Nat /\ pos[j] \in Nat
        BY <1>7 DEF Spread
      <4> QED
        BY <2>2, <4>1
    <3> QED
      BY <3>1, <3>2 DEF IsInjective
  <2>3. blk[i] < blk[j] \/ (blk[i] = blk[j] /\ pos[i] < pos[j])
    BY <1>7, <1>12 DEF Spread
  <2> QED
    BY <2>1, <2>2, <2>3
<1>13. IsInjective(names)
  <2>1. SUFFICES ASSUME NEW i \in 1 .. Len(names), NEW j \in 1 .. Len(names),
                        names[i] = names[j]
                 PROVE  i = j
    BY <1>8 DEF IsInjective
  <2>2. ~ (i < j) /\ ~ (j < i)
    BY <1>12, <2>1
  <2> QED
    BY <1>8, <2>2
<1>14. ToSet(names) = {Files[p].name : p \in OfType(type, d)}
  BY <1>8, <1>10, <1>11 DEF ToSet
<1> QED
  BY <1>6, <1>13, <1>14 DEF names, S

\* The rows of a type: what is in front and to be shown, each once.
LEMMA PopulateIs ==
    ASSUME NEW d, d \subseteq DOMAIN Files, NEW type
    PROVE  /\ Populate(type, d) \in Seq(DOMAIN Files)
           /\ IsInjective(Populate(type, d))
           /\ ToSet(Populate(type, d)) = First(type, d) \cap Shown
<1> DEFINE names == EntryList(type, d)
           paths == [i \in DOMAIN names |-> CHOOSE p \in SetTo(type, names[i], d) : TRUE]
<1>1. /\ names \in Seq(ToSet(Names)) /\ IsInjective(names)
      /\ ToSet(names) = {Files[p].name : p \in OfType(type, d)}
  BY EntryListIs
<1>2. Populate(type, d) = Sublist(paths, Shown)
  BY DEF Populate
<1> HIDE DEF names
<1>3. ASSUME NEW i \in DOMAIN names
      PROVE  paths[i] \in First(type, d) /\ Files[paths[i]].name = names[i]
  <2>1. names[i] \in ToSet(names)
    BY DEF ToSet
  <2>2. PICK q \in OfType(type, d) : names[i] = Files[q].name
    BY <1>1, <2>1
  <2>3. PICK p \in First(type, d) : Files[p].name = names[i]
    BY <2>2, FirstOfName
  <2>4. SetTo(type, names[i], d) = {p}
    BY <2>3, SetToFirst
  <2>5. paths[i] = p
    BY <2>4
  <2> QED
    BY <2>3, <2>5
<1>4. DOMAIN paths = DOMAIN names /\ DOMAIN names = 1 .. Len(names) /\ Len(names) \in Nat
  BY <1>1
<1>5. First(type, d) \subseteq DOMAIN Files /\ First(type, d) \subseteq OfType(type, d)
  BY DEF First, OfType
<1>6. paths = [i \in 1 .. Len(names) |-> paths[i]]
  BY <1>4
<1> HIDE DEF paths
<1>7. paths \in Seq(DOMAIN Files)
  <2>1. paths \in [1 .. Len(names) -> DOMAIN Files]
    BY <1>3, <1>4, <1>5, <1>6
  <2> QED
    BY <1>4, <2>1
<1>8. IsInjective(paths)
  <2>1. SUFFICES ASSUME NEW i \in DOMAIN names, NEW j \in DOMAIN names, paths[i] = paths[j]
                 PROVE  i = j
    BY <1>4 DEF IsInjective
  <2>2. names[i] = names[j]
    BY <1>3, <2>1
  <2> QED
    BY <1>1, <2>2 DEF IsInjective
<1>9. ASSUME NEW p \in First(type, d) PROVE p \in ToSet(paths)
  <2>1. Files[p].name \in ToSet(names)
    BY <1>1, <1>5
  <2>2. PICK i \in DOMAIN names : names[i] = Files[p].name
    BY <2>1 DEF ToSet
  <2>3. paths[i] \in First(type, d) /\ Files[paths[i]].name = Files[p].name
    BY <1>3, <2>2
  <2>4. {p} = {paths[i]}
    <3>1. SetTo(type, Files[p].name, d) = {p}
      BY SetToFirst
    <3>2. SetTo(type, Files[paths[i]].name, d) = {paths[i]}
      BY <2>3, SetToFirst
    <3> QED
      BY <2>3, <3>1, <3>2
  <2>5. p = paths[i]
    BY <2>4
  <2> QED
    BY <1>4, <2>5 DEF ToSet
<1>10. ToSet(paths) = First(type, d)
  <2>1. ASSUME NEW p \in ToSet(paths) PROVE p \in First(type, d)
    BY <1>3, <1>4 DEF ToSet
  <2> QED
    BY <1>9, <2>1
<1>11. /\ Sublist(paths, Shown) \in Seq(DOMAIN Files)
       /\ ToSet(Sublist(paths, Shown)) = ToSet(paths) \cap Shown
       /\ IsInjective(Sublist(paths, Shown))
  BY <1>7, <1>8, SublistSet
<1> QED
  BY <1>2, <1>10, <1>11

\* One after the other.
LEMMA TwoLists ==
    ASSUME NEW S, NEW a \in Seq(S), NEW b \in Seq(S), IsInjective(a), IsInjective(b),
           ToSet(a) \cap ToSet(b) = {}
    PROVE  /\ a \o b \in Seq(S) /\ IsInjective(a \o b)
           /\ ToSet(a \o b) = ToSet(a) \union ToSet(b)
<1> DEFINE c == a \o b
<1>1. /\ Len(a) \in Nat /\ Len(b) \in Nat /\ DOMAIN a = 1 .. Len(a) /\ DOMAIN b = 1 .. Len(b)
      /\ c \in Seq(S) /\ DOMAIN c = 1 .. Len(c) /\ Len(c) = Len(a) + Len(b)
  OBVIOUS
<1>2. /\ \A k \in 1 .. Len(a) : c[k] = a[k]
      /\ \A k \in 1 .. Len(b) : c[Len(a) + k] = b[k]
  BY <1>1, ConcatProperties
<1> HIDE DEF c
<1>3. \A k \in 1 .. Len(c) : \/ k \in 1 .. Len(a)
                             \/ k - Len(a) \in 1 .. Len(b) /\ k = Len(a) + (k - Len(a))
  BY <1>1
<1>4. /\ \A k \in 1 .. Len(a) : k \in 1 .. Len(c)
      /\ \A k \in 1 .. Len(b) : Len(a) + k \in 1 .. Len(c)
  BY <1>1
<1>5. ToSet(c) = ToSet(a) \union ToSet(b)
  <2>1. ASSUME NEW k \in 1 .. Len(c) PROVE c[k] \in ToSet(a) \union ToSet(b)
    <3>1. CASE k \in 1 .. Len(a)
      BY <1>1, <1>2, <3>1 DEF ToSet
    <3>2. CASE k - Len(a) \in 1 .. Len(b) /\ k = Len(a) + (k - Len(a))
      <4>1. c[k] = b[k - Len(a)]
        BY <1>2, <3>2
      <4> QED
        BY <1>1, <3>2, <4>1 DEF ToSet
    <3> QED
      BY <1>3, <3>1, <3>2
  <2>2. ASSUME NEW k \in 1 .. Len(a) PROVE a[k] \in ToSet(c)
    BY <1>1, <1>2, <1>4 DEF ToSet
  <2>3. ASSUME NEW k \in 1 .. Len(b) PROVE b[k] \in ToSet(c)
    BY <1>1, <1>2, <1>4 DEF ToSet
  <2> QED
    BY <1>1, <2>1, <2>2, <2>3 DEF ToSet
<1>6. ASSUME NEW j \in 1 .. Len(c), NEW k \in 1 .. Len(c), c[j] = c[k], j < k PROVE FALSE
  <2>1. CASE k \in 1 .. Len(a)
    <3>1. j \in 1 .. Len(a) /\ j # k
      BY <1>1, <1>6, <2>1
    <3> QED
      BY <1>1, <1>2, <1>6, <2>1, <3>1 DEF IsInjective
  <2>2. CASE k - Len(a) \in 1 .. Len(b) /\ k = Len(a) + (k - Len(a))
    <3>1. c[k] = b[k - Len(a)] /\ c[k] \in ToSet(b)
      <4>1. c[k] = b[k - Len(a)]
        BY <1>2, <2>2
      <4> QED
        BY <1>1, <2>2, <4>1 DEF ToSet
    <3>2. CASE j \in 1 .. Len(a)
      <4>1. c[j] \in ToSet(a)
        BY <1>1, <1>2, <3>2 DEF ToSet
      <4> QED
        BY <1>6, <3>1, <4>1
    <3>3. CASE j - Len(a) \in 1 .. Len(b) /\ j = Len(a) + (j - Len(a))
      <4>1. c[j] = b[j - Len(a)]
        BY <1>2, <3>3
      <4>2. j - Len(a) # k - Len(a)
        BY <1>1, <1>6
      <4> QED
        BY <1>1, <1>6, <2>2, <3>1, <3>3, <4>1, <4>2 DEF IsInjective
    <3> QED
      BY <1>3, <3>2, <3>3
  <2> QED
    BY <1>3, <2>1, <2>2
<1>7. IsInjective(c)
  <2>1. SUFFICES ASSUME NEW j \in 1 .. Len(c), NEW k \in 1 .. Len(c), c[j] = c[k]
                 PROVE  j = k
    BY <1>1 DEF IsInjective
  <2>2. ~ (j < k) /\ ~ (k < j)
    BY <1>6, <2>1
  <2> QED
    BY <2>2
<1> QED
  BY <1>1, <1>5, <1>7 DEF c

\* A greeter has a row for just the sessions that can be offered, each once.
LEMMA SessionsAre ==
    ASSUME disk \subseteq DOMAIN Files
    PROVE  /\ Sessions(disk) \in Seq(DOMAIN Files)
           /\ IsInjective(Sessions(disk))
           /\ ToSet(Sessions(disk)) = {p \in DOMAIN Files : Offered(p)}
<1> DEFINE a == IF Dri THEN Populate("wayland", disk) ELSE <<>>
           b == Populate("x11", disk)
<1>1. b \in Seq(DOMAIN Files) /\ IsInjective(b) /\ ToSet(b) = First("x11", disk) \cap Shown
  BY PopulateIs
<1>2. /\ a \in Seq(DOMAIN Files) /\ IsInjective(a)
      /\ ToSet(a) = IF Dri THEN First("wayland", disk) \cap Shown ELSE {}
  <2>1. CASE Dri
    BY <2>1, PopulateIs
  <2>2. CASE ~Dri
    <3>1. a = <<>>
      BY <2>2
    <3>2. IsInjective(<<>>) /\ ToSet(<<>>) = {}
      BY DEF IsInjective, ToSet
    <3> QED
      BY <2>2, <3>1, <3>2
  <2> QED
    BY <2>1, <2>2
<1>3. Sessions(disk) = a \o b
  BY DEF Sessions
<1> HIDE DEF a, b
<1>4. ToSet(a) \cap ToSet(b) = {}
  BY <1>1, <1>2 DEF First, OfType
<1>5. /\ a \o b \in Seq(DOMAIN Files) /\ IsInjective(a \o b)
      /\ ToSet(a \o b) = ToSet(a) \union ToSet(b)
  BY <1>1, <1>2, <1>4, TwoLists
<1>6. ASSUME NEW p \in DOMAIN Files
      PROVE  Offered(p) <=> p \in ToSet(a) \/ p \in ToSet(b)
  <2>1. Files[p].type = "wayland" \/ Files[p].type = "x11"
    BY SessionAssumption DEF Types
  <2>2. Offered(p) <=> /\ p \in disk /\ p \in Shown
                       /\ Files[p].type = "wayland" => Dri
                       /\ InFront(p, disk)
    BY DEF Offered, InFront
  <2>3. \A t : p \in First(t, disk) <=> p \in disk /\ Files[p].type = t /\ InFront(p, disk)
    BY DEF First, OfType
  <2> QED
    BY <1>1, <1>2, <2>1, <2>2, <2>3
<1>7. ToSet(a) \subseteq DOMAIN Files /\ ToSet(b) \subseteq DOMAIN Files
  BY <1>1, <1>2 DEF ToSet
<1> QED
  BY <1>3, <1>5, <1>6, <1>7

\* The last one is found, if it is there.
LEMMA LastIndexIs ==
    ASSUME NEW S, NEW list \in Seq(S), NEW last, NEW index \in Nat
    PROVE  /\ LastIndex(list, last, index) \in Nat
           /\ last \in ToSet(list) => list[LastIndex(list, last, index) + 1] = last
<1> DEFINE at == {i \in DOMAIN list : list[i] = last}
<1>1. at \subseteq Nat /\ at \subseteq 1 .. Len(list) /\ Len(list) \in Nat
  OBVIOUS
<1>2. last \in ToSet(list) => at # {}
  BY DEF ToSet
<1>3. LastIndex(list, last, index) = IF at = {} THEN index ELSE Min(at) - 1
  BY DEF LastIndex
<1>4. ASSUME at # {}
      PROVE  Min(at) - 1 \in Nat /\ list[(Min(at) - 1) + 1] = last
  <2> DEFINE m == Min(at)
  <2>1. m \in at
    <3> HIDE DEF at
    <3> QED
      BY <1>1, <1>4, MinIs
  <2> HIDE DEF m
  <2>2. m \in 1 .. Len(list) /\ list[m] = last
    BY <1>1, <2>1
  <2>3. m - 1 \in Nat /\ (m - 1) + 1 = m
    BY <1>1, <2>2
  <2>4. list[(m - 1) + 1] = last
    BY <2>2, <2>3
  <2> QED
    BY <2>3, <2>4 DEF m
<1> QED
  BY <1>2, <1>3, <1>4

-----------------------------------------------------------------------------
\* The users that a greeter offers.

\* The selected row is the last user's, if there is one.
LEMMA LastUserIndexIs ==
    ASSUME NEW S, NEW list \in Seq(S), NEW last
    PROVE  /\ LastUserIndex(list, last) \in Nat
           /\ last \in ToSet(list) => list[LastUserIndex(list, last) + 1] = last
<1> DEFINE at == {i \in DOMAIN list : list[i] = last}
<1>1. at \subseteq 0 .. Len(list) /\ at \subseteq 1 .. Len(list) /\ Len(list) \in Nat
  OBVIOUS
<1>2. last \in ToSet(list) => at # {}
  BY DEF ToSet
<1>3. LastUserIndex(list, last) = IF at = {} THEN 0 ELSE Max(at) - 1
  BY DEF LastUserIndex
<1>4. ASSUME at # {}
      PROVE  Max(at) - 1 \in Nat /\ list[(Max(at) - 1) + 1] = last
  <2> DEFINE m == Max(at)
  <2>1. m \in at
    <3> HIDE DEF at
    <3> QED
      BY <1>1, <1>4, MaxIs
  <2> HIDE DEF m
  <2>2. m \in 1 .. Len(list) /\ list[m] = last
    BY <1>1, <2>1
  <2>3. m - 1 \in Nat /\ (m - 1) + 1 = m
    BY <1>1, <2>2
  <2>4. list[(m - 1) + 1] = last
    BY <2>2, <2>3
  <2> QED
    BY <2>3, <2>4 DEF m
<1> QED
  BY <1>2, <1>3, <1>4

\* The last user is in the list, if the account is one to be listed.
LEMMA UsersAre ==
    ASSUME NEW accounts, accounts \in Seq([name : ToSet(UserNames), uid : Nat, shell : STRING]),
           NEW last
    PROVE  /\ Users(accounts, last) \in Seq(STRING)
           /\ ToSet(Users(accounts, last)) \subseteq ToSet(UserNames)
           /\ \A i \in DOMAIN accounts :
                 Listed(accounts[i]) /\ accounts[i].name = last =>
                    last \in ToSet(Users(accounts, last))
<1> DEFINE added == IF ContainsAllUsers(accounts) THEN {} ELSE {last} \cap NamesOf(accounts)
           T == Taken(accounts) \union added
<1>1. Users(accounts, last) = Sublist(UserNames, T)
  BY DEF Users
<1>2. UserNames \in Seq(STRING)
  BY UserAssumption
<1> HIDE DEF T
<1>3. /\ Sublist(UserNames, T) \in Seq(STRING)
      /\ ToSet(Sublist(UserNames, T)) = ToSet(UserNames) \cap T
  BY <1>2, SublistSet
<1>4. ASSUME NEW i \in DOMAIN accounts, Listed(accounts[i]), accounts[i].name = last
      PROVE  last \in T /\ last \in ToSet(UserNames)
  <2> DEFINE R == [name : ToSet(UserNames), uid : Nat, shell : STRING]
             shown == {a \in ToSet(accounts) : Listed(a)}
  <2>1. accounts[i] \in R
    <3> HIDE DEF R
    <3>1. accounts \in Seq(R)
      BY DEF R
    <3> QED
      BY <3>1
  <2>2. last \in ToSet(UserNames)
    BY <1>4, <2>1
  <2>3. CASE ContainsAllUsers(accounts)
    <3>1. ListedIn(accounts) = Sublist(accounts, shown)
      BY DEF ListedIn
    <3>2. accounts[i] \in ToSet(accounts)
      BY DEF ToSet
    <3>3. accounts[i] \in shown
      BY <1>4, <3>2
    <3>4. ToSet(ListedIn(accounts)) = ToSet(accounts) \cap shown
      <4> HIDE DEF shown, R
      <4>1. accounts \in Seq(R)
        BY DEF R
      <4> QED
        BY <3>1, <4>1, SublistSet
    <3>5. accounts[i] \in ToSet(ListedIn(accounts))
      BY <3>2, <3>3, <3>4
    <3>6. Taken(accounts) = NamesOf(ListedIn(accounts))
      BY <2>3 DEF Taken
    <3>7. last \in NamesOf(ListedIn(accounts))
      BY <1>4, <3>5 DEF NamesOf, ToSet
    <3> QED
      BY <2>2, <3>6, <3>7 DEF T
  <2>4. CASE ~ContainsAllUsers(accounts)
    <3>1. last \in NamesOf(accounts)
      BY <1>4 DEF NamesOf
    <3> QED
      BY <2>2, <2>4, <3>1 DEF T
  <2> QED
    BY <2>3, <2>4
<1> QED
  BY <1>1, <1>3, <1>4

-----------------------------------------------------------------------------
\* Types, action by action.

\* The types at first.
LEMMA TypesInit == Init => TypeOK
<1>1. SUFFICES ASSUME Init PROVE TypeOK
  OBVIOUS
<1>2. 1 \in 1 .. MaxClock /\ 0 \in 0 .. MaxChanges /\ 0 \in 0 .. MaxLogins
  BY RememberAssumption
<1>3. MainDefault \in [MainEntries -> {"true", "false"}]
  BY DEF MainDefault
<1>4. StateDefault \in [StateEntries -> STRING]
  BY TextAssumption DEF StateDefault
<1>5. file \in Seq(Line) /\ <<>> \in Seq(Line)
  <2>1. file \in InitialFiles
    BY <1>1 DEF Init
  <2>2. file \in Seq(Line)
    BY <2>1, TextAssumption
  <2> QED
    BY <2>2
<1>6. ToSet(<<>>) = {}
  BY DEF ToSet
<1>7. DOMAIN conf \subseteq ToSet(Places) /\ DOMAIN conf = {}
  BY <1>1 DEF Init
<1>8. dirTime \in [Directories -> 1 .. clock] /\ 0 \in 0 .. clock
  BY <1>1 DEF Init
<1> QED
  BY <1>1, <1>2, <1>3, <1>4, <1>5, <1>6, <1>7, <1>8 DEF Init, TypeOK

\* The files of sddm.conf and their times, as the loads read them.
LEMMA LatestTyped ==
    ASSUME TypeOK
    PROVE  /\ IsLatest(LatestModificationTime, conf, dirTime, clock)
           /\ clock \in Nat /\ ConfTypes
<1>1. clock \in Nat
  BY DEF TypeOK
<1>2. \A p \in DOMAIN conf : conf[p].time \in 0 .. clock
  BY <1>1 DEF TypeOK
<1>3. \A x \in Directories : dirTime[x] \in 0 .. clock
  BY <1>1 DEF TypeOK
<1>4. ConfTypes
  BY DEF ConfTypes, TypeOK
<1>5. IsLatest(LatestModificationTime, conf, dirTime, clock)
  BY <1>1, <1>2, <1>3, LatestIs DEF LatestModificationTime
<1> QED
  BY <1>1, <1>4, <1>5

\* A configuration that can be loaded again.
IsConfig(config) == config.values \in [MainEntries -> Booleans] /\ config.time \in 0 .. clock

\* A load gives a configuration, and a current one if it loads anything.
LEMMA LoadTyped ==
    ASSUME TypeOK, NEW config, IsConfig(config)
    PROVE  /\ IsConfig(Load(config))
           /\ LatestModificationTime <= config.time => Load(config) = config
           /\ ~(LatestModificationTime <= config.time) => Current(Load(config).values)
<1>1. LatestModificationTime \in 0 .. clock /\ ConfTypes
  BY LatestTyped DEF IsLatest
<1> DEFINE loaded == [values |-> LoadFiles(config.values), time |-> LatestModificationTime]
<1>2. /\ LoadFiles(config.values) \in [MainEntries -> Booleans]
      /\ Current(LoadFiles(config.values))
  BY <1>1, LoadFilesCurrent DEF IsConfig
<1>3. IsConfig(loaded) /\ Current(loaded.values)
  BY <1>1, <1>2 DEF IsConfig
<1>4. Load(config) = IF LatestModificationTime <= config.time THEN config ELSE loaded
  BY DEF Load
<1> QED
  BY <1>3, <1>4

\* TypeOK, for Seat::createDisplay.
LEMMA TypesReloads == TypeOK /\ ReloadsConfig => TypeOK'
<1>1. SUFFICES ASSUME TypeOK, ReloadsConfig PROVE TypeOK'
  OBVIOUS
<1>2. IsConfig(main)
  BY <1>1 DEF TypeOK, IsConfig, Booleans
<1>3. IsConfig(Load(main))
  BY <1>1, <1>2, LoadTyped
<1>4. main' = Load(main) /\ edited' \in {"no", "newer", "unseen"}
  BY <1>1 DEF ReloadsConfig
<1>5. main'.values \in [MainEntries -> {"true", "false"}] /\ main'.time \in 0 .. clock
  BY <1>3, <1>4 DEF IsConfig, Booleans
<1>6. UNCHANGED <<confVars, daemon, state, logins, fileVars, disk, changes, greeterVars>>
  BY <1>1 DEF ReloadsConfig
<1> QED
  BY <1>1, <1>4, <1>5, <1>6 DEF TypeOK, confVars, fileVars, greeterVars

\* What DaemonStarts loads over.
LEMMA DefaultTyped ==
    ASSUME TypeOK
    PROVE  IsConfig([values |-> MainDefault, time |-> 0])
<1>1. clock \in Nat
  BY LatestTyped
<1>2. MainDefault \in [MainEntries -> Booleans]
  BY DEF MainDefault, Booleans
<1> QED
  BY <1>1, <1>2 DEF IsConfig

\* TypeOK, for the daemon's start.
LEMMA TypesStarts == TypeOK /\ DaemonStarts => TypeOK'
<1>1. SUFFICES ASSUME TypeOK, DaemonStarts PROVE TypeOK'
  OBVIOUS
<1> DEFINE fresh == [values |-> MainDefault, time |-> 0]
<1>2. IsConfig(Load(fresh))
  <2> HIDE DEF fresh
  <2>1. IsConfig(fresh)
    BY <1>1, DefaultTyped DEF fresh
  <2> QED
    BY <1>1, <2>1, LoadTyped
<1>3. main' = Load(fresh)
  BY <1>1 DEF DaemonStarts
<1>4. main'.values \in [MainEntries -> {"true", "false"}] /\ main'.time \in 0 .. clock
  BY <1>2, <1>3 DEF IsConfig, Booleans
<1>5. state' \in [StateEntries -> STRING]
  <2>1. file \in Seq(Line) /\ state' = LoadInternal(file, StateDefault)
    BY <1>1 DEF TypeOK, DaemonStarts
  <2> QED
    BY <2>1, LoadedState
<1>6. /\ daemon' = "up" /\ edited' = "no" /\ unsaved' = FALSE
      /\ UNCHANGED <<confVars, logins, file, saving, writing, disk, changes, greeterVars>>
  BY <1>1 DEF DaemonStarts
<1> QED
  BY <1>1, <1>4, <1>5, <1>6 DEF TypeOK, confVars, greeterVars

\* An edit of the administrator: its time is a time, or 0 for none.
LEMMA TypesEdit ==
    ASSUME TypeOK, NEW place \in ToSet(Places), NEW lines, NEW time \in 0 .. clock,
           time # 0 => lines \in Contents, NEW touched, Edit(place, lines, time, touched)
    PROVE  TypeOK'
<1>1. clock \in Nat \ {0}
  BY DEF TypeOK
<1>2. changes' \in 0 .. MaxChanges
  <2>1. changes \in 0 .. MaxChanges /\ changes < MaxChanges /\ changes' = changes + 1
    BY DEF TypeOK, Edit
  <2>2. MaxChanges \in Nat
    BY RememberAssumption
  <2> QED
    BY <2>1, <2>2
<1>3. /\ DOMAIN conf' = (DOMAIN conf \ {place}) \union (IF time = 0 THEN {} ELSE {place})
      /\ \A p \in DOMAIN conf' :
            conf'[p] = IF p = place THEN [lines |-> lines, time |-> time] ELSE conf[p]
  BY DEF Edit
<1>4. DOMAIN conf' \subseteq ToSet(Places)
  BY <1>3 DEF TypeOK
<1>5. ASSUME NEW p \in DOMAIN conf'
      PROVE  conf'[p].lines \in Contents /\ conf'[p].time \in 1 .. clock
  <2>1. CASE p = place
    <3>1. time # 0 /\ conf'[p] = [lines |-> lines, time |-> time]
      BY <1>3, <2>1
    <3>2. time \in 1 .. clock
      BY <1>1, <3>1
    <3> QED
      BY <3>1, <3>2
  <2>2. CASE p # place
    BY <1>3, <2>2 DEF TypeOK
  <2> QED
    BY <2>1, <2>2
<1>6. dirTime' \in [Directories -> 1 .. clock]
  <2>1. dirTime' = [x \in Directories |->
                      IF touched /\ x = DirOf[place] THEN clock ELSE dirTime[x]]
    BY DEF Edit
  <2>2. \A x \in Directories : dirTime[x] \in 1 .. clock
    BY DEF TypeOK
  <2>3. clock \in 1 .. clock
    BY <1>1
  <2> QED
    BY <2>1, <2>2, <2>3
<1>7. edited' \in {"no", "newer", "unseen"}
  BY DEF Edit
<1>8. UNCHANGED <<clock, daemon, main, state, logins, fileVars, disk, greeterVars>>
  BY DEF Edit
<1> QED
  BY <1>2, <1>4, <1>5, <1>6, <1>7, <1>8 DEF TypeOK, fileVars, greeterVars

\* Each thing the administrator does to sddm.conf is such an edit.
EditsConf == WritesConf \/ RestoresConf \/ RemovesConf

\* A file is written, put back or removed: its time is not after the clock's.
LEMMA EditIs ==
    ASSUME TypeOK, EditsConf
    PROVE  \E lines, touched : \E place \in ToSet(Places), time \in 0 .. clock :
              (time # 0 => lines \in Contents) /\ Edit(place, lines, time, touched)
<1>1. clock \in Nat \ {0}
  BY DEF TypeOK
<1>2. CASE WritesConf
  <2>1. PICK p \in ToSet(Places), lines \in Contents :
          Edit(p, lines, clock, p \notin DOMAIN conf)
    BY <1>2 DEF WritesConf
  <2>2. clock \in 0 .. clock
    BY <1>1
  <2> QED
    BY <2>1, <2>2
<1>3. CASE RestoresConf
  <2>1. PICK p \in ToSet(Places), lines \in Contents, t \in 1 .. (clock - 1) :
          Edit(p, lines, t, TRUE)
    BY <1>3 DEF RestoresConf
  <2>2. t \in 0 .. clock
    BY <1>1
  <2> QED
    BY <2>1, <2>2
<1>4. CASE RemovesConf
  <2>1. PICK p \in DOMAIN conf : Edit(p, <<>>, 0, TRUE)
    BY <1>4 DEF RemovesConf
  <2>2. p \in ToSet(Places) /\ 0 \in 0 .. clock
    BY <1>1 DEF TypeOK
  <2> QED
    BY <2>1, <2>2
<1> QED
  BY <1>2, <1>3, <1>4 DEF EditsConf

\* TypeOK, for the clock.
LEMMA TypesTicks == TypeOK /\ Ticks => TypeOK'
<1>1. SUFFICES ASSUME TypeOK, Ticks PROVE TypeOK'
  OBVIOUS
<1>2. /\ clock \in 1 .. MaxClock /\ clock < MaxClock /\ clock' = clock + 1
      /\ MaxClock \in Nat
  BY <1>1, RememberAssumption DEF TypeOK, Ticks
<1>3. /\ clock' \in 1 .. MaxClock
      /\ 1 .. clock \subseteq 1 .. clock' /\ 0 .. clock \subseteq 0 .. clock'
  BY <1>2
<1>4. UNCHANGED <<conf, dirTime, daemonVars, fileVars, disk, changes, greeterVars>>
  BY <1>1 DEF Ticks
<1>5. dirTime' \in [Directories -> 1 .. clock']
  BY <1>1, <1>3, <1>4 DEF TypeOK
<1> QED
  BY <1>1, <1>3, <1>4, <1>5 DEF TypeOK, daemonVars, fileVars, greeterVars

\* A login is by an account or the configured user, with a session that is there.
Logins == UserLogin \/ AutologinLogin

\* Who logs in, and with what, are texts.
LEMMA LoginIs ==
    ASSUME TypeOK, Logins
    PROVE  \E u \in STRING, s \in STRING : LoginSucceeds(u, s)
<1>1. disk \subseteq STRING
  BY TextAssumption DEF TypeOK
<1>2. CASE UserLogin
  <2>1. PICK u \in UNION {NamesOf(p) : p \in Passwds}, s \in disk \cap Shown :
          LoginSucceeds(u, s)
    BY <1>2 DEF UserLogin
  <2>2. PICK a \in Passwds : u \in NamesOf(a)
    OBVIOUS
  <2>3. PICK i \in DOMAIN a : u = a[i].name
    BY <2>2 DEF NamesOf
  <2> DEFINE R == [name : ToSet(UserNames), uid : Nat, shell : STRING]
  <2>4. a[i] \in R
    <3>1. a \in Seq(R)
      BY TextAssumption
    <3> HIDE DEF R
    <3> QED
      BY <3>1
  <2>5. u \in ToSet(UserNames)
    BY <2>3, <2>4
  <2>6. ToSet(UserNames) \subseteq STRING
    BY UserAssumption DEF ToSet
  <2> QED
    BY <1>1, <2>1, <2>5, <2>6
<1>3. CASE AutologinLogin
  <2> DEFINE ref == IF Autologin.session # "" THEN Autologin.session ELSE state[LastSession]
  <2>1. PICK s \in AutologinSession(ref, disk) : LoginSucceeds(Autologin.user, s)
    BY <1>3 DEF AutologinLogin
  <2>2. AutologinSession(ref, disk) \subseteq disk
    <3> HIDE DEF ref
    <3>1. \A t : SetTo(t, ref, disk) \subseteq disk
      BY DEF SetTo
    <3> QED
      BY <3>1 DEF AutologinSession
  <2> QED
    BY <1>1, <2>1, <2>2, TextAssumption
<1> QED
  BY <1>2, <1>3 DEF Logins

\* So is what is remembered.
LEMMA RememberedTyped ==
    ASSUME NEW u \in STRING, NEW s \in STRING
    PROVE  Remembered(u, s) \in [StateEntries -> STRING]
  BY TextAssumption DEF Remembered

\* TypeOK, for Display::slotAuthenticationFinished.
LEMMA TypesLogin ==
    ASSUME TypeOK, NEW u \in STRING, NEW s \in STRING, LoginSucceeds(u, s)
    PROVE  TypeOK'
<1>1. logins' \in 0 .. MaxLogins
  <2>1. logins \in 0 .. MaxLogins /\ logins < MaxLogins /\ logins' = logins + 1
    BY DEF TypeOK, LoginSucceeds
  <2>2. MaxLogins \in Nat
    BY RememberAssumption
  <2> QED
    BY <2>1, <2>2
<1>2. state' \in [StateEntries -> STRING]
  BY RememberedTyped DEF LoginSucceeds
<1>3. file \in Seq(Line) /\ <<>> \in Seq(Line) /\ writing \in Seq(Line)
      /\ saving \in BOOLEAN /\ unsaved \in BOOLEAN
  BY DEF TypeOK
<1>4. Saved(file, state', StateDefault) \in Seq(Line)
  <2>1. SavesWell(Saved(file, state', StateDefault), file, state', StateDefault)
    BY <1>2, <1>3, SavedState
  <2> QED
    BY <2>1 DEF SavesWell
<1>5. file' \in Seq(Line) /\ writing' \in Seq(Line) /\ saving' \in BOOLEAN /\ unsaved' \in BOOLEAN
  <2>1. Save
    BY DEF LoginSucceeds
  <2> QED
    BY <1>3, <1>4, <2>1 DEF Save
<1>6. UNCHANGED <<confVars, daemon, main, edited, disk, changes, greeterVars>>
  BY DEF LoginSucceeds
<1> QED
  BY <1>1, <1>2, <1>5, <1>6 DEF TypeOK, confVars, greeterVars

\* TypeOK, for the end of a save.
LEMMA TypesSaveEnds == TypeOK /\ SaveEnds => TypeOK'
<1>1. SUFFICES ASSUME TypeOK, SaveEnds PROVE TypeOK'
  OBVIOUS
<1>2. /\ file' \in Seq(Line) /\ writing' \in Seq(Line) /\ saving' \in BOOLEAN
      /\ unsaved' \in BOOLEAN
  <2>1. file \in Seq(Line) /\ writing \in Seq(Line) /\ unsaved \in BOOLEAN
    BY <1>1 DEF TypeOK
  <2>2. writing' \in Seq(Line) /\ saving' \in BOOLEAN
    <3>1. writing' = <<>> /\ saving' = FALSE
      BY <1>1 DEF SaveEnds
    <3>2. <<>> \in Seq(Line)
      OBVIOUS
    <3> QED
      BY <3>1, <3>2
  <2>3. (file' = writing /\ unsaved' = FALSE) \/ UNCHANGED <<file, unsaved>>
    BY <1>1 DEF SaveEnds
  <2> QED
    BY <2>1, <2>2, <2>3
<1>3. UNCHANGED <<confVars, daemonVars, disk, changes, greeterVars>>
  BY <1>1 DEF SaveEnds
<1> QED
  BY <1>1, <1>2, <1>3 DEF TypeOK, confVars, daemonVars, greeterVars

\* TypeOK, for the daemon's end.
LEMMA TypesDies == TypeOK /\ DaemonDies => TypeOK'
<1>1. SUFFICES ASSUME TypeOK, DaemonDies PROVE TypeOK'
  OBVIOUS
<1>2. daemon' = "down" /\ saving' = FALSE /\ writing' \in Seq(Line)
  BY <1>1 DEF DaemonDies
<1>3. UNCHANGED <<confVars, main, state, edited, logins, file, unsaved, disk, changes,
                  greeterVars>>
  BY <1>1 DEF DaemonDies
<1> QED
  BY <1>1, <1>2, <1>3 DEF TypeOK, confVars, greeterVars

\* TypeOK, for the session files.
LEMMA TypesDisk == TypeOK /\ DiskChanges => TypeOK'
<1>1. SUFFICES ASSUME TypeOK, DiskChanges PROVE TypeOK'
  OBVIOUS
<1>2. changes' \in 0 .. MaxChanges
  <2>1. changes \in 0 .. MaxChanges /\ changes < MaxChanges /\ changes' = changes + 1
    BY <1>1 DEF TypeOK, DiskChanges
  <2>2. MaxChanges \in Nat
    BY RememberAssumption
  <2> QED
    BY <2>1, <2>2
<1>3. disk' \subseteq DOMAIN Files
  BY <1>1 DEF TypeOK, DiskChanges
<1>4. stale' \in BOOLEAN
  BY <1>1 DEF DiskChanges
<1>5. UNCHANGED <<confVars, daemonVars, fileVars, greeter, seen, sessions, lastIndex,
                  passwd, users, lastUserIndex>>
  BY <1>1 DEF DiskChanges
<1> QED
  BY <1>1, <1>2, <1>3, <1>4, <1>5 DEF TypeOK, confVars, daemonVars, fileVars

\* The accounts that a greeter may see.
LEMMA UsersTyped ==
    ASSUME NEW accounts \in Passwds, NEW last
    PROVE  /\ Users(accounts, last) \in Seq(STRING)
           /\ ToSet(Users(accounts, last)) \subseteq ToSet(UserNames)
           /\ LastUserIndex(Users(accounts, last), last) \in Nat
           /\ \A i \in DOMAIN accounts :
                 Listed(accounts[i]) /\ accounts[i].name = last =>
                    Users(accounts, last)[LastUserIndex(Users(accounts, last), last) + 1] = last
<1>1. accounts \in Seq([name : ToSet(UserNames), uid : Nat, shell : STRING])
  BY TextAssumption
<1> DEFINE list == Users(accounts, last)
<1>2. /\ list \in Seq(STRING) /\ ToSet(list) \subseteq ToSet(UserNames)
      /\ \A i \in DOMAIN accounts :
            Listed(accounts[i]) /\ accounts[i].name = last => last \in ToSet(list)
  BY <1>1, UsersAre
<1> HIDE DEF list
<1>3. /\ LastUserIndex(list, last) \in Nat
      /\ last \in ToSet(list) => list[LastUserIndex(list, last) + 1] = last
  BY <1>2, LastUserIndexIs
<1> QED
  BY <1>2, <1>3 DEF list

\* TypeOK, for the greeter's start.
LEMMA TypesGreeterStarts == TypeOK /\ GreeterStarts => TypeOK'
<1>1. SUFFICES ASSUME TypeOK, GreeterStarts PROVE TypeOK'
  OBVIOUS
<1>2. seen' \in [StateEntries -> STRING]
  <2>1. file \in Seq(Line) /\ seen' = LoadInternal(file, StateDefault)
    BY <1>1 DEF TypeOK, GreeterStarts
  <2> QED
    BY <2>1, LoadedState
<1>3. sessions' \in Seq(DOMAIN Files)
  <2>1. disk \subseteq DOMAIN Files /\ sessions' = Sessions(disk)
    BY <1>1 DEF TypeOK, GreeterStarts
  <2> QED
    BY <2>1, SessionsAre
<1>4. ToSet(sessions') \subseteq DOMAIN Files /\ lastIndex' \in Nat
  <2>1. lastIndex' = LastIndex(sessions', seen'[LastSession], 0)
    BY <1>1 DEF GreeterStarts
  <2>2. ToSet(sessions') \subseteq DOMAIN Files
    BY <1>3 DEF ToSet
  <2> QED
    BY <1>3, <2>1, <2>2, LastIndexIs
<1>5. /\ passwd' \in Passwds
      /\ ToSet(users') \subseteq ToSet(UserNames) /\ lastUserIndex' \in Nat
  <2>1. /\ passwd' \in Passwds /\ users' = Users(passwd', seen'[LastUser])
        /\ lastUserIndex' = LastUserIndex(users', seen'[LastUser])
    BY <1>1 DEF GreeterStarts
  <2> QED
    BY <2>1, UsersTyped
<1>6. /\ greeter' = "on" /\ stale' = FALSE
      /\ UNCHANGED <<confVars, daemonVars, fileVars, disk, changes>>
  BY <1>1 DEF GreeterStarts
<1> QED
  BY <1>1, <1>2, <1>4, <1>5, <1>6 DEF TypeOK, confVars, daemonVars, fileVars

\* TypeOK, for directoryChanged.
LEMMA TypesRefreshes == TypeOK /\ Refreshes => TypeOK'
<1>1. SUFFICES ASSUME TypeOK, Refreshes PROVE TypeOK'
  OBVIOUS
<1>2. sessions' \in Seq(DOMAIN Files)
  <2>1. disk \subseteq DOMAIN Files /\ sessions' = Sessions(disk)
    BY <1>1 DEF TypeOK, Refreshes
  <2> QED
    BY <2>1, SessionsAre
<1>3. ToSet(sessions') \subseteq DOMAIN Files /\ lastIndex' \in Nat
  <2>1. lastIndex' = LastIndex(sessions', seen[LastSession], lastIndex) /\ lastIndex \in Nat
    BY <1>1 DEF TypeOK, Refreshes
  <2>2. ToSet(sessions') \subseteq DOMAIN Files
    BY <1>2 DEF ToSet
  <2> QED
    BY <1>2, <2>1, <2>2, LastIndexIs
<1>4. /\ stale' = FALSE
      /\ UNCHANGED <<confVars, daemonVars, fileVars, disk, changes, greeter, seen, passwd,
                     users, lastUserIndex>>
  BY <1>1 DEF Refreshes
<1> QED
  BY <1>1, <1>3, <1>4 DEF TypeOK, confVars, daemonVars, fileVars

\* TypeOK, for the greeter's end.
LEMMA TypesGreeterEnds == TypeOK /\ GreeterEnds => TypeOK'
<1>1. SUFFICES ASSUME TypeOK, GreeterEnds PROVE TypeOK'
  OBVIOUS
<1>2. StateDefault \in [StateEntries -> STRING]
  BY TextAssumption DEF StateDefault
<1>3. ToSet(<<>>) = {}
  BY DEF ToSet
<1>4. /\ greeter' = "off" /\ seen' = StateDefault
      /\ sessions' = <<>> /\ lastIndex' = 0 /\ stale' = FALSE
      /\ passwd' = <<>> /\ users' = <<>> /\ lastUserIndex' = 0
      /\ UNCHANGED <<confVars, daemonVars, fileVars, disk, changes>>
  BY <1>1 DEF GreeterEnds
<1> QED
  BY <1>1, <1>2, <1>3, <1>4 DEF TypeOK, confVars, daemonVars, fileVars

\* The steps, as the proofs go through them.
Steps ==
    \/ DaemonStarts \/ ReloadsConfig \/ Logins \/ SaveEnds \/ DaemonDies
    \/ EditsConf \/ Ticks \/ DiskChanges
    \/ GreeterStarts \/ Refreshes \/ GreeterEnds

\* They are the steps.
LEMMA StepsAre == Next <=> Steps
  BY DEF Next, Daemon, Administrator, Greeter, Steps, Logins, EditsConf

\* Every step keeps the types.
LEMMA TypesNext == TypeOK /\ [Next]_vars => TypeOK'
<1>1. ASSUME TypeOK, Steps PROVE TypeOK'
  <2>1. CASE Logins
    BY <1>1, <2>1, LoginIs, TypesLogin
  <2>2. CASE EditsConf
    BY <1>1, <2>2, EditIs, TypesEdit
  <2> QED
    BY <1>1, <2>1, <2>2, TypesStarts, TypesReloads, TypesSaveEnds, TypesDies, TypesTicks,
       TypesDisk, TypesGreeterStarts, TypesRefreshes, TypesGreeterEnds DEF Steps
<1>2. TypeOK /\ UNCHANGED vars => TypeOK'
  BY DEF TypeOK, vars, confVars, daemonVars, fileVars, greeterVars
<1> QED
  BY <1>1, <1>2, StepsAre

\* Every variable keeps its type, whatever is written to the files.
THEOREM RememberTypes == Spec => []TypeOK
<1>1. Init => TypeOK
  BY TypesInit
<1>2. TypeOK /\ [Next]_vars => TypeOK'
  BY TypesNext
<1> QED
  BY <1>1, <1>2, PTL DEF Spec

-----------------------------------------------------------------------------
\* What a save is about to leave in state.conf, and what it has.
InMemory ==
    /\ daemon = "up" /\ ~unsaved => LoadInternal(file, StateDefault) = state
    /\ saving => /\ daemon = "up" /\ unsaved
                 /\ LoadInternal(writing, StateDefault) = state
                 /\ ~Changed(writing, state, StateDefault)

\* InMemory, for a login: its save needs none, begins or fails.
LEMMA InMemoryLogin ==
    ASSUME TypeOK, InMemory, NEW u \in STRING, NEW s \in STRING, LoginSucceeds(u, s)
    PROVE  InMemory'
<1>1. daemon' = "up" /\ ~saving /\ Save
  BY DEF LoginSucceeds
<1>2. state' \in [StateEntries -> STRING] /\ file \in Seq(Line)
  BY RememberedTyped DEF LoginSucceeds, TypeOK
<1>3. CASE ~Changed(file, state', StateDefault) /\ UNCHANGED <<file, saving, writing>>
  <2>1. LoadInternal(file, StateDefault) = state'
    BY <1>2, <1>3, NotChanged
  <2>2. LoadInternal(file', StateDefault) = state' /\ ~saving'
    BY <1>1, <1>3, <2>1
  <2> QED
    BY <2>2 DEF InMemory
<1>4. CASE saving' /\ writing' = Saved(file, state', StateDefault) /\ unsaved'
  <2>1. SavesWell(Saved(file, state', StateDefault), file, state', StateDefault)
    BY <1>2, SavedState
  <2>2. LoadInternal(writing', StateDefault) = state' /\ ~Changed(writing', state', StateDefault)
    BY <1>4, <2>1 DEF SavesWell
  <2> QED
    BY <1>1, <1>4, <2>2 DEF InMemory
<1>5. CASE unsaved' /\ UNCHANGED <<file, saving, writing>>
  BY <1>1, <1>5 DEF InMemory
<1> QED
  BY <1>1, <1>3, <1>4, <1>5 DEF Save

\* Every step keeps InMemory; all but four have nothing to do with it.
LEMMA InMemoryNext == TypeOK /\ InMemory /\ [Next]_vars => InMemory'
<1>1. SUFFICES ASSUME TypeOK, InMemory, [Next]_vars PROVE InMemory'
  OBVIOUS
<1>2. CASE Logins
  BY <1>1, <1>2, LoginIs, InMemoryLogin
<1>3. CASE DaemonStarts
  BY <1>1, <1>3 DEF DaemonStarts, InMemory
<1>4. CASE SaveEnds
  <2>1. /\ daemon = "up" /\ unsaved /\ LoadInternal(writing, StateDefault) = state
        /\ saving' = FALSE /\ daemon' = daemon /\ state' = state
    BY <1>1, <1>4 DEF SaveEnds, InMemory, daemonVars
  <2>2. CASE file' = writing
    <3>1. LoadInternal(file', StateDefault) = state'
      BY <2>1, <2>2
    <3> QED
      BY <2>1, <3>1 DEF InMemory
  <2>3. CASE UNCHANGED <<file, unsaved>>
    BY <2>1, <2>3 DEF InMemory
  <2>4. file' = writing \/ UNCHANGED <<file, unsaved>>
    BY <1>4 DEF SaveEnds
  <2> QED
    BY <2>2, <2>3, <2>4
<1>5. CASE DaemonDies
  BY <1>5 DEF DaemonDies, InMemory
<1>6. CASE UNCHANGED <<daemon, state, fileVars>>
  BY <1>1, <1>6 DEF InMemory, fileVars
<1>7. \/ Logins \/ DaemonStarts \/ SaveEnds \/ DaemonDies
      \/ UNCHANGED <<daemon, state, fileVars>>
  <2>1. CASE UNCHANGED vars
    BY <2>1 DEF vars, daemonVars
  <2>2. CASE EditsConf
    <3>1. PICK place, lines, time, touched : Edit(place, lines, time, touched)
      BY <2>2 DEF EditsConf, WritesConf, RestoresConf, RemovesConf
    <3> QED
      BY <3>1 DEF Edit
  <2>3. CASE ReloadsConfig \/ Ticks \/ DiskChanges \/ GreeterStarts \/ Refreshes \/ GreeterEnds
    BY <2>3 DEF ReloadsConfig, Ticks, DiskChanges, GreeterStarts, Refreshes, GreeterEnds,
                daemonVars
  <2> QED
    BY <1>1, <2>1, <2>2, <2>3, StepsAre DEF Steps
<1> QED
  BY <1>2, <1>3, <1>4, <1>5, <1>6, <1>7

\* InMemory at first.
LEMMA InMemoryInit == Init => InMemory
  BY DEF Init, InMemory

\* A load of state.conf gives what the daemon remembers, unless a save has
\* begun, failed or was cut: for any files, accounts and sessions.
THEOREM SavedIsAlwaysLoaded == Spec => []SavedIsLoaded
<1>1. Init => TypeOK /\ InMemory
  BY TypesInit, InMemoryInit
<1>2. TypeOK /\ InMemory /\ [Next]_vars => TypeOK' /\ InMemory'
  BY TypesNext, InMemoryNext
<1>3. InMemory => SavedIsLoaded
  BY DEF InMemory, SavedIsLoaded
<1> QED
  BY <1>1, <1>2, <1>3, PTL DEF Spec

-----------------------------------------------------------------------------
\* What a save writes has the entries of others.

ForeignOf(f) ==
    {<<SectionAt(f, i), f[i].name>> : i \in {i \in DOMAIN f : ~IsHeader(f[i])}}
        \ StateEntries

\* They are the entries that the file assigns and the daemon does not know.
LEMMA ForeignIs ==
    ASSUME NEW f \in Seq(Line), NEW e
    PROVE  e \in ForeignOf(f) <=> e \notin StateEntries /\ Assignments(f, e) # {}
<1>1. e \in ForeignOf(f) <=> /\ e \notin StateEntries
                             /\ \E i \in DOMAIN f : /\ ~IsHeader(f[i])
                                                    /\ e = <<SectionAt(f, i), f[i].name>>
  BY DEF ForeignOf
<1>2. Assignments(f, e) # {} <=> \E i \in DOMAIN f : /\ ~IsHeader(f[i])
                                                     /\ e = <<SectionAt(f, i), f[i].name>>
  BY DEF Assignments
<1> QED
  BY <1>1, <1>2

KeepsForeign(new, old) ==
    /\ ForeignOf(new) = ForeignOf(old)
    /\ \A e \in ForeignOf(old) : Reads(new, e) = Reads(old, e)

\* A save keeps them, and what others read there.
LEMMA SavesKeep ==
    ASSUME NEW text \in Seq(Line), NEW memory, memory \in [StateEntries -> STRING]
    PROVE  KeepsForeign(Saved(text, memory, StateDefault), text)
<1> DEFINE out == Saved(text, memory, StateDefault)
<1> HIDE DEF out
<1>1. SavesWell(out, text, memory, StateDefault)
  BY SavedState DEF out
<1>2. out \in Seq(Line) /\ \A e : e \notin StateEntries => Alike(out, text, e)
  BY <1>1 DEF SavesWell
<1>3. ASSUME NEW e PROVE e \in ForeignOf(out) <=> e \in ForeignOf(text)
  <2>1. /\ e \in ForeignOf(out) <=> e \notin StateEntries /\ Assignments(out, e) # {}
        /\ e \in ForeignOf(text) <=> e \notin StateEntries /\ Assignments(text, e) # {}
    BY <1>2, ForeignIs
  <2>2. e \notin StateEntries => (Assignments(out, e) = {} <=> Assignments(text, e) = {})
    BY <1>2 DEF Alike
  <2> QED
    BY <2>1, <2>2
<1>4. ASSUME NEW e \in ForeignOf(text) PROVE Reads(out, e) = Reads(text, e)
  <2>1. e \notin StateEntries
    BY DEF ForeignOf
  <2> QED
    BY <1>2, <2>1 DEF Alike
<1> QED
  BY <1>3, <1>4 DEF KeepsForeign, out

\* The save of a login changes no entry of the file that is not the daemon's.
THEOREM NothingIsLost == Spec => NothingLost
<1>1. ASSUME TypeOK, Steps, saving', ~saving PROVE KeepsForeign(writing', file)
  <2>1. Logins
    <3>1. CASE EditsConf
      <4>1. PICK place, lines, time, touched : Edit(place, lines, time, touched)
        BY <3>1 DEF EditsConf, WritesConf, RestoresConf, RemovesConf
      <4> QED
        BY <1>1, <4>1 DEF Edit, fileVars
    <3> QED
      BY <1>1, <3>1 DEF Steps, DaemonStarts, ReloadsConfig, SaveEnds, DaemonDies, Ticks,
                        DiskChanges, GreeterStarts, Refreshes, GreeterEnds, fileVars
  <2>2. PICK u \in STRING, s \in STRING : LoginSucceeds(u, s)
    BY <1>1, <2>1, LoginIs
  <2>3. state' \in [StateEntries -> STRING] /\ file \in Seq(Line)
    BY <1>1, <2>2, RememberedTyped DEF LoginSucceeds, TypeOK
  <2>4. writing' = Saved(file, state', StateDefault)
    BY <1>1, <2>2 DEF LoginSucceeds, Save
  <2> QED
    BY <2>3, <2>4, SavesKeep
<1>2. TypeOK /\ [Next]_vars =>
        [saving' /\ ~saving =>
            LET Foreign(f) == {<<SectionAt(f, i), f[i].name>> :
                                  i \in {i \in DOMAIN f : ~IsHeader(f[i])}}
                              \ StateEntries
            IN  /\ Foreign(writing') = Foreign(file)
                /\ \A e \in Foreign(file) :
                      Reads(writing', e) = Reads(file, e)]_vars
  BY <1>1, StepsAre DEF KeepsForeign, ForeignOf
<1> QED
  BY <1>2, RememberTypes, PTL DEF Spec, NothingLost

\* A file that was saved would not be saved again.
THEOREM SavesAreStable == Spec => SaveIsStable
<1>1. Init => TypeOK /\ InMemory
  BY TypesInit, InMemoryInit
<1>2. TypeOK /\ InMemory /\ [Next]_vars => TypeOK' /\ InMemory'
  BY TypesNext, InMemoryNext
<1>3. ASSUME InMemory, Steps, saving, ~unsaved'
      PROVE  ~Changed(file', state', StateDefault)
  <2>1. unsaved /\ daemon = "up"
    BY <1>3 DEF InMemory
  <2>2. SaveEnds
    <3>1. ~ EditsConf
      <4>1. SUFFICES ASSUME EditsConf PROVE FALSE
        OBVIOUS
      <4>2. PICK place, lines, time, touched : Edit(place, lines, time, touched)
        BY <4>1 DEF EditsConf, WritesConf, RestoresConf, RemovesConf
      <4> QED
        BY <1>3, <2>1, <4>2 DEF Edit, fileVars
    <3>2. ~ Logins
      BY <1>3 DEF Logins, UserLogin, AutologinLogin, LoginSucceeds
    <3> QED
      BY <1>3, <2>1, <3>1, <3>2 DEF Steps, DaemonStarts, ReloadsConfig, DaemonDies, Ticks,
                        DiskChanges, GreeterStarts, Refreshes, GreeterEnds, fileVars
  <2>3. file' = writing /\ state' = state
    BY <1>3, <2>1, <2>2 DEF SaveEnds, daemonVars
  <2>4. ~Changed(writing, state, StateDefault)
    BY <1>3 DEF InMemory
  <2> QED
    BY <2>3, <2>4
<1>4. InMemory /\ [Next]_vars =>
        [saving /\ ~unsaved' => ~Changed(file', state', StateDefault)]_vars
  BY <1>3, StepsAre
<1> QED
  BY <1>1, <1>2, <1>4, PTL DEF Spec, SaveIsStable

-----------------------------------------------------------------------------
\* What a load of sddm.conf would find, and what the last one found.
Loads ==
    /\ daemon = "up" /\ edited = "no" => Current(main.values)
    /\ edited = "newer" => ~(LatestModificationTime <= main.time)

\* An edit that is said to be newer is.
LEMMA LoadsEdit ==
    ASSUME TypeOK, NEW place \in ToSet(Places), NEW lines, NEW time \in 0 .. clock,
           time # 0 => lines \in Contents, NEW touched, Edit(place, lines, time, touched)
    PROVE  Loads'
<1>1. edited' # "no" /\ clock' = clock /\ main' = main
  BY DEF Edit
<1>2. clock \in Nat /\ main.time \in Nat
  BY DEF TypeOK
<1>3. IsLatest(LatestModificationTime', conf', dirTime', clock)
  <2>1. TypeOK'
    BY TypesEdit
  <2>2. \A p \in DOMAIN conf' : conf'[p].time \in 0 .. clock
    BY <1>1, <1>2, <2>1 DEF TypeOK
  <2>3. \A x \in Directories : dirTime'[x] \in 0 .. clock
    BY <1>1, <1>2, <2>1 DEF TypeOK
  <2> QED
    BY <1>2, <2>2, <2>3, LatestIs DEF LatestModificationTime
<1>4. ASSUME edited' = "newer" PROVE ~(LatestModificationTime' <= main.time)
  <2>1. \/ time > main.time
        \/ touched /\ DirOf[place] # "none" /\ clock > main.time
    BY <1>4 DEF Edit
  <2>2. CASE time > main.time
    <3>1. time # 0 /\ time \in Nat
      BY <1>2, <2>2
    <3>2. place \in DOMAIN conf' /\ conf'[place].time = time
      BY <3>1 DEF Edit
    <3>3. time <= LatestModificationTime' /\ LatestModificationTime' \in Nat
      BY <1>2, <1>3, <3>2 DEF IsLatest
    <3> QED
      BY <1>2, <2>2, <3>1, <3>3
  <2>3. CASE touched /\ DirOf[place] # "none" /\ clock > main.time
    <3>1. DirOf[place] \in Directories
      BY <2>3 DEF Directories
    <3>2. dirTime'[DirOf[place]] = clock
      BY <2>3, <3>1 DEF Edit
    <3>3. clock <= LatestModificationTime' /\ LatestModificationTime' \in Nat
      BY <1>2, <1>3, <3>1, <3>2 DEF IsLatest
    <3> QED
      BY <1>2, <2>3, <3>3
  <2> QED
    BY <2>1, <2>2, <2>3
<1> QED
  BY <1>1, <1>4 DEF Loads

\* With no file at all, any values are those of the files.
LEMMA NoFiles ==
    ASSUME DOMAIN conf = {}, NEW values
    PROVE  Current(values)
  BY DEF Current, Has

\* Loads, for the daemon's start: it loads, or there is no file.
LEMMA LoadsStarts == TypeOK /\ DaemonStarts => Loads'
<1>1. SUFFICES ASSUME TypeOK, DaemonStarts PROVE Loads'
  OBVIOUS
<1> DEFINE fresh == [values |-> MainDefault, time |-> 0]
<1>2. main' = Load(fresh) /\ conf' = conf /\ edited' = "no"
  BY <1>1 DEF DaemonStarts, confVars
<1>3. fresh.time = 0 /\ IsConfig(fresh)
  BY <1>1, DefaultTyped
<1> HIDE DEF fresh
<1>4. Current(Load(fresh).values)
  <2>1. CASE ~(LatestModificationTime <= fresh.time)
    BY <1>1, <1>3, <2>1, LoadTyped
  <2>2. CASE LatestModificationTime <= 0
    <3>1. IsLatest(LatestModificationTime, conf, dirTime, clock) /\ clock \in Nat
      BY <1>1, LatestTyped
    <3>2. ASSUME NEW p \in DOMAIN conf PROVE FALSE
      <4>1. conf[p].time \in 1 .. clock
        BY <1>1 DEF TypeOK
      <4>2. conf[p].time <= LatestModificationTime /\ LatestModificationTime \in 0 .. clock
        BY <3>1 DEF IsLatest
      <4> QED
        BY <2>2, <3>1, <4>1, <4>2
    <3> QED
      BY <3>2, NoFiles
  <2> QED
    BY <1>3, <2>1, <2>2
<1>5. Current(main'.values)
  BY <1>2, <1>4
<1>6. Current(main.values)'
  BY <1>2, <1>5 DEF Current, Has
<1> QED
  BY <1>2, <1>6 DEF Loads

\* Loads, for Seat::createDisplay: what is newer is loaded.
LEMMA LoadsReloads == TypeOK /\ Loads /\ ReloadsConfig => Loads'
<1>1. SUFFICES ASSUME TypeOK, Loads, ReloadsConfig PROVE Loads'
  OBVIOUS
<1>2. /\ main' = Load(main) /\ daemon = "up" /\ conf' = conf
      /\ edited' = IF edited = "unseen" /\ main' = main THEN "unseen" ELSE "no"
  BY <1>1 DEF ReloadsConfig, confVars
<1>3. IsConfig(main) /\ edited \in {"no", "newer", "unseen"}
  BY <1>1 DEF TypeOK, IsConfig, Booleans
<1>4. ASSUME edited' = "no" PROVE Current(main'.values)
  <2>1. CASE LatestModificationTime <= main.time
    <3>1. main' = main
      BY <1>1, <1>2, <1>3, <2>1, LoadTyped
    <3>2. edited = "no"
      BY <1>1, <1>2, <1>3, <1>4, <2>1, <3>1 DEF Loads
    <3> QED
      BY <1>1, <1>2, <3>1, <3>2 DEF Loads
  <2>2. CASE ~(LatestModificationTime <= main.time)
    <3>1. Current(Load(main).values)
      BY <1>1, <1>3, <2>2, LoadTyped
    <3> QED
      BY <1>2, <3>1
  <2> QED
    BY <2>1, <2>2
<1>5. Current(main'.values) => Current(main.values)'
  BY <1>2 DEF Current, Has
<1>6. edited' # "newer"
  BY <1>2
<1> QED
  BY <1>4, <1>5, <1>6 DEF Loads

\* Every step keeps Loads.
LEMMA LoadsNext == TypeOK /\ Loads /\ [Next]_vars => Loads'
<1>1. SUFFICES ASSUME TypeOK, Loads, [Next]_vars PROVE Loads'
  OBVIOUS
<1>2. CASE EditsConf
  BY <1>1, <1>2, EditIs, LoadsEdit
<1>3. CASE DaemonStarts
  BY <1>1, <1>3, LoadsStarts
<1>4. CASE ReloadsConfig
  BY <1>1, <1>4, LoadsReloads
<1>5. CASE UNCHANGED <<conf, dirTime, main, edited>> /\ daemon' \in {daemon, "down"}
  <2>1. LatestModificationTime' = LatestModificationTime
    BY <1>5 DEF LatestModificationTime
  <2>2. Current(main.values) => Current(main.values)'
    BY <1>5 DEF Current, Has
  <2> QED
    BY <1>1, <1>5, <2>1, <2>2 DEF Loads
<1>6. \/ EditsConf \/ DaemonStarts \/ ReloadsConfig
      \/ UNCHANGED <<conf, dirTime, main, edited>> /\ daemon' \in {daemon, "down"}
  <2>1. CASE UNCHANGED vars
    BY <2>1 DEF vars, confVars, daemonVars
  <2>2. CASE Logins
    <3>1. PICK u, s : LoginSucceeds(u, s)
      BY <2>2 DEF Logins, UserLogin, AutologinLogin
    <3> QED
      BY <3>1 DEF LoginSucceeds, confVars
  <2>3. CASE SaveEnds \/ DaemonDies \/ Ticks \/ DiskChanges \/ GreeterStarts \/ Refreshes
             \/ GreeterEnds
    BY <2>3 DEF SaveEnds, DaemonDies, Ticks, DiskChanges, GreeterStarts, Refreshes,
                GreeterEnds, daemonVars, confVars
  <2> QED
    BY <1>1, <2>1, <2>2, <2>3, StepsAre DEF Steps
<1> QED
  BY <1>2, <1>3, <1>4, <1>5, <1>6

\* Loads at first: no daemon is up.
LEMMA LoadsInit == Init => Loads
  BY DEF Init, Loads

\* After a load the memory has what the most important files say, unless an edit
\* left nothing newer: for any files of sddm.conf and whatever is in them.
THEOREM LoadsAreCurrent == Spec => []LoadedIsCurrent
<1>1. Init => TypeOK /\ Loads
  BY TypesInit, LoadsInit
<1>2. TypeOK /\ Loads /\ [Next]_vars => TypeOK' /\ Loads'
  BY TypesNext, LoadsNext
<1>3. Loads => LoadedIsCurrent
  <2>1. SUFFICES ASSUME Current(main.values), NEW e \in MainEntries
                 PROVE  LET has == {i \in DOMAIN Places :
                                      /\ Places[i] \in DOMAIN conf
                                      /\ Reads(conf[Places[i]].lines, e) # {}}
                        IN  has # {} =>
                              Reads(conf[Places[Max(has)]].lines, e) = {main.values[e]}
    BY DEF Loads, LoadedIsCurrent
  <2> DEFINE values == main.values
  <2>2. Current(values)
    BY <2>1
  <2> HIDE DEF values
  <2>3. LET has == {i \in DOMAIN Places :
                      /\ Places[i] \in DOMAIN conf
                      /\ Reads(conf[Places[i]].lines, e) # {}}
        IN  has # {} => Reads(conf[Places[Max(has)]].lines, e) = {values[e]}
    BY <2>2, CurrentIs
  <2> QED
    BY <2>3 DEF values
<1> QED
  BY <1>1, <1>2, <1>3, PTL DEF Spec

-----------------------------------------------------------------------------
\* What a greeter offers.
Offers ==
    greeter = "on" =>
       /\ passwd \in Passwds
       /\ ~stale => sessions = Sessions(disk)
       /\ seen[LastSession] \in ToSet(sessions) =>
             sessions[lastIndex + 1] = seen[LastSession]
       /\ users = Users(passwd, seen[LastUser])
       /\ lastUserIndex = LastUserIndex(users, seen[LastUser])

\* Offers, for the greeter's start.
LEMMA OffersStarts == TypeOK /\ GreeterStarts => Offers'
<1>1. SUFFICES ASSUME TypeOK, GreeterStarts PROVE Offers'
  OBVIOUS
<1>2. /\ passwd' \in Passwds /\ disk' = disk
      /\ sessions' = Sessions(disk)
      /\ lastIndex' = LastIndex(sessions', seen'[LastSession], 0)
      /\ users' = Users(passwd', seen'[LastUser])
      /\ lastUserIndex' = LastUserIndex(users', seen'[LastUser])
  BY <1>1 DEF GreeterStarts
<1>3. sessions' \in Seq(DOMAIN Files)
  BY <1>1, <1>2, SessionsAre DEF TypeOK
<1>4. seen'[LastSession] \in ToSet(sessions') =>
         sessions'[lastIndex' + 1] = seen'[LastSession]
  BY <1>2, <1>3, LastIndexIs
<1> QED
  BY <1>2, <1>4 DEF Offers

\* Offers, for directoryChanged: sessions are looked up again.
LEMMA OffersRefreshes == TypeOK /\ Offers /\ Refreshes => Offers'
<1>1. SUFFICES ASSUME TypeOK, Offers, Refreshes PROVE Offers'
  OBVIOUS
<1>2. /\ greeter = "on"
      /\ sessions' = Sessions(disk)
      /\ lastIndex' = LastIndex(sessions', seen[LastSession], lastIndex)
      /\ UNCHANGED <<disk, seen, passwd, users, lastUserIndex>>
  BY <1>1 DEF Refreshes
<1>3. sessions' \in Seq(DOMAIN Files) /\ lastIndex \in Nat
  BY <1>1, <1>2, SessionsAre DEF TypeOK
<1>4. seen[LastSession] \in ToSet(sessions') =>
         sessions'[lastIndex' + 1] = seen[LastSession]
  BY <1>2, <1>3, LastIndexIs
<1> QED
  BY <1>1, <1>2, <1>4 DEF Offers

\* Every step keeps Offers; DiskChanges does by making the list stale.
LEMMA OffersNext == TypeOK /\ Offers /\ [Next]_vars => Offers'
<1>1. SUFFICES ASSUME TypeOK, Offers, [Next]_vars PROVE Offers'
  OBVIOUS
<1>2. CASE GreeterStarts
  BY <1>1, <1>2, OffersStarts
<1>3. CASE Refreshes
  BY <1>1, <1>3, OffersRefreshes
<1>4. CASE GreeterEnds
  BY <1>4 DEF GreeterEnds, Offers
<1>5. CASE DiskChanges
  BY <1>1, <1>5 DEF DiskChanges, Offers
<1>6. CASE UNCHANGED <<disk, greeterVars>>
  BY <1>1, <1>6 DEF Offers, greeterVars
<1>7. \/ GreeterStarts \/ Refreshes \/ GreeterEnds \/ DiskChanges
      \/ UNCHANGED <<disk, greeterVars>>
  <2>1. CASE UNCHANGED vars
    BY <2>1 DEF vars
  <2>2. CASE Logins
    <3>1. PICK u, s : LoginSucceeds(u, s)
      BY <2>2 DEF Logins, UserLogin, AutologinLogin
    <3> QED
      BY <3>1 DEF LoginSucceeds
  <2>3. CASE EditsConf
    <3>1. PICK place, lines, time, touched : Edit(place, lines, time, touched)
      BY <2>3 DEF EditsConf, WritesConf, RestoresConf, RemovesConf
    <3> QED
      BY <3>1 DEF Edit
  <2>4. CASE DaemonStarts \/ ReloadsConfig \/ SaveEnds \/ DaemonDies \/ Ticks
    BY <2>4 DEF DaemonStarts, ReloadsConfig, SaveEnds, DaemonDies, Ticks
  <2> QED
    BY <1>1, <2>1, <2>2, <2>3, <2>4, StepsAre DEF Steps
<1> QED
  BY <1>2, <1>3, <1>4, <1>5, <1>6, <1>7

\* Offers at first: there is no greeter.
LEMMA OffersInit == Init => Offers
  BY DEF Init, Offers

\* A greeter offers just the sessions that can be, each once, and selects the
\* last session and user: for any directories, files and accounts.
THEOREM LastAlwaysOffered == Spec => []LastIsOffered
<1>1. Init => TypeOK /\ Offers
  BY TypesInit, OffersInit
<1>2. TypeOK /\ Offers /\ [Next]_vars => TypeOK' /\ Offers'
  BY TypesNext, OffersNext
<1>3. TypeOK /\ Offers => LastIsOffered
  <2>1. SUFFICES ASSUME TypeOK, Offers, greeter = "on" PROVE LastIsOffered
    BY DEF LastIsOffered
  <2>2. ASSUME ~stale
        PROVE  /\ ToSet(sessions) = {p \in DOMAIN Files : Offered(p)}
               /\ IsInjective(sessions)
               /\ Offered(seen[LastSession]) => sessions[lastIndex + 1] = seen[LastSession]
    <3>1. disk \subseteq DOMAIN Files /\ sessions = Sessions(disk)
      BY <2>1, <2>2 DEF TypeOK, Offers
    <3>2. ToSet(sessions) = {p \in DOMAIN Files : Offered(p)} /\ IsInjective(sessions)
      BY <3>1, SessionsAre
    <3>3. Offered(seen[LastSession]) => seen[LastSession] \in DOMAIN Files
      BY <3>1 DEF Offered
    <3> QED
      BY <2>1, <3>2, <3>3 DEF Offers
  <2>3. ASSUME NEW i \in DOMAIN passwd, Listed(passwd[i]), passwd[i].name = seen[LastUser]
        PROVE  users[lastUserIndex + 1] = seen[LastUser]
    <3>1. /\ passwd \in Passwds /\ users = Users(passwd, seen[LastUser])
          /\ lastUserIndex = LastUserIndex(users, seen[LastUser])
      BY <2>1 DEF Offers
    <3> QED
      BY <2>3, <3>1, UsersTyped
  <2> QED
    BY <2>2, <2>3 DEF LastIsOffered
<1> QED
  BY <1>1, <1>2, <1>3, PTL DEF Spec
=============================================================================
