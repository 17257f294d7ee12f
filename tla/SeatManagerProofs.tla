---------------------------- MODULE SeatManagerProofs -----------------------
(***************************************************************************)
(* SeatManager and its LogindSeats keep one Seat for each graphical seat.  *)
(*                                                                         *)
(* The daemon learns of a seat from the list it asks for at its start,     *)
(* from the signals SeatNew, SeatRemoved and PropertiesChanged, and from   *)
(* its questions for CanGraphical, and each may be on its way while the    *)
(* next is sent.  The invariant follows what the daemon will take for      *)
(* CanGraphical after each message that is on its way to it (Forecast),    *)
(* and says that in the end it is what logind has, or that the daemon will *)
(* have asked (Settles).                                                   *)
(***************************************************************************)
EXTENDS SeatManager, WellFoundedInduction, SequenceTheorems, FiniteSetTheorems, TLAPS

-----------------------------------------------------------------------------
(***************************************************************************)
(* Induction and recursion up to a number, in terms of sets and functions. *)
(***************************************************************************)
\* Of some natural numbers one is the least.
LEMMA Least ==
    ASSUME NEW T, T \subseteq Nat, T # {}
    PROVE  \E k \in T : \A j \in T : k <= j
<1>1. PICK k \in T : \A j \in T : ~ (<<j, k>> \in OpToRel(<, Nat))
  BY WFMin, NatLessThanWellFounded
<1>2. ASSUME NEW j \in T PROVE k <= j
  <2>1. j \in Nat /\ k \in Nat
    OBVIOUS
  <2>2. ~ (j < k)
    BY <1>1, <2>1 DEF OpToRel
  <2> QED
    BY <2>1, <2>2
<1> QED
  BY <1>2

\* Induction up to N.
LEMMA UpTo ==
    ASSUME NEW N \in Nat, NEW T, 0 \in T,
           \A n \in 0 .. N - 1 : n \in T => n + 1 \in T
    PROVE  \A n \in 0 .. N : n \in T
<1> DEFINE D == {n \in 0 .. N : n \notin T}
<1>1. SUFFICES ASSUME D # {} PROVE FALSE
  OBVIOUS
<1>2. PICK k \in D : \A j \in D : k <= j
  <2>1. D \subseteq Nat
    OBVIOUS
  <2> HIDE DEF D
  <2> QED
    BY <1>1, <2>1, Least
<1>3. k \in 1 .. N /\ k - 1 \in 0 .. N - 1
  BY <1>2
<1>4. k - 1 \in T
  BY <1>2, <1>3
<1> QED
  BY <1>2, <1>3, <1>4

\* A function whose first value is base and whose value at n comes from the one
\* before by step[n].
Recurs(f, S, N, base, step) ==
    /\ f \in [0 .. N -> S]
    /\ f[0] = base
    /\ \A n \in 1 .. N : f[n] = step[n][f[n - 1]]

IsStep(step, S, N) == \A n \in 1 .. N, x \in S : step[n][x] \in S

\* There always is one.
LEMMA Recursion ==
    ASSUME NEW S, NEW N, NEW base, NEW step,
           N \in Nat, base \in S, IsStep(step, S, N)
    PROVE  \E f : Recurs(f, S, N, base, step)
<1> DEFINE Up(m, f) == f[0] = base /\ \A n \in 1 .. m : f[n] = step[n][f[n - 1]]
           T == {m \in 0 .. N : \E f \in [0 .. m -> S] : Up(m, f)}
<1>1. 0 \in T
  <2> DEFINE f == [i \in 0 .. 0 |-> base]
  <2>1. f \in [0 .. 0 -> S] /\ Up(0, f)
    OBVIOUS
  <2>2. 0 \in 0 .. N
    OBVIOUS
  <2> HIDE DEF f, Up
  <2> QED
    BY <2>1, <2>2
<1>2. ASSUME NEW m \in 0 .. N - 1, m \in T PROVE m + 1 \in T
  <2>1. PICK f \in [0 .. m -> S] : Up(m, f)
    BY <1>2
  <2> DEFINE v == step[m + 1][f[m]]
             g == [i \in 0 .. m + 1 |-> IF i <= m THEN f[i] ELSE v]
  <2>2. v \in S
    BY <1>2 DEF IsStep
  <2>3. g \in [0 .. m + 1 -> S]
    BY <2>2
  <2>4. g[0] = base
    BY <2>1
  <2>5. ASSUME NEW n \in 1 .. m + 1 PROVE g[n] = step[n][g[n - 1]]
    <3>1. CASE n <= m
      BY <2>1, <3>1
    <3>2. CASE n = m + 1
      BY <3>2
    <3> QED
      BY <3>1, <3>2
  <2> HIDE DEF g
  <2>6. Up(m + 1, g) /\ m + 1 \in 0 .. N
    BY <2>4, <2>5
  <2> HIDE DEF Up
  <2> QED
    BY <2>3, <2>6
<1>3. N \in T
  <2> HIDE DEF T
  <2>1. \A m \in 0 .. N - 1 : m \in T => m + 1 \in T
    BY <1>2
  <2>2. \A m \in 0 .. N : m \in T
    BY <1>1, <2>1, UpTo
  <2> QED
    BY <2>2
<1> QED
  BY <1>3 DEF Recurs

-----------------------------------------------------------------------------
(***************************************************************************)
(* The invariant.                                                          *)
(***************************************************************************)
\* The list of seats is still asked for.
Unlisted == \E i \in 1 .. Len(calls) : calls[i].op = "ListSeats"

\* What the daemon takes for CanGraphical(s).
Now(s) == IF systemSeats[s] = 0 THEN "none"
          ELSE IF logindSeats[systemSeats[s]].canGraphical THEN "yes" ELSE "no"

\* The messages about a seat.
Announces(m, s) == \/ m.type = "ListSeats" /\ s \in m.seats
                   \/ m.type = "SeatNew" /\ m.seat = s
Dismisses(m, s) == m.type = "SeatRemoved" /\ m.seat = s
Changes(m, s) == m.type = "PropertiesChanged" /\ m.seat = s

\* The n-th message is the answer to the question of the LogindSeat that will
\* still be there when it is received.
Tells(s, n) ==
    /\ inbox[n].type = "Get" /\ inbox[n].object = systemSeats[s]
    /\ inbox[n].value # "none"
    /\ \A m \in 1 .. n - 1 : ~Dismisses(inbox[m], s)

\* What the daemon will take for CanGraphical(s) after the n-th message, when
\* it took v for it before.
Hears(s, n, v) ==
    IF Announces(inbox[n], s) THEN "no"
    ELSE IF Dismisses(inbox[n], s) THEN "none"
    ELSE IF Changes(inbox[n], s) /\ v # "none"
    THEN IF inbox[n].value THEN "yes" ELSE "no"
    ELSE IF Tells(s, n) THEN inbox[n].value
    ELSE v

\* What it will take for it after each of the messages: f.
Forecast(s, f) ==
    /\ f \in [0 .. Len(inbox) -> Answer]
    /\ f[0] = Now(s)
    /\ \A n \in 1 .. Len(inbox) :
          /\ f[n] = Hears(s, n, f[n - 1])
          /\ Announces(inbox[n], s) => f[n - 1] = "none"

\* The daemon will have asked, and not been told yet.
Asking(s) ==
    \/ \E n \in 1 .. Len(inbox) : Announces(inbox[n], s)
    \/ \E k \in 1 .. Len(calls) : calls[k].op = "Get" /\ calls[k].object = systemSeats[s]

\* In the end it will know what there is, unless it still asks.
Settles(s, last) ==
    /\ last = "none" <=> s \notin present \/ Unlisted
    /\ ~Unlisted /\ ~Asking(s) /\ s \in present =>
          systemSeats[s] # 0 /\ s \in watched /\ last = CanGraphical(s)

\* A change to graphical is news, and a seat is not taken for graphical when it
\* is not.
Alternates(s, f) ==
    /\ \A n \in 1 .. Len(inbox) :
          Changes(inbox[n], s) /\ inbox[n].value => f[n - 1] # "yes"
    /\ f[Len(inbox)] = "yes" => s \in graphical

\* The daemon is on the way to what logind has.
Foreseen(s) ==
    \E f : Forecast(s, f) /\ Settles(s, f[Len(inbox)]) /\ (~missed => Alternates(s, f))

\* A seat whose end is announced is not there, or its return is announced too.
Returns(s) ==
    \A n \in 1 .. Len(inbox) : Dismisses(inbox[n], s) =>
        \/ s \notin present
        \/ \E m \in n + 1 .. Len(inbox) : inbox[m] = [type |-> "SeatNew", seat |-> s]

\* The seat's own LogindSeat is its only one.
OneObject(s) ==
    AliveFor(s) = IF systemSeats[s] = 0 THEN {} ELSE {systemSeats[s]}

\* The call changes the subscription to the seat.
Matches(c, s) == c.op \in {"watch", "unwatch"} /\ c.seat = s

\* The call is the question of the i-th LogindSeat.
Asks(c, i) == c.op = "Get" /\ c.object = i

\* The subscription of the seat's LogindSeat comes before its question, and
\* nothing ends it.
Listens(s) ==
    LET i == systemSeats[s] IN
    i # 0 =>
        \/ /\ s \in watched
           /\ \A k \in 1 .. Len(calls) : ~Matches(calls[k], s)
        \/ /\ \A n \in 1 .. Len(inbox) : ~(inbox[n].type = "Get" /\ inbox[n].object = i)
           /\ \E j \in 1 .. Len(calls) :
                 /\ calls[j] = [op |-> "watch", seat |-> s]
                 /\ \E k \in 1 .. Len(calls) : Asks(calls[k], i)
                 /\ \A k \in 1 .. Len(calls) : Asks(calls[k], i) => j < k
                 /\ \A k \in 1 .. Len(calls) : Matches(calls[k], s) => k <= j

\* The list is asked for first and once.
ListInv ==
    /\ \A k \in 1 .. Len(calls) : calls[k].op = "ListSeats" => k = 1
    /\ Unlisted => /\ inbox = <<>> /\ watched = {} /\ \A s \in Seats : systemSeats[s] = 0
                   /\ \A k \in 1 .. Len(calls) : calls[k].op \in {"ListSeats", "subscribe"}

\* The Seats are those of the LogindSeats that are graphical.
ManagedInv == \A s \in Seats : s \in managed <=> Now(s) = "yes"

\* ... one each, and so are their objects on D-Bus.
ExportedInv ==
    /\ \A s \in Seats : running[s] = IF s \in managed THEN 1 ELSE 0
    /\ {exported[i].seat : i \in 1 .. Len(exported)} = managed
    /\ \A i, j \in 1 .. Len(exported) : exported[i].seat = exported[j].seat => i = j

\* What holds of each seat.
SeatInv(s) == Foreseen(s) /\ Returns(s) /\ OneObject(s) /\ Listens(s)

\* The daemon follows what logind does.
Follows == ListInv /\ ManagedInv /\ \A s \in Seats : SeatInv(s)

\* Every seat that is in m_seats has a Seat.
Counted == \A s \in managed : running[s] > 0

\* The inductive invariant.
Inv ==
    /\ TypeOK /\ Counted
    /\ ~raced => Follows
    /\ ~raced /\ ~missed => ExportedInv

-----------------------------------------------------------------------------
(***************************************************************************)
(* Sequences.                                                              *)
(***************************************************************************)
\* A set as a sequence.
LEMMA SetToSeqProperties ==
    ASSUME NEW S, IsFiniteSet(S)
    PROVE  /\ SetToSeq(S) \in Seq(S)
           /\ \A i, j \in 1 .. Len(SetToSeq(S)) : SetToSeq(S)[i] = SetToSeq(S)[j] => i = j
           /\ {SetToSeq(S)[i] : i \in 1 .. Len(SetToSeq(S))} = S
<1> DEFINE C == Cardinality(S)
           q == SetToSeq(S)
<1>1. C \in Nat /\ ExistsBijection(1 .. C, S)
  BY FS_CardinalityType
<1>2. PICK g \in [1 .. C -> S] : IsInjective(g)
  <2>1. PICK g : g \in Bijection(1 .. C, S)
    BY <1>1 DEF ExistsBijection
  <2> QED
    BY <2>1 DEF Bijection, Injection
<1>3. q \in [1 .. C -> S] /\ IsInjective(q)
  BY <1>2 DEF SetToSeq
<1> HIDE DEF q
<1>4. q \in Seq(S) /\ Len(q) = C
  BY <1>1, <1>3
<1>5. \A i, j \in 1 .. C : q[i] = q[j] => i = j
  BY <1>3 DEF IsInjective
<1>6. {q[i] : i \in 1 .. C} = S
  <2> DEFINE T == {q[i] : i \in 1 .. C}
  <2>1. q \in Bijection(1 .. C, T)
    BY <1>3 DEF Bijection, Injection, Surjection
  <2>2. Cardinality(T) = Cardinality(1 .. C)
    BY <1>1, <2>1, FS_Interval, FS_Bijection DEF ExistsBijection
  <2>3. Cardinality(1 .. C) = C
    BY <1>1, FS_Interval
  <2>4. T \in SUBSET S
    BY <1>3
  <2> HIDE DEF T
  <2> QED
    BY <2>2, <2>3, <2>4, FS_Subset DEF T
<1> QED
  BY <1>4, <1>5, <1>6 DEF q

\* A sequence without one of its elements.
LEMMA RemoveAtProperties ==
    ASSUME NEW S, NEW q \in Seq(S), NEW i \in 1 .. Len(q)
    PROVE  /\ RemoveAt(q, i) \in Seq(S)
           /\ Len(RemoveAt(q, i)) = Len(q) - 1
           /\ \A j \in 1 .. Len(q) - 1 :
                RemoveAt(q, i)[j] = IF j < i THEN q[j] ELSE q[j + 1]
<1> DEFINE a == SubSeq(q, 1, i - 1)
           b == SubSeq(q, i + 1, Len(q))
<1>1. a \in Seq(S) /\ Len(a) = i - 1 /\ \A j \in 1 .. i - 1 : a[j] = q[j]
  <2>1. \A j \in 1 .. i - 1 : q[j] \in S
    OBVIOUS
  <2> QED
    BY <2>1, SubSeqProperties
<1>2. b \in Seq(S) /\ Len(b) = Len(q) - i /\ \A j \in 1 .. Len(q) - i : b[j] = q[i + j]
  <2>1. \A j \in i + 1 .. Len(q) : q[j] \in S
    OBVIOUS
  <2> QED
    BY <2>1, SubSeqProperties
<1>3. RemoveAt(q, i) = a \o b
  BY DEF RemoveAt
<1> HIDE DEF a, b
<1>0. /\ a \o b \in Seq(S) /\ Len(a \o b) = Len(a) + Len(b)
      /\ \A j \in 1 .. Len(a) + Len(b) : (a \o b)[j] = IF j <= Len(a) THEN a[j] ELSE b[j - Len(a)]
  <2>1. a \in Seq(S) /\ b \in Seq(S)
    BY <1>1, <1>2
  <2> QED
    BY <2>1, ConcatProperties
<1>4. /\ a \o b \in Seq(S)
      /\ Len(a \o b) = Len(q) - 1
      /\ \A j \in 1 .. Len(q) - 1 : (a \o b)[j] = IF j <= i - 1 THEN a[j] ELSE b[j - (i - 1)]
  BY <1>0, <1>1, <1>2
<1>5. ASSUME NEW j \in 1 .. Len(q) - 1
      PROVE  (a \o b)[j] = IF j < i THEN q[j] ELSE q[j + 1]
  <2>1. j \in Int /\ i \in Int
    OBVIOUS
  <2>2. j < i => (a \o b)[j] = q[j]
    BY <1>1, <1>4
  <2>4. ~ (j < i) => i <= j
    BY <2>1
  <2>3. ASSUME ~ (j < i) PROVE (a \o b)[j] = q[j + 1]
    <3>1. i <= j
      BY <2>3, <2>4
    <3>2. (a \o b)[j] = b[j - (i - 1)] /\ j - (i - 1) \in 1 .. Len(q) - i
      BY <1>4, <3>1
    <3> QED
      BY <1>2, <3>1, <3>2
  <2> HIDE DEF a, b
  <2> QED
    BY <2>2, <2>3
<1> QED
  BY <1>3, <1>4, <1>5

-----------------------------------------------------------------------------
(***************************************************************************)
(* LogindSeatsAdded: what it sends.                                        *)
(***************************************************************************)
\* What the constructor of the i-th LogindSeat of a sequence of seats sends.
Watch(s) == [op |-> "watch", seat |-> s]

\* Its question.
Get(i) == [op |-> "Get", object |-> i]

\* The subscription, unless there is one for the seat.
Subscribes(s) == IF AliveFor(s) = {} THEN <<Watch(s)>> ELSE <<>>

\* What the constructors send for the seats in q.
NewCalls(q) == {Watch(s) : s \in Seats}
               \union {Get(i) : i \in Len(logindSeats) + 1 .. Len(logindSeats) + Len(q)}

\* The recursive function of Asked, unfolded.
LEMMA AskedUnfold ==
    ASSUME NEW q \in Seq(Seats), logindSeats \in Seq(LogindSeat)
    PROVE  \E f \in [0 .. Len(q) -> Seq(NewCalls(q))] :
             /\ Asked(q) = f[Len(q)]
             /\ f[0] = <<>>
             /\ \A i \in 1 .. Len(q) :
                  f[i] = f[i - 1] \o Subscribes(q[i]) \o <<Get(Len(logindSeats) + i)>>
<1> DEFINE N == Len(q)
           S == Seq(NewCalls(q))
           Next1(i, x) == x \o Subscribes(q[i]) \o <<Get(Len(logindSeats) + i)>>
           F == CHOOSE f :
                  f = [i \in 0 .. N |-> IF i = 0 THEN <<>> ELSE Next1(i, f[i - 1])]
<1>1. N \in Nat /\ Len(logindSeats) \in Nat
  OBVIOUS
<1>2. ASSUME NEW i \in 1 .. N, NEW x \in S PROVE Next1(i, x) \in S
  <2>1. q[i] \in Seats
    OBVIOUS
  <2>2. Watch(q[i]) \in NewCalls(q)
    BY <2>1 DEF NewCalls
  <2>3. Get(Len(logindSeats) + i) \in NewCalls(q)
    BY <1>1 DEF NewCalls
  <2>4. Subscribes(q[i]) \in Seq(NewCalls(q))
    BY <2>2 DEF Subscribes
  <2>5. <<Get(Len(logindSeats) + i)>> \in Seq(NewCalls(q))
    BY <2>3
  <2>6. x \o Subscribes(q[i]) \in Seq(NewCalls(q))
    BY <2>4, ConcatProperties
  <2> QED
    BY <2>5, <2>6, ConcatProperties
<1>3. <<>> \in S
  OBVIOUS
<1>4. PICK f \in [0 .. N -> S] :
        f[0] = <<>> /\ \A n \in 1 .. N : f[n] = Next1(n, f[n - 1])
  <2> DEFINE step == [n \in 1 .. N |-> [x \in S |-> Next1(n, x)]]
  <2>1. \A n \in 1 .. N, x \in S : step[n][x] = Next1(n, x) /\ step[n][x] \in S
    BY <1>2
  <2>2. IsStep(step, S, N)
    BY <2>1 DEF IsStep
  <2> HIDE DEF step, Next1, N, S
  <2>3. PICK f : Recurs(f, S, N, <<>>, step)
    BY <1>1, <1>3, <2>2, Recursion
  <2>4. f \in [0 .. N -> S]
    BY <2>3 DEF Recurs
  <2>5. ASSUME NEW n \in 1 .. N PROVE f[n] = Next1(n, f[n - 1])
    <3>1. n - 1 \in 0 .. N
      BY <1>1
    <3>2. f[n - 1] \in S
      BY <2>4, <3>1
    <3> QED
      BY <2>1, <2>3, <3>2 DEF Recurs
  <2> QED
    BY <2>3, <2>4, <2>5 DEF Recurs
<1>5. F[0] = <<>> /\ \A n \in 1 .. N : F[n] = Next1(n, F[n - 1])
  <2> HIDE DEF Next1, N
  <2>1. f = [n \in 0 .. N |-> IF n = 0 THEN <<>> ELSE Next1(n, f[n - 1])]
    BY <1>1, <1>4
  <2>2. F = [n \in 0 .. N |-> IF n = 0 THEN <<>> ELSE Next1(n, F[n - 1])]
    BY <2>1
  <2> HIDE DEF F
  <2> QED
    BY <1>1, <2>2
<1>6. \A n \in 0 .. N : F[n] = f[n]
  <2> DEFINE T == {n \in 0 .. N : F[n] = f[n]}
  <2> HIDE DEF Next1, N, S, F
  <2>1. 0 \in T
    BY <1>1, <1>4, <1>5
  <2>2. ASSUME NEW n \in 0 .. N - 1, n \in T PROVE n + 1 \in T
    BY <1>1, <1>4, <1>5, <2>2
  <2> HIDE DEF T
  <2>3. \A n \in 0 .. N - 1 : n \in T => n + 1 \in T
    BY <2>2
  <2>4. \A n \in 0 .. N : n \in T
    BY <1>1, <2>1, <2>3, UpTo
  <2> QED
    BY <2>4 DEF T
<1>7. Asked(q) = F[N]
  BY DEF Asked, Subscribes, Watch, Get
<1>8. Asked(q) = f[N]
  <2> HIDE DEF F, N
  <2> QED
    BY <1>1, <1>6, <1>7
<1> HIDE DEF F
<1> QED
  BY <1>4, <1>8

\* When no seat of the sequence has a LogindSeat the calls come in pairs.
LEMMA AskedProperties ==
    ASSUME NEW q \in Seq(Seats), logindSeats \in Seq(LogindSeat)
    PROVE  /\ Asked(q) \in Seq(NewCalls(q))
           /\ (\A i \in 1 .. Len(q) : AliveFor(q[i]) = {}) =>
                /\ Len(Asked(q)) = 2 * Len(q)
                /\ \A i \in 1 .. Len(q) :
                     /\ Asked(q)[2 * i - 1] = Watch(q[i])
                     /\ Asked(q)[2 * i] = Get(Len(logindSeats) + i)
<1> DEFINE N == Len(q)
           C == NewCalls(q)
<1>1. PICK f \in [0 .. N -> Seq(C)] :
             /\ Asked(q) = f[N]
             /\ f[0] = <<>>
             /\ \A i \in 1 .. N :
                  f[i] = f[i - 1] \o Subscribes(q[i]) \o <<Get(Len(logindSeats) + i)>>
  BY AskedUnfold
<1>2. N \in Nat /\ N \in 0 .. N
  OBVIOUS
<1>3. f[N] \in Seq(C)
  BY <1>1, <1>2
<1>4. ASSUME \A i \in 1 .. N : AliveFor(q[i]) = {}
      PROVE  /\ Len(f[N]) = 2 * N
             /\ \A i \in 1 .. N :
                     /\ f[N][2 * i - 1] = Watch(q[i])
                     /\ f[N][2 * i] = Get(Len(logindSeats) + i)
  <2> DEFINE P(n) == /\ Len(f[n]) = 2 * n
                     /\ \A i \in 1 .. n :
                          /\ f[n][2 * i - 1] = Watch(q[i])
                          /\ f[n][2 * i] = Get(Len(logindSeats) + i)
             T == {n \in 0 .. N : P(n)}
  <2> HIDE DEF C
  <2>1. 0 \in T
    BY <1>1
  <2>2. ASSUME NEW n \in 0 .. N - 1, n \in T PROVE n + 1 \in T
    <3> DEFINE w == Watch(q[n + 1])
               g == Get(Len(logindSeats) + (n + 1))
    <3>1. /\ n \in Nat /\ n \in 0 .. N /\ n + 1 \in 1 .. N /\ n + 1 \in 0 .. N /\ P(n)
          /\ (n + 1) - 1 = n
      <4> HIDE DEF P
      <4> QED
        BY <1>2, <2>2
    <3>2. f[n + 1] = (f[n] \o <<w>>) \o <<g>>
      BY <1>1, <1>4, <3>1 DEF Subscribes
    <3>3. f[n] \in Seq(C) /\ f[n + 1] \in Seq(C)
      BY <1>1, <3>1
    <3> HIDE DEF w, g
    <3> DEFINE U == C \union {w, g}
    <3>4. f[n] \in Seq(U) /\ <<w>> \in Seq(U) /\ <<g>> \in Seq(U)
      BY <3>3, SeqMonotonic
    <3>5. /\ f[n] \o <<w>> \in Seq(U) /\ Len(f[n] \o <<w>>) = 2 * n + 1
          /\ \A i \in 1 .. 2 * n : (f[n] \o <<w>>)[i] = f[n][i]
          /\ (f[n] \o <<w>>)[2 * n + 1] = w
      <4> HIDE DEF U
      <4>1. Len(f[n]) = 2 * n
        BY <3>1
      <4> QED
        BY <3>1, <3>4, <4>1, ConcatProperties
    <3> DEFINE b == f[n] \o <<w>>
    <3> HIDE DEF b, U
    <3>6. /\ Len(b \o <<g>>) = 2 * n + 2
          /\ \A i \in 1 .. 2 * n + 1 : (b \o <<g>>)[i] = b[i]
          /\ (b \o <<g>>)[2 * n + 2] = g
      <4>1. b \in Seq(U) /\ Len(b) = 2 * n + 1
        BY <3>5 DEF b
      <4>2. /\ Len(b \o <<g>>) = Len(b) + Len(<<g>>)
            /\ \A i \in 1 .. Len(b) + Len(<<g>>) :
                 (b \o <<g>>)[i] = IF i <= Len(b) THEN b[i] ELSE <<g>>[i - Len(b)]
        BY <3>4, <4>1, ConcatProperties
      <4>3. Len(<<g>>) = 1 /\ <<g>>[1] = g
        OBVIOUS
      <4>4. n \in Nat
        BY <3>1
      <4>5. Len(b \o <<g>>) = 2 * n + 2
        BY <4>1, <4>2, <4>3, <4>4
      <4>6. (b \o <<g>>)[2 * n + 2] = g
        <5>1. 2 * n + 2 \in 1 .. Len(b) + Len(<<g>>) /\ ~(2 * n + 2 <= Len(b))
              /\ 2 * n + 2 - Len(b) = 1
          BY <4>1, <4>3, <4>4
        <5> QED
          BY <4>2, <4>3, <5>1
      <4>7. ASSUME NEW i \in 1 .. 2 * n + 1
            PROVE  (b \o <<g>>)[i] = b[i]
        <5>1. i \in 1 .. Len(b) + Len(<<g>>) /\ i <= Len(b)
          BY <4>1, <4>3, <4>4
        <5> QED
          BY <4>2, <5>1
      <4> QED
        BY <4>5, <4>6, <4>7
    <3>7. /\ Len(f[n + 1]) = 2 * n + 2
          /\ \A i \in 1 .. 2 * n : f[n + 1][i] = f[n][i]
          /\ f[n + 1][2 * n + 1] = w
          /\ f[n + 1][2 * n + 2] = g
      <4>1. f[n + 1] = b \o <<g>>
        BY <3>2 DEF b
      <4>2. \A i \in 1 .. 2 * n : b[i] = f[n][i]
        BY <3>5 DEF b
      <4>3. b[2 * n + 1] = w
        BY <3>5 DEF b
      <4> QED
        BY <3>1, <3>6, <4>1, <4>2, <4>3
    <3>8. ASSUME NEW i \in 1 .. n + 1
          PROVE  /\ f[n + 1][2 * i - 1] = Watch(q[i])
                 /\ f[n + 1][2 * i] = Get(Len(logindSeats) + i)
      <4>1. CASE i \in 1 .. n
        <5>1. 2 * i - 1 \in 1 .. 2 * n /\ 2 * i \in 1 .. 2 * n
          BY <3>1, <4>1
        <5>2. f[n][2 * i - 1] = Watch(q[i]) /\ f[n][2 * i] = Get(Len(logindSeats) + i)
          BY <3>1, <4>1
        <5> QED
          BY <3>7, <5>1, <5>2
      <4>2. CASE i = n + 1
        <5>1. 2 * i - 1 = 2 * n + 1 /\ 2 * i = 2 * n + 2
          BY <3>1, <4>2
        <5> QED
          BY <3>7, <4>2, <5>1 DEF w, g
      <4> QED
        BY <3>1, <4>1, <4>2
    <3>9. P(n + 1)
      BY <3>1, <3>7, <3>8
    <3> QED
      BY <3>1, <3>9
  <2> HIDE DEF T, P
  <2>3. \A n \in 0 .. N : n \in T
    BY <1>2, <2>1, <2>2, UpTo
  <2> QED
    BY <1>2, <2>3 DEF T, P
<1> QED
  BY <1>1, <1>3, <1>4

-----------------------------------------------------------------------------
(***************************************************************************)
(* RemoveSeat: the loop that erases while it goes on.                      *)
(***************************************************************************)
\* One turn of the loop of RemoveSeat, on a list that had n entries.
Where(l, i) == {k \in 1 .. l.len : l.mem[k] = l.mem[i]}

\* What it leaves.
Visited(n, name, l, i) ==
    IF l.mem[i].seat # name THEN l
    ELSE IF Where(l, i) = {} THEN l
    ELSE [mem |-> [j \in 1 .. n |->
                     IF j < l.len /\ \E k \in Where(l, i) : k <= j
                     THEN l.mem[j + 1] ELSE l.mem[j]],
          len |-> l.len - 1]

\* The list after each turn.
Erases(S, list, name, f) ==
    LET n == Len(list) IN
    /\ f \in [0 .. n -> [mem : [1 .. n -> S], len : 0 .. n]]
    /\ Erase(list, name) = SubSeq(f[n].mem, 1, f[n].len)
    /\ f[0] = [mem |-> list, len |-> n]
    /\ \A i \in 1 .. n : f[i] = Visited(n, name, f[i - 1], i)

\* Erase is the last of such lists.
LEMMA EraseUnfold ==
    ASSUME NEW S, NEW list \in Seq(S), NEW name
    PROVE  \E f : Erases(S, list, name, f)
<1> DEFINE N == Len(list)
           L == [mem : [1 .. N -> S], len : 0 .. N]
           Next1(i, l) == Visited(N, name, l, i)
           start == [mem |-> list, len |-> N]
           F == CHOOSE f :
                  f = [i \in 0 .. N |-> IF i = 0 THEN start ELSE Next1(i, f[i - 1])]
<1>1. N \in Nat
  OBVIOUS
<1>2. ASSUME NEW i \in 1 .. N, NEW l \in L PROVE Next1(i, l) \in L
  <2>1. l.mem \in [1 .. N -> S] /\ l.len \in 0 .. N
    OBVIOUS
  <2>2. CASE l.mem[i].seat # name \/ Where(l, i) = {}
    BY <2>2 DEF Visited
  <2>3. CASE l.mem[i].seat = name /\ Where(l, i) # {}
    <3> DEFINE m == [j \in 1 .. N |->
                     IF j < l.len /\ \E k \in Where(l, i) : k <= j
                     THEN l.mem[j + 1] ELSE l.mem[j]]
    <3>1. l.len - 1 \in 0 .. N
      <4>1. l.len # 0
        BY <1>1, <2>1, <2>3 DEF Where
      <4> QED
        BY <1>1, <2>1, <4>1
    <3>2. ASSUME NEW j \in 1 .. N PROVE m[j] \in S
      <4>1. j < l.len => j + 1 \in 1 .. N
        BY <1>1, <2>1
      <4> HIDE DEF N
      <4> QED
        BY <2>1, <4>1
    <3>3. m \in [1 .. N -> S]
      BY <3>2
    <3>4. Next1(i, l) = [mem |-> m, len |-> l.len - 1]
      BY <2>3 DEF Visited
    <3> HIDE DEF m, Next1, N
    <3> QED
      BY <3>1, <3>3, <3>4
  <2> QED
    BY <2>2, <2>3
<1>3. start \in L
  OBVIOUS
<1> HIDE DEF start, L
<1>4. PICK f \in [0 .. N -> L] :
        f[0] = start /\ \A n \in 1 .. N : f[n] = Next1(n, f[n - 1])
  <2> DEFINE step == [n \in 1 .. N |-> [x \in L |-> Next1(n, x)]]
  <2>1. \A n \in 1 .. N, x \in L : step[n][x] = Next1(n, x) /\ step[n][x] \in L
    BY <1>2
  <2>2. IsStep(step, L, N)
    BY <2>1 DEF IsStep
  <2> HIDE DEF step, Next1, N
  <2>3. PICK f : Recurs(f, L, N, start, step)
    BY <1>1, <1>3, <2>2, Recursion
  <2>4. f \in [0 .. N -> L]
    BY <2>3 DEF Recurs
  <2>5. ASSUME NEW n \in 1 .. N PROVE f[n] = Next1(n, f[n - 1])
    <3>1. n - 1 \in 0 .. N
      BY <1>1
    <3>2. f[n - 1] \in L
      BY <2>4, <3>1
    <3> QED
      BY <2>1, <2>3, <3>2 DEF Recurs
  <2> QED
    BY <2>3, <2>4, <2>5 DEF Recurs
<1>5. F[0] = start /\ \A n \in 1 .. N : F[n] = Next1(n, F[n - 1])
  <2> HIDE DEF Next1, N
  <2>1. f = [n \in 0 .. N |-> IF n = 0 THEN start ELSE Next1(n, f[n - 1])]
    BY <1>1, <1>4
  <2>2. F = [n \in 0 .. N |-> IF n = 0 THEN start ELSE Next1(n, F[n - 1])]
    BY <2>1
  <2> HIDE DEF F
  <2> QED
    BY <1>1, <2>2
<1>6. \A n \in 0 .. N : F[n] = f[n]
  <2> DEFINE T == {n \in 0 .. N : F[n] = f[n]}
  <2> HIDE DEF Next1, N, F
  <2>1. 0 \in T
    BY <1>1, <1>4, <1>5
  <2>2. ASSUME NEW n \in 0 .. N - 1, n \in T PROVE n + 1 \in T
    BY <1>1, <1>4, <1>5, <2>2
  <2> HIDE DEF T
  <2>3. \A n \in 0 .. N - 1 : n \in T => n + 1 \in T
    BY <2>2
  <2>4. \A n \in 0 .. N : n \in T
    BY <1>1, <2>1, <2>3, UpTo
  <2> QED
    BY <2>4 DEF T
<1>7. Erase(list, name) = SubSeq(F[N].mem, 1, F[N].len)
  BY DEF Erase, Visited, Where, start
<1>8. Erase(list, name) = SubSeq(f[N].mem, 1, f[N].len)
  <2> HIDE DEF F, N
  <2>1. F[N] = f[N]
    BY <1>1, <1>6
  <2> QED
    BY <1>7, <2>1
<1> HIDE DEF F
<1>9. Erases(S, list, name, f)
  BY <1>4, <1>8 DEF start, L, Erases
<1> QED
  BY <1>9

\* Whatever the list, only entries of it are left.
LEMMA EraseType ==
    ASSUME NEW S, NEW list \in Seq(S), NEW name
    PROVE  Erase(list, name) \in Seq(S)
<1> DEFINE N == Len(list)
<1>0. PICK f : Erases(S, list, name, f)
  BY EraseUnfold
<1>1. /\ f \in [0 .. N -> [mem : [1 .. N -> S], len : 0 .. N]]
      /\ Erase(list, name) = SubSeq(f[N].mem, 1, f[N].len)
  BY <1>0 DEF Erases
<1>2. N \in Nat /\ f[N].mem \in [1 .. N -> S] /\ f[N].len \in 0 .. N
  <2>1. N \in 0 .. N
    OBVIOUS
  <2> QED
    BY <1>1, <2>1
<1>3. \A i \in 1 .. f[N].len : f[N].mem[i] \in S
  BY <1>2
<1>4. SubSeq(f[N].mem, 1, f[N].len) \in Seq(S)
  <2>1. 1 \in Int /\ f[N].len \in Int
    BY <1>2
  <2> HIDE DEF N
  <2> QED
    BY <1>3, <2>1, SubSeqProperties
<1> QED
  BY <1>1, <1>4

\* When no two entries have the same name, the loop takes out the one that has
\* it and no other.
LEMMA EraseOne ==
    ASSUME NEW S, NEW list \in Seq(S), NEW p \in 1 .. Len(list),
           \A i, j \in 1 .. Len(list) : list[i].seat = list[j].seat => i = j
    PROVE  LET left == Erase(list, list[p].seat) IN
           /\ Len(left) = Len(list) - 1
           /\ \A i \in 1 .. Len(list) - 1 :
                left[i] = IF i < p THEN list[i] ELSE list[i + 1]
<1> DEFINE N == Len(list)
           name == list[p].seat
           less == [j \in 1 .. N |-> IF j < N /\ p <= j THEN list[j + 1] ELSE list[j]]
<1>0. PICK f : Erases(S, list, name, f)
  BY EraseUnfold
<1>1. /\ Erase(list, name) = SubSeq(f[N].mem, 1, f[N].len)
      /\ f[0] = [mem |-> list, len |-> N]
      /\ \A i \in 1 .. N : f[i] = Visited(N, name, f[i - 1], i)
  BY <1>0 DEF Erases
<1>2. N \in Nat /\ p \in 1 .. N /\ p \in Int
  OBVIOUS
<1> DEFINE P(n) == f[n] = IF n < p THEN [mem |-> list, len |-> N]
                                   ELSE [mem |-> less, len |-> N - 1]
           T == {n \in 0 .. N : P(n)}
<1>3. 0 \in T
  BY <1>1, <1>2
<1>4. ASSUME NEW n \in 0 .. N - 1, n \in T PROVE n + 1 \in T
  <2>1. n \in 0 .. N /\ n + 1 \in 1 .. N /\ n + 1 \in 0 .. N /\ n \in Int
        /\ (n + 1) - 1 = n /\ P(n)
    <3> HIDE DEF P
    <3> QED
      BY <1>2, <1>4
  <2>2. f[n + 1] = Visited(N, name, f[n], n + 1)
    BY <1>1, <2>1
  <2>3. CASE n + 1 < p
    <3>1. f[n] = [mem |-> list, len |-> N]
      BY <1>2, <2>1, <2>3
    <3>2. list[n + 1].seat # name
      BY <1>2, <2>1, <2>3
    <3>3. f[n + 1] = f[n]
      BY <2>2, <3>1, <3>2 DEF Visited
    <3>4. P(n + 1)
      BY <2>3, <3>1, <3>3
    <3> QED
      BY <2>1, <3>4
  <2>4. CASE n + 1 = p
    <3> DEFINE l == [mem |-> list, len |-> N]
    <3>1. f[n] = l
      BY <1>2, <2>1, <2>4
    <3>2. Where(l, p) = {p}
      <4>1. \A k \in 1 .. N : list[k] = list[p] => k = p
        BY <1>2
      <4> QED
        BY <1>2, <4>1 DEF Where
    <3>3. f[n + 1] = Visited(N, name, l, p)
      BY <2>2, <2>4, <3>1
    <3>4. Visited(N, name, l, p) = [mem |-> less, len |-> N - 1]
      <4>1. l.mem[p].seat = name /\ l.mem = list /\ l.len = N
        OBVIOUS
      <4>2. [j \in 1 .. N |-> IF j < l.len /\ \E k \in Where(l, p) : k <= j
                              THEN l.mem[j + 1] ELSE l.mem[j]] = less
        BY <3>2, <4>1
      <4> HIDE DEF l, less, name
      <4> QED
        BY <3>2, <4>1, <4>2 DEF Visited
    <3>5. P(n + 1)
      BY <1>2, <2>4, <3>3, <3>4
    <3> QED
      BY <2>1, <3>5
  <2>5. CASE p < n + 1
    <3>1. f[n] = [mem |-> less, len |-> N - 1]
      BY <1>2, <2>1, <2>5
    <3>2. less[n + 1].seat # name
      <4>1. CASE n + 1 < N
        <5>1. less[n + 1] = list[n + 2] /\ n + 2 \in 1 .. N /\ n + 2 # p
          BY <1>2, <2>1, <2>5, <4>1
        <5> QED
          BY <1>2, <5>1
      <4>2. CASE n + 1 = N
        <5>1. less[n + 1] = list[n + 1] /\ n + 1 # p
          BY <1>2, <2>1, <2>5, <4>2
        <5> QED
          BY <1>2, <2>1, <5>1
      <4> QED
        BY <1>2, <2>1, <4>1, <4>2
    <3> HIDE DEF less
    <3>3. f[n + 1] = f[n]
      BY <2>2, <3>1, <3>2 DEF Visited
    <3>4. P(n + 1)
      BY <1>2, <2>1, <2>5, <3>1, <3>3
    <3> QED
      BY <2>1, <3>4
  <2> QED
    BY <1>2, <2>1, <2>3, <2>4, <2>5
<1>5. P(N)
  <2> HIDE DEF T, P
  <2>1. \A n \in 0 .. N : n \in T
    BY <1>2, <1>3, <1>4, UpTo
  <2> QED
    BY <1>2, <2>1 DEF T
<1>6. f[N] = [mem |-> less, len |-> N - 1]
  BY <1>2, <1>5
<1>7. Erase(list, name) = SubSeq(less, 1, N - 1)
  BY <1>1, <1>6
<1>8. \A i \in 1 .. N - 1 : less[i] \in S
  OBVIOUS
<1>9. \A i \in 1 .. N - 1 : less[i] = IF i < p THEN list[i] ELSE list[i + 1]
  BY <1>2
<1>10. /\ Len(SubSeq(less, 1, N - 1)) = N - 1
       /\ \A i \in 1 .. N - 1 : SubSeq(less, 1, N - 1)[i] = less[i]
  <2> HIDE DEF less, N
  <2>1. /\ Len(SubSeq(less, 1, N - 1)) = IF 1 <= N - 1 THEN N - 1 - 1 + 1 ELSE 0
        /\ \A i \in 1 .. N - 1 - 1 + 1 : SubSeq(less, 1, N - 1)[i] = less[1 + i - 1]
    <3>1. 1 \in Int /\ N - 1 \in Int
      BY <1>2
    <3> QED
      BY <1>8, <3>1, SubSeqProperties
  <2> QED
    BY <1>2, <2>1
<1> QED
  BY <1>7, <1>9, <1>10

-----------------------------------------------------------------------------
(***************************************************************************)
(* Types: logind and the bus.                                              *)
(***************************************************************************)
\* LogindSeats are never taken out of the list, so questions and answers about
\* them stay in type.
LEMMA TypesGrow ==
    ASSUME Objects \subseteq Objects'
    PROVE  /\ CallType \subseteq CallType' /\ MessageType \subseteq MessageType'
           /\ Seq(CallType) \subseteq Seq(CallType)'
           /\ Seq(MessageType) \subseteq Seq(MessageType)'
<1>1. CallType \subseteq CallType'
  BY DEF CallType
<1>2. MessageType \subseteq MessageType'
  BY DEF MessageType, Answer
<1>3. Seq(CallType) \subseteq Seq(CallType)'
  <2> HIDE DEF CallType
  <2> QED
    BY <1>1, SeqMonotonic
<1>4. Seq(MessageType) \subseteq Seq(MessageType)'
  BY <1>2, SeqMonotonic
<1> QED
  BY <1>1, <1>2, <1>3, <1>4

\* A signal of logind has the type of a message.
LEMMA SignalType ==
    ASSUME inbox \in Seq(MessageType), NEW hears, NEW m \in MessageType, Signal(hears, m)
    PROVE  inbox' \in Seq(MessageType)
  BY AppendProperties DEF Signal

\* What happens at logind keeps the types.
LEMMA LogindTypes ==
    ASSUME TypeOK, NEW s \in Seats,
           SeatAppears(s) \/ SeatVanishes(s) \/ CanGraphicalChanges(s)
    PROVE  TypeOK' /\ Objects' = Objects
<1>1. UNCHANGED <<subscribed, watched, calls, daemonVars>>
  BY DEF SeatAppears, SeatVanishes, CanGraphicalChanges
<1>2. /\ present' \subseteq Seats /\ graphical' \subseteq present'
      /\ changes' \in 0 .. MaxChanges
      /\ raced' \in BOOLEAN /\ missed' \in BOOLEAN
  <2>1. CASE SeatAppears(s)
    BY <2>1, SeatManagerAssumption DEF TypeOK, SeatAppears
  <2>2. CASE SeatVanishes(s)
    BY <2>2, SeatManagerAssumption DEF TypeOK, SeatVanishes
  <2>3. CASE CanGraphicalChanges(s)
    <3>1. changes' \in 0 .. MaxChanges /\ raced' = raced /\ present' = present
      BY <2>3, SeatManagerAssumption DEF TypeOK, CanGraphicalChanges
    <3>2. graphical' \subseteq present' /\ missed' \in BOOLEAN
      BY <2>3 DEF TypeOK, CanGraphicalChanges
    <3> QED
      BY <3>1, <3>2 DEF TypeOK
  <2> QED
    BY <2>1, <2>2, <2>3
<1>3. inbox' \in Seq(MessageType)
  <2>1. inbox \in Seq(MessageType)
    BY DEF TypeOK
  <2>2. CASE SeatAppears(s)
    <3>1. [type |-> "SeatNew", seat |-> s] \in MessageType
      BY DEF MessageType
    <3> QED
      BY <2>1, <2>2, <3>1, SignalType DEF SeatAppears
  <2>3. CASE SeatVanishes(s)
    <3>1. [type |-> "SeatRemoved", seat |-> s] \in MessageType
      BY DEF MessageType
    <3> QED
      BY <2>1, <2>3, <3>1, SignalType DEF SeatVanishes
  <2>4. CASE CanGraphicalChanges(s)
    <3>1. [type |-> "PropertiesChanged", seat |-> s, value |-> s \in graphical']
            \in MessageType
      BY DEF MessageType
    <3> QED
      BY <2>1, <2>4, <3>1, SignalType DEF CanGraphicalChanges
  <2> QED
    BY <2>2, <2>3, <2>4
<1>4. Objects' = Objects /\ CallType' = CallType /\ MessageType' = MessageType
  BY <1>1 DEF daemonVars, Objects, CallType, MessageType
<1> QED
  BY <1>1, <1>2, <1>3, <1>4 DEF TypeOK, daemonVars

\* Which call the bus takes.
Matched(i) ==
    /\ i \in 1 .. Len(calls)
    /\ IsMatch(calls[i])
    /\ \A j \in 1 .. i - 1 : ~IsMatch(calls[j])
    /\ calls' = RemoveAt(calls, i)
    /\ subscribed' = (subscribed \/ calls[i].op = "subscribe")
    /\ watched' = CASE calls[i].op = "watch" -> watched \union {calls[i].seat}
                    [] calls[i].op = "unwatch" -> watched \ {calls[i].seat}
                    [] OTHER -> watched
    /\ UNCHANGED <<logindVars, inbox, daemonVars, historyVars>>

\* The bus takes one of the calls that change the subscriptions.
LEMMA BusMatched == BusMatches => \E i : Matched(i)
  BY DEF BusMatches, Matched

\* So does what the bus does.
LEMMA MatchedTypes ==
    ASSUME TypeOK, NEW i, Matched(i)
    PROVE  TypeOK' /\ Objects' = Objects
<1>1. UNCHANGED <<logindVars, inbox, daemonVars, historyVars>>
  BY DEF Matched
<1>2. Objects' = Objects /\ CallType' = CallType /\ MessageType' = MessageType
  BY <1>1 DEF daemonVars, Objects, CallType, MessageType
<1>3. calls \in Seq(CallType) /\ i \in 1 .. Len(calls)
  BY DEF TypeOK, Matched
<1>4. calls' \in Seq(CallType)
  BY <1>3, RemoveAtProperties DEF Matched
<1>5. calls[i] \in CallType
  BY <1>3, ElementOfSeq
<1>6. subscribed' \in BOOLEAN
  BY DEF TypeOK, Matched
<1>7. watched' \subseteq Seats
  <2>1. calls[i].op \in {"watch", "unwatch"} => calls[i].seat \in Seats
    BY <1>5 DEF CallType
  <2> QED
    BY <2>1 DEF TypeOK, Matched
<1> QED
  BY <1>1, <1>2, <1>4, <1>6, <1>7 DEF TypeOK, daemonVars, logindVars, historyVars

\* So do the answers.
LEMMA AnswersTypes ==
    ASSUME TypeOK, LogindAnswers
    PROVE  TypeOK' /\ Objects' = Objects
<1>1. UNCHANGED <<logindVars, subscribed, watched, daemonVars, historyVars>>
  BY DEF LogindAnswers
<1>2. Objects' = Objects /\ CallType' = CallType /\ MessageType' = MessageType
  BY <1>1 DEF daemonVars, Objects, CallType, MessageType
<1>3. calls \in Seq(CallType) /\ calls # <<>>
  BY DEF TypeOK, LogindAnswers
<1>4. calls' \in Seq(CallType) /\ Head(calls) \in CallType
  BY <1>3, HeadTailProperties DEF LogindAnswers
<1>5. inbox' \in Seq(MessageType)
  <2>1. inbox \in Seq(MessageType)
    BY DEF TypeOK
  <2>2. CASE Head(calls).op = "ListSeats"
    <3>1. [type |-> "ListSeats", seats |-> present] \in MessageType
      BY DEF TypeOK, MessageType
    <3> QED
      BY <2>1, <2>2, <3>1, AppendProperties DEF LogindAnswers
  <2>3. CASE Head(calls).op # "ListSeats"
    <3>1. Head(calls).op = "Get" /\ Head(calls).object \in Objects
      BY <1>4, <2>3 DEF CallType, LogindAnswers, IsMatch
    <3>2. CanGraphical(logindSeats[Head(calls).object].seat) \in Answer
      BY DEF CanGraphical, Answer
    <3>3. [type |-> "Get", object |-> Head(calls).object,
           value |-> CanGraphical(logindSeats[Head(calls).object].seat)] \in MessageType
      BY <3>1, <3>2 DEF MessageType
    <3> QED
      BY <2>1, <2>3, <3>3, AppendProperties DEF LogindAnswers
  <2> QED
    BY <2>2, <2>3
<1> QED
  BY <1>1, <1>2, <1>4, <1>5 DEF TypeOK, daemonVars, logindVars, historyVars

-----------------------------------------------------------------------------
(***************************************************************************)
(* Types: the daemon.                                                      *)
(***************************************************************************)
\* What the daemon's own steps leave alone.
Frame == UNCHANGED <<logindVars, subscribed, watched, historyVars>>

\* The part of the types about Seats and their objects on D-Bus.
SeatTypes ==
    /\ managed \subseteq Seats
    /\ running \in [Seats -> Nat]
    /\ exported \in Seq([seat : Seats, object : Nat])
    /\ Counted

\* SeatManager::createSeat keeps them.
LEMMA CreateTypes ==
    ASSUME SeatTypes, NEW s \in Seats, NEW k \in Nat, CreateSeat(s, k)
    PROVE  SeatTypes'
<1>1. running' \in [Seats -> Nat] /\ \A x \in Seats : running'[x] >= running[x]
      /\ running'[s] = running[s] + k
  BY DEF CreateSeat, SeatTypes
<1>2. managed' \subseteq Seats
  BY DEF CreateSeat, SeatTypes
<1>3. exported' \in Seq([seat : Seats, object : Nat])
  <2> DEFINE new == [i \in 1 .. k |-> [seat |-> s, object |-> running[s] + i]]
             E == [seat : Seats, object : Nat]
  <2>1. running[s] \in Nat
    BY DEF SeatTypes
  <2>2. \A i \in 1 .. k : [seat |-> s, object |-> running[s] + i] \in E
    BY <2>1
  <2>3. new \in Seq(E)
    <3>1. new \in [1 .. k -> E]
      BY <2>2
    <3> HIDE DEF new, E
    <3> QED
      BY <3>1
  <2>4. exported' = exported \o new /\ exported \in Seq(E)
    BY DEF CreateSeat, SeatTypes
  <2> HIDE DEF new, E
  <2>5. exported' \in Seq(E)
    BY <2>3, <2>4, ConcatProperties
  <2> QED
    BY <2>5 DEF E
<1>4. Counted'
  <2>1. ASSUME NEW x \in managed' PROVE running'[x] > 0
    <3>1. CASE x \in managed
      <4>1. x \in Seats /\ running[x] \in Nat /\ running[x] > 0
        BY <3>1 DEF SeatTypes, Counted
      <4> QED
        BY <1>1, <4>1
    <3>2. CASE x \notin managed
      <4>1. x = s /\ k > 0
        BY <3>2 DEF CreateSeat
      <4>2. running[s] \in Nat
        BY DEF SeatTypes
      <4> QED
        BY <1>1, <4>1, <4>2
    <3> QED
      BY <3>1, <3>2
  <2> QED
    BY <2>1 DEF Counted
<1> QED
  BY <1>1, <1>2, <1>3, <1>4 DEF SeatTypes

\* SeatManager::removeSeat keeps them.
LEMMA RemoveTypes ==
    ASSUME SeatTypes, NEW s \in Seats, RemoveSeat(s)
    PROVE  SeatTypes'
<1>1. CASE s \in managed
  <2>1. running' = [running EXCEPT ![s] = @ - 1] /\ managed' = managed \ {s}
        /\ exported' = Erase(exported, s)
    BY <1>1 DEF RemoveSeat
  <2>2. running[s] \in Nat /\ running[s] > 0
    BY <1>1 DEF SeatTypes, Counted
  <2>3. running' \in [Seats -> Nat]
    BY <2>1, <2>2 DEF SeatTypes
  <2>4. \A x \in managed' : running'[x] > 0
    BY <2>1 DEF SeatTypes, Counted
  <2>5. exported' \in Seq([seat : Seats, object : Nat])
    BY <2>1, EraseType DEF SeatTypes
  <2> QED
    BY <2>1, <2>3, <2>4, <2>5 DEF SeatTypes, Counted
<1>2. CASE s \notin managed
  BY <1>2 DEF RemoveSeat, SeatTypes, Counted
<1> QED
  BY <1>1, <1>2

\* So does what leaves them alone.
LEMMA StillTypes ==
    ASSUME SeatTypes, UNCHANGED <<running, managed, exported>>
    PROVE  SeatTypes'
  BY DEF SeatTypes, Counted

\* The first message is taken out.
LEMMA Received ==
    ASSUME TypeOK, NEW type, Receive(type)
    PROVE  /\ inbox # <<>> /\ Head(inbox) \in MessageType /\ Head(inbox) = inbox[1]
           /\ Head(inbox).type = type
           /\ inbox' \in Seq(MessageType) /\ inbox' = Tail(inbox)
           /\ Len(inbox') = Len(inbox) - 1 /\ Len(inbox) \in Nat \ {0}
           /\ \A n \in 1 .. Len(inbox) - 1 : inbox'[n] = inbox[n + 1]
<1>1. inbox \in Seq(MessageType) /\ inbox # <<>> /\ inbox' = Tail(inbox)
      /\ Head(inbox).type = type
  BY DEF TypeOK, Receive
<1>2. /\ Head(inbox) \in MessageType /\ Tail(inbox) \in Seq(MessageType)
      /\ Len(Tail(inbox)) = Len(inbox) - 1
      /\ \A i \in 1 .. Len(Tail(inbox)) : Tail(inbox)[i] = inbox[i + 1]
  BY <1>1, HeadTailProperties
<1>3. Len(inbox) \in Nat \ {0} /\ Head(inbox) = inbox[1]
  <2> HIDE DEF MessageType
  <2> QED
    BY <1>1, EmptySeq
<1> QED
  BY <1>1, <1>2, <1>3

\* What LogindSeatsAdded does to the LogindSeats.
LEMMA Added ==
    ASSUME TypeOK, NEW q \in Seq(Seats), LogindSeatsAdded(q)
    PROVE  /\ logindSeats' \in Seq(LogindSeat)
           /\ Len(logindSeats') = Len(logindSeats) + Len(q)
           /\ Objects \subseteq Objects'
           /\ \A i \in Objects : logindSeats'[i] = logindSeats[i]
           /\ \A i \in 1 .. Len(q) : logindSeats'[Len(logindSeats) + i] =
                [seat |-> q[i], canGraphical |-> FALSE, alive |-> TRUE]
<1> DEFINE new == [i \in 1 .. Len(q) |->
                     [seat |-> q[i], canGraphical |-> FALSE, alive |-> TRUE]]
<1>1. logindSeats \in Seq(LogindSeat) /\ logindSeats' = logindSeats \o new
  BY DEF TypeOK, LogindSeatsAdded
<1>2. new \in Seq(LogindSeat) /\ Len(new) = Len(q)
  <2>1. \A i \in 1 .. Len(q) : q[i] \in Seats
    OBVIOUS
  <2>2. \A i \in 1 .. Len(q) :
          [seat |-> q[i], canGraphical |-> FALSE, alive |-> TRUE] \in LogindSeat
    BY <2>1 DEF LogindSeat
  <2>3. new \in [1 .. Len(q) -> LogindSeat] /\ Len(q) \in Nat
    BY <2>2
  <2> HIDE DEF new
  <2> QED
    BY <2>3
<1>3. /\ logindSeats' \in Seq(LogindSeat)
      /\ Len(logindSeats') = Len(logindSeats) + Len(new)
      /\ \A i \in 1 .. Len(logindSeats) + Len(new) : logindSeats'[i] =
           IF i <= Len(logindSeats) THEN logindSeats[i] ELSE new[i - Len(logindSeats)]
  <2> HIDE DEF new
  <2> QED
    BY <1>1, <1>2, ConcatProperties
<1>4. Len(logindSeats) \in Nat /\ Len(q) \in Nat
  BY <1>1
<1>5. \A i \in Objects : logindSeats'[i] = logindSeats[i]
  <2> HIDE DEF new
  <2> QED
    BY <1>2, <1>3, <1>4 DEF Objects
<1>6. \A i \in 1 .. Len(q) : logindSeats'[Len(logindSeats) + i] = new[i]
  <2> HIDE DEF new
  <2> QED
    BY <1>2, <1>3, <1>4
<1>7. Objects \subseteq Objects'
  <2> HIDE DEF new
  <2> QED
    BY <1>2, <1>3, <1>4 DEF Objects
<1> QED
  BY <1>2, <1>3, <1>5, <1>6, <1>7

\* LogindSeatsAdded keeps the types.
LEMMA AddedTypes ==
    ASSUME TypeOK, Counted, NEW q \in Seq(Seats), LogindSeatsAdded(q), Frame,
           inbox' \in Seq(MessageType)
    PROVE  TypeOK' /\ Counted'
<1>1. /\ logindSeats' \in Seq(LogindSeat)
      /\ Len(logindSeats') = Len(logindSeats) + Len(q)
      /\ Objects \subseteq Objects'
  BY Added
<1>2. Seq(CallType) \subseteq Seq(CallType)' /\ Seq(MessageType) \subseteq Seq(MessageType)'
  BY <1>1, TypesGrow
<1>3. systemSeats' \in [Seats -> {0} \union Objects']
  <2> DEFINE at(s) == CHOOSE i \in 1 .. Len(q) : q[i] = s
             has(s) == \E i \in 1 .. Len(q) : q[i] = s
  <2>1. systemSeats' = [s \in Seats |->
          IF has(s) THEN Len(logindSeats) + at(s) ELSE systemSeats[s]]
    BY DEF LogindSeatsAdded
  <2>2. ASSUME NEW s \in Seats, has(s) PROVE Len(logindSeats) + at(s) \in Objects'
    <3>1. at(s) \in 1 .. Len(q)
      BY <2>2
    <3>2. Len(logindSeats) \in Nat /\ Len(q) \in Nat
      BY DEF TypeOK
    <3> HIDE DEF at
    <3> QED
      BY <1>1, <3>1, <3>2 DEF Objects
  <2>3. ASSUME NEW s \in Seats PROVE systemSeats[s] \in {0} \union Objects'
    BY <1>1 DEF TypeOK
  <2> HIDE DEF at, has
  <2> QED
    BY <2>1, <2>2, <2>3
<1>4. calls' \in Seq(CallType)'
  <2>1. calls' = calls \o Asked(q)
    BY DEF LogindSeatsAdded
  <2>2. calls \in Seq(CallType)'
    BY <1>2 DEF TypeOK
  <2>3. Asked(q) \in Seq(NewCalls(q))
    BY AskedProperties DEF TypeOK
  <2>4. NewCalls(q) \subseteq CallType'
    <3>1. Len(logindSeats) \in Nat /\ Len(q) \in Nat
      BY DEF TypeOK
    <3>2. \A i \in Len(logindSeats) + 1 .. Len(logindSeats) + Len(q) : i \in Objects'
      BY <1>1, <3>1 DEF Objects
    <3> QED
      BY <3>2 DEF NewCalls, Watch, Get, CallType
  <2>5. Asked(q) \in Seq(CallType)'
    BY <2>3, <2>4, SeqMonotonic
  <2> QED
    BY <2>1, <2>2, <2>5, ConcatProperties
<1>5. UNCHANGED <<managed, running, exported>>
  BY DEF LogindSeatsAdded
<1>6. Counted'
  BY <1>5 DEF Counted
<1> QED
  BY <1>1, <1>2, <1>3, <1>4, <1>5, <1>6 DEF TypeOK, Frame, logindVars, historyVars

\* Every step of the daemon keeps the types, and a Seat for each seat in m_seats.
LEMMA DaemonTypes ==
    ASSUME TypeOK, Counted, Daemon
    PROVE  TypeOK' /\ Counted'
<1>1. Frame
  BY DEF Daemon, Frame
<1>2. SeatTypes
  BY DEF SeatTypes, TypeOK
<1>3. ASSUME SeatTypes', Objects' = Objects, inbox' \in Seq(MessageType),
             calls' \in Seq(CallType), logindSeats' \in Seq(LogindSeat),
             systemSeats' \in [Seats -> {0} \union Objects]
      PROVE  TypeOK' /\ Counted'
  <2>1. CallType' = CallType /\ MessageType' = MessageType
    BY <1>3 DEF CallType, MessageType
  <2> QED
    BY <1>1, <1>3, <2>1 DEF TypeOK, SeatTypes, Frame, logindVars, historyVars
<1>4. CASE ReceiveList
  <2>1. Head(inbox) \in MessageType /\ Head(inbox).type = "ListSeats" /\ inbox' \in Seq(MessageType)
    BY <1>4, Received DEF ReceiveList
  <2>2. Head(inbox).seats \subseteq Seats
    BY <2>1 DEF MessageType
  <2>3. IsFiniteSet(Head(inbox).seats)
    BY <2>2, SeatManagerAssumption, FS_Subset
  <2>4. SetToSeq(Head(inbox).seats) \in Seq(Seats)
    BY <2>2, <2>3, SetToSeqProperties, SeqMonotonic
  <2> QED
    BY <1>1, <1>4, <2>1, <2>4, AddedTypes DEF ReceiveList
<1>5. CASE ReceiveSeatNew
  <2>1. Head(inbox) \in MessageType /\ Head(inbox).type = "SeatNew" /\ inbox' \in Seq(MessageType)
    BY <1>5, Received DEF ReceiveSeatNew
  <2>2. Head(inbox).seat \in Seats
    BY <2>1 DEF MessageType
  <2>3. <<Head(inbox).seat>> \in Seq(Seats)
    BY <2>2
  <2> QED
    BY <1>1, <1>5, <2>1, <2>3, AddedTypes DEF ReceiveSeatNew
<1>6. CASE ReceiveSeatRemoved
  <2>1. /\ Head(inbox) \in MessageType /\ Head(inbox).type = "SeatRemoved"
        /\ inbox' \in Seq(MessageType)
    BY <1>6, Received DEF ReceiveSeatRemoved
  <2> DEFINE s == Head(inbox).seat
             i == systemSeats[s]
  <2>2. s \in Seats
    BY <2>1 DEF MessageType
  <2>3. /\ systemSeats' = [systemSeats EXCEPT ![s] = 0]
        /\ logindSeats' = IF i = 0 THEN logindSeats ELSE [logindSeats EXCEPT ![i].alive = FALSE]
        /\ calls' = IF AliveFor(s) \ {i} = {} /\ i # 0
                      THEN Append(calls, [op |-> "unwatch", seat |-> s]) ELSE calls
        /\ RemoveSeat(s)
    BY <1>6 DEF ReceiveSeatRemoved
  <2> HIDE DEF s
  <2>4. SeatTypes'
    BY <1>2, <2>2, <2>3, RemoveTypes
  <2>5. systemSeats' \in [Seats -> {0} \union Objects]
    BY <2>3 DEF TypeOK
  <2>6. logindSeats' \in Seq(LogindSeat) /\ Objects' = Objects
    <3>1. CASE i = 0
      BY <2>3, <3>1 DEF TypeOK, Objects
    <3>2. CASE i # 0
      <4>1. i \in 1 .. Len(logindSeats) /\ logindSeats \in Seq(LogindSeat)
        BY <2>2, <3>2 DEF TypeOK, Objects
      <4> DEFINE e == [logindSeats[i] EXCEPT !.alive = FALSE]
      <4>2. e \in LogindSeat
        <5>1. logindSeats[i] \in LogindSeat
          BY <4>1, ElementOfSeq
        <5> HIDE DEF i
        <5> QED
          BY <5>1 DEF LogindSeat
      <4>3. logindSeats' = [logindSeats EXCEPT ![i] = e]
        BY <2>3, <3>2
      <4> HIDE DEF e, i
      <4> QED
        BY <4>1, <4>2, <4>3, ExceptSeq DEF Objects
    <3> QED
      BY <3>1, <3>2
  <2>7. calls' \in Seq(CallType)
    <3>1. [op |-> "unwatch", seat |-> s] \in CallType
      BY <2>2 DEF CallType
    <3> QED
      BY <2>3, <3>1, AppendProperties DEF TypeOK
  <2> QED
    BY <1>3, <2>1, <2>4, <2>5, <2>6, <2>7
<1>7. CASE ReceivePropertiesChanged
  <2>1. Head(inbox) \in MessageType /\ Head(inbox).type = "PropertiesChanged"
        /\ inbox' \in Seq(MessageType)
    BY <1>7, Received DEF ReceivePropertiesChanged
  <2> DEFINE s == Head(inbox).seat
             v == Head(inbox).value
  <2>2. s \in Seats /\ v \in BOOLEAN
    BY <2>1 DEF MessageType
  <2>3. /\ logindSeats' = [i \in Objects |->
               IF Alive(i, s) THEN [logindSeats[i] EXCEPT !.canGraphical = v]
                              ELSE logindSeats[i]]
        /\ \/ CreateSeat(s, Cardinality(AliveFor(s)))
           \/ RemoveSeat(s)
           \/ UNCHANGED <<running, managed, exported>>
        /\ UNCHANGED <<systemSeats, calls>>
    BY <1>7 DEF ReceivePropertiesChanged
  <2> HIDE DEF s, v
  <2>4. Cardinality(AliveFor(s)) \in Nat
    <3>1. AliveFor(s) \in SUBSET Objects
      BY DEF AliveFor
    <3>2. IsFiniteSet(Objects)
      <4>1. Len(logindSeats) \in Int
        BY DEF TypeOK
      <4> QED
        BY <4>1, FS_Interval DEF Objects
    <3> QED
      BY <3>1, <3>2, FS_Subset, FS_CardinalityType
  <2>5. SeatTypes'
    BY <1>2, <2>2, <2>3, <2>4, CreateTypes, RemoveTypes, StillTypes
  <2>6. logindSeats' \in Seq(LogindSeat) /\ Objects' = Objects
    <3>1. ASSUME NEW i \in Objects PROVE logindSeats'[i] \in LogindSeat
      <4>1. logindSeats[i] \in LogindSeat
        BY <3>1 DEF TypeOK, Objects
      <4>2. [logindSeats[i] EXCEPT !.canGraphical = v] \in LogindSeat
        BY <2>2, <4>1 DEF LogindSeat
      <4> QED
        BY <2>3, <4>1, <4>2
    <3>2. logindSeats' \in [1 .. Len(logindSeats) -> LogindSeat] /\ Len(logindSeats) \in Nat
      <4>1. Len(logindSeats) \in Nat
        BY DEF TypeOK
      <4> QED
        BY <2>3, <3>1, <4>1 DEF Objects
    <3> QED
      BY <3>2 DEF Objects
  <2> QED
    BY <1>3, <2>1, <2>3, <2>5, <2>6 DEF TypeOK
<1>8. CASE ReceiveGet
  <2>1. Head(inbox) \in MessageType /\ Head(inbox).type = "Get" /\ inbox' \in Seq(MessageType)
    BY <1>8, Received DEF ReceiveGet
  <2> DEFINE i == Head(inbox).object
             v == Head(inbox).value
  <2>2. i \in Objects
    BY <2>1 DEF MessageType
  <2>3. logindSeats \in Seq(LogindSeat) /\ i \in 1 .. Len(logindSeats)
        /\ logindSeats[i] \in LogindSeat
    BY <2>2 DEF TypeOK, Objects
  <2>4. UNCHANGED <<systemSeats, calls>>
    BY <1>8 DEF ReceiveGet
  <2>5. CASE v # "none" /\ logindSeats[i].alive /\ logindSeats[i].canGraphical # (v = "yes")
    <3>1. /\ logindSeats' = [logindSeats EXCEPT ![i].canGraphical = (v = "yes")]
          /\ CreateSeat(logindSeats[i].seat, 1) \/ RemoveSeat(logindSeats[i].seat)
      BY <1>8, <2>5 DEF ReceiveGet
    <3>2. logindSeats[i].seat \in Seats
      BY <2>3 DEF LogindSeat
    <3>3. SeatTypes'
      BY <1>2, <3>1, <3>2, CreateTypes, RemoveTypes
    <3> DEFINE e == [logindSeats[i] EXCEPT !.canGraphical = (v = "yes")]
    <3>4. e \in LogindSeat
      BY <2>3 DEF LogindSeat
    <3>5. logindSeats' = [logindSeats EXCEPT ![i] = e]
      BY <3>1
    <3> HIDE DEF e, i
    <3>6. logindSeats' \in Seq(LogindSeat) /\ Objects' = Objects
      BY <2>3, <3>4, <3>5, ExceptSeq DEF Objects
    <3> QED
      BY <1>3, <2>1, <2>4, <3>3, <3>6 DEF TypeOK
  <2>6. CASE ~ (v # "none" /\ logindSeats[i].alive /\ logindSeats[i].canGraphical # (v = "yes"))
    <3>1. UNCHANGED <<logindSeats, running, managed, exported>>
      BY <1>8, <2>6 DEF ReceiveGet
    <3>2. SeatTypes' /\ Objects' = Objects
      BY <1>2, <3>1, StillTypes DEF Objects
    <3> QED
      BY <1>3, <2>1, <2>4, <3>1, <3>2 DEF TypeOK
  <2> QED
    BY <2>5, <2>6
<1> QED
  BY <1>4, <1>5, <1>6, <1>7, <1>8 DEF Daemon

-----------------------------------------------------------------------------
(***************************************************************************)
(* The forecast.                                                           *)
(***************************************************************************)
\* With another message at its end the forecast goes on.
LEMMA Extend ==
    ASSUME TypeOK, TypeOK', NEW s \in Seats, NEW f, Forecast(s, f), NEW m \in MessageType,
           NEW N, N = Len(inbox), NEW last, last = f[N],
           inbox' = Append(inbox, m), UNCHANGED <<systemSeats, logindSeats>>,
           Announces(m, s) => last = "none"
    PROVE  \E g : /\ Forecast(s, g)'
                  /\ Len(inbox') = N + 1 /\ inbox'[N + 1] = m
                  /\ g[N + 1] = Hears(s, N + 1, last)'
                  /\ \A n \in 0 .. N : g[n] = f[n]
<1>1. N \in Nat /\ inbox \in Seq(MessageType)
  BY DEF TypeOK
<1>2. /\ Len(inbox') = N + 1 /\ inbox'[N + 1] = m
      /\ \A n \in 1 .. N : inbox'[n] = inbox[n]
  BY <1>1, AppendProperties
<1>3. PICK h : h = Hears(s, N + 1, last)'
  OBVIOUS
<1>4. PICK g : g = [n \in 0 .. N + 1 |-> IF n <= N THEN f[n] ELSE h]
  OBVIOUS
<1>5. f \in [0 .. N -> Answer] /\ f[0] = Now(s)
      /\ \A n \in 1 .. N : /\ f[n] = Hears(s, n, f[n - 1])
                           /\ Announces(inbox[n], s) => f[n - 1] = "none"
  BY DEF Forecast
<1>6. h \in Answer
  <2>1. last \in Answer
    BY <1>1, <1>5
  <2>2. inbox'[N + 1] \in MessageType
    BY <1>2
  <2>3. inbox'[N + 1].type = "Get" => inbox'[N + 1].value \in Answer
    BY <2>2 DEF MessageType
  <2>4. Tells(s, N + 1)' => inbox'[N + 1].value \in Answer
    BY <2>3 DEF Tells
  <2>5. h \in {"no", "none", "yes", inbox'[N + 1].value, last}
        /\ (h \in {"no", "none", "yes", last} \/ Tells(s, N + 1)')
    BY <1>3 DEF Hears
  <2>6. (h = inbox'[N + 1].value /\ Tells(s, N + 1)') \/ h \in {"no", "none", "yes", last}
    BY <2>5, <1>3 DEF Hears
  <2> QED
    BY <2>1, <2>4, <2>6 DEF Answer
<1>7. g \in [0 .. N + 1 -> Answer] /\ g[N + 1] = h /\ \A n \in 0 .. N : g[n] = f[n]
  BY <1>1, <1>4, <1>5, <1>6
<1>8. g[0] = Now(s)'
  BY <1>1, <1>5, <1>7 DEF Now
<1>9. ASSUME NEW n \in 1 .. N
      PROVE  /\ g[n] = Hears(s, n, g[n - 1])'
             /\ Announces(inbox'[n], s) => g[n - 1] = "none"
  <2>1. n \in 0 .. N /\ n - 1 \in 0 .. N
    BY <1>1
  <2>2. inbox'[n] = inbox[n]
    BY <1>2
  <2>3. Tells(s, n)' <=> Tells(s, n)
    <3>1. \A k \in 1 .. n - 1 : inbox'[k] = inbox[k]
      BY <1>1, <1>2
    <3> QED
      BY <2>2, <3>1 DEF Tells, Dismisses
  <2>4. Hears(s, n, f[n - 1])' = Hears(s, n, f[n - 1])
    BY <2>2, <2>3 DEF Hears, Announces, Dismisses, Changes
  <2>5. f[n] = Hears(s, n, f[n - 1]) /\ (Announces(inbox[n], s) => f[n - 1] = "none")
    BY <1>5
  <2>6. g[n] = f[n] /\ g[n - 1] = f[n - 1]
    BY <1>7, <2>1
  <2> QED
    BY <2>6, <2>2, <2>4, <2>5
<1>10. /\ g[N + 1] = Hears(s, N + 1, g[N + 1 - 1])'
       /\ Announces(inbox'[N + 1], s) => g[N + 1 - 1] = "none"
  <2>1. N + 1 - 1 = N /\ N \in 0 .. N
    BY <1>1
  <2>2. g[N + 1 - 1] = last
    BY <1>7, <2>1
  <2> QED
    BY <1>2, <1>3, <1>7, <2>2
<1>11. Forecast(s, g)'
  <2>1. \A n \in 1 .. N + 1 : n \in 1 .. N \/ n = N + 1
    BY <1>1
  <2>2. \A n \in 1 .. N + 1 : /\ g[n] = Hears(s, n, g[n - 1])'
                              /\ Announces(inbox'[n], s) => g[n - 1] = "none"
    BY <1>9, <1>10, <2>1
  <2> QED
    BY <1>2, <1>7, <1>8, <2>2 DEF Forecast, Answer
<1> QED
  BY <1>2, <1>3, <1>7, <1>11

\* The first message taken out, the forecast starts after it.
LEMMA Shift ==
    ASSUME TypeOK, NEW s \in Seats, NEW f, Forecast(s, f), NEW type, Receive(type),
           Now(s)' = Hears(s, 1, Now(s)),
           \A n \in 1 .. Len(inbox) - 1 : Tells(s, n)' <=> Tells(s, n + 1)
    PROVE  \E g : /\ Forecast(s, g)'
                  /\ \A n \in 0 .. Len(inbox) - 1 : g[n] = f[n + 1]
<1> DEFINE N == Len(inbox)
<1>1. /\ N \in Nat \ {0} /\ Len(inbox') = N - 1
      /\ \A n \in 1 .. N - 1 : inbox'[n] = inbox[n + 1]
  BY Received
<1>2. PICK g : g = [n \in 0 .. N - 1 |-> f[n + 1]]
  OBVIOUS
<1>3. f \in [0 .. N -> Answer]
  BY DEF Forecast
<1>4. g \in [0 .. N - 1 -> Answer] /\ \A n \in 0 .. N - 1 : g[n] = f[n + 1]
  BY <1>1, <1>2, <1>3
<1>5. g[0] = Now(s)'
  <2>1. f[1] = Hears(s, 1, f[0]) /\ f[0] = Now(s) /\ g[0] = f[1]
    <3>1. 1 \in 1 .. N /\ 0 \in 0 .. N - 1
      BY <1>1
    <3> QED
      BY <1>4, <3>1 DEF Forecast
  <2> QED
    BY <2>1
<1>6. ASSUME NEW n \in 1 .. N - 1
      PROVE  /\ g[n] = Hears(s, n, g[n - 1])'
             /\ Announces(inbox'[n], s) => g[n - 1] = "none"
  <2>1. n + 1 \in 1 .. N /\ n \in 0 .. N - 1 /\ n - 1 \in 0 .. N - 1 /\ (n + 1) - 1 = n
        /\ (n - 1) + 1 = n
    BY <1>1
  <2>2. inbox'[n] = inbox[n + 1] /\ (Tells(s, n)' <=> Tells(s, n + 1))
    BY <1>1
  <2>3. Hears(s, n, f[n])' = Hears(s, n + 1, f[n])
    BY <2>2 DEF Hears, Announces, Dismisses, Changes
  <2>4. f[n + 1] = Hears(s, n + 1, f[n]) /\ (Announces(inbox[n + 1], s) => f[n] = "none")
    BY <2>1 DEF Forecast
  <2>5. g[n] = f[n + 1] /\ g[n - 1] = f[n]
    BY <1>4, <2>1
  <2> QED
    BY <2>2, <2>3, <2>4, <2>5
<1>7. Forecast(s, g)'
  <2> HIDE DEF N
  <2> QED
    BY <1>1, <1>4, <1>5, <1>6 DEF Forecast, Answer
<1> QED
  BY <1>4, <1>7

-----------------------------------------------------------------------------
(***************************************************************************)
(* Seats come and go.                                                      *)
(***************************************************************************)
\* A signal on its way to the daemon, and nothing else that it depends on, leaves
\* the LogindSeats and their subscriptions alone.
LEMMA SentKeeps ==
    ASSUME TypeOK, NEW s \in Seats, NEW m, m.type # "Get", inbox' = Append(inbox, m),
           m \in MessageType,
           UNCHANGED <<watched, calls, systemSeats, logindSeats>>, OneObject(s), Listens(s)
    PROVE  OneObject(s)' /\ Listens(s)'
<1>1. /\ Len(inbox') = Len(inbox) + 1 /\ inbox'[Len(inbox) + 1] = m
      /\ Len(inbox) \in Nat
      /\ \A n \in 1 .. Len(inbox) : inbox'[n] = inbox[n]
  <2>1. inbox \in Seq(MessageType)
    BY DEF TypeOK
  <2> HIDE DEF MessageType
  <2> QED
    BY <2>1, AppendProperties
<1>2. OneObject(s)'
  BY DEF OneObject, AliveFor, Alive, Objects
<1>3. ASSUME NEW i, \A n \in 1 .. Len(inbox) : ~(inbox[n].type = "Get" /\ inbox[n].object = i)
      PROVE  \A n \in 1 .. Len(inbox') : ~(inbox'[n].type = "Get" /\ inbox'[n].object = i)
  <2>1. \A n \in 1 .. Len(inbox') : n \in 1 .. Len(inbox) \/ n = Len(inbox) + 1
    BY <1>1
  <2> QED
    BY <1>1, <1>3, <2>1
<1>4. Listens(s)'
  BY <1>3 DEF Listens, Matches, Asks
<1> QED
  BY <1>2, <1>4

\* Nor does it matter to a seat that it is not about.
LEMMA SentElsewhere ==
    ASSUME TypeOK, TypeOK', NEW s \in Seats, NEW m \in MessageType, m.type # "Get",
           ~Announces(m, s), ~Dismisses(m, s), ~Changes(m, s), inbox' = Append(inbox, m),
           UNCHANGED <<watched, calls, systemSeats, logindSeats>>,
           s \in present' <=> s \in present, s \in graphical' <=> s \in graphical,
           missed => missed', SeatInv(s)
    PROVE  SeatInv(s)'
<1>1. PICK N : N = Len(inbox)
  OBVIOUS
<1>2. PICK f : /\ Forecast(s, f) /\ Settles(s, f[N])
               /\ ~missed => /\ \A n \in 1 .. N :
                                  Changes(inbox[n], s) /\ inbox[n].value => f[n - 1] # "yes"
                             /\ f[N] = "yes" => s \in graphical
  BY <1>1 DEF SeatInv, Foreseen, Alternates
<1>3. PICK last : last = f[N]
  OBVIOUS
<1>4. PICK g : /\ Forecast(s, g)'
               /\ Len(inbox') = N + 1 /\ inbox'[N + 1] = m
               /\ g[N + 1] = Hears(s, N + 1, last)'
               /\ \A n \in 0 .. N : g[n] = f[n]
  BY <1>1, <1>2, <1>3, Extend
<1>5. N \in Nat /\ \A n \in 1 .. N : inbox'[n] = inbox[n]
  <2>1. inbox \in Seq(MessageType)
    BY DEF TypeOK
  <2> HIDE DEF MessageType
  <2> QED
    BY <1>1, <2>1, AppendProperties
<1>6. g[N + 1] = last
  BY <1>4 DEF Hears, Announces, Dismisses, Changes, Tells
<1>7. Asking(s) => Asking(s)'
  <2>1. \A n \in 1 .. N : n \in 1 .. N + 1
    BY <1>5
  <2> QED
    BY <1>1, <1>4, <1>5, <2>1 DEF Asking, Announces
<1>8. Settles(s, g[Len(inbox)])'
  <2>1. Unlisted' <=> Unlisted
    BY DEF Unlisted
  <2>2. CanGraphical(s)' = CanGraphical(s)
    BY DEF CanGraphical
  <2>3. g[Len(inbox')] = f[N]
    BY <1>3, <1>4, <1>6
  <2> QED
    BY <1>2, <1>7, <2>1, <2>2, <2>3 DEF Settles
<1>9. ~missed' => Alternates(s, g)'
  <2> SUFFICES ASSUME ~missed' PROVE Alternates(s, g)'
    OBVIOUS
  <2>1. ASSUME NEW n \in 1 .. Len(inbox'), Changes(inbox'[n], s), inbox'[n].value
        PROVE  g[n - 1] # "yes"
    <3>1. n \in 1 .. N /\ n - 1 \in 0 .. N
      <4>1. n # N + 1
        BY <1>4, <2>1
      <4> QED
        BY <1>4, <1>5, <4>1
    <3> QED
      BY <1>2, <1>4, <1>5, <2>1, <3>1
  <2>2. g[Len(inbox')] = f[N]
    BY <1>3, <1>4, <1>6
  <2> QED
    BY <1>2, <2>1, <2>2 DEF Alternates, Changes
<1>10. Foreseen(s)'
  BY <1>4, <1>8, <1>9 DEF Foreseen
<1>11. Returns(s)'
  <2> SUFFICES ASSUME NEW n \in 1 .. Len(inbox'), Dismisses(inbox'[n], s), s \in present'
               PROVE  \E k \in n + 1 .. Len(inbox') :
                        inbox'[k] = [type |-> "SeatNew", seat |-> s]
    BY DEF Returns, Dismisses
  <2>1. n \in 1 .. N
    <3>1. n # N + 1
      BY <1>4
    <3> QED
      BY <1>4, <1>5, <3>1
  <2>2. PICK k \in n + 1 .. N : inbox[k] = [type |-> "SeatNew", seat |-> s]
    BY <1>1, <1>5, <2>1 DEF SeatInv, Returns
  <2>3. k \in 1 .. N /\ k \in n + 1 .. Len(inbox')
    BY <1>4, <1>5, <2>1
  <2> QED
    BY <1>5, <2>2, <2>3
<1> QED
  BY <1>10, <1>11, SentKeeps DEF SeatInv

\* The seat comes.
LEMMA AppearsSeat ==
    ASSUME TypeOK, TypeOK', NEW s \in Seats, SeatAppears(s), ~Starting, SeatInv(s)
    PROVE  SeatInv(s)'
<1> DEFINE m == [type |-> "SeatNew", seat |-> s]
<1>1. PICK N : N = Len(inbox)
  OBVIOUS
<1>2. PICK f : /\ Forecast(s, f) /\ Settles(s, f[N])
               /\ ~missed => /\ \A n \in 1 .. N :
                                  Changes(inbox[n], s) /\ inbox[n].value => f[n - 1] # "yes"
                             /\ f[N] = "yes" => s \in graphical
  BY <1>1 DEF SeatInv, Foreseen, Alternates
<1>3. PICK last : last = f[N]
  OBVIOUS
<1>a. /\ m \in MessageType /\ inbox' = Append(inbox, m) /\ m.type # "Get" /\ Announces(m, s)
      /\ ~Dismisses(m, s) /\ ~Changes(m, s)
      /\ UNCHANGED <<watched, calls, systemSeats, logindSeats, missed>>
      /\ s \notin present /\ s \in present' /\ ~Unlisted /\ ~Unlisted'
  BY DEF SeatAppears, Signal, Starting, MessageType, Announces, Dismisses, Changes, daemonVars,
         Unlisted
<1>b. last = "none"
  BY <1>2, <1>3, <1>a DEF Settles
<1> HIDE DEF m
<1>c. /\ m \in MessageType /\ inbox' = Append(inbox, m) /\ (Announces(m, s) => last = "none")
      /\ UNCHANGED <<systemSeats, logindSeats>>
  BY <1>a, <1>b
<1>4. PICK g : /\ Forecast(s, g)'
               /\ Len(inbox') = N + 1 /\ inbox'[N + 1] = m
               /\ g[N + 1] = Hears(s, N + 1, last)'
               /\ \A n \in 0 .. N : g[n] = f[n]
  <2>1. Forecast(s, f)
    BY <1>2
  <2> QED
    BY <1>1, <1>3, <1>c, <2>1, Extend
<1>5. N \in Nat /\ \A n \in 1 .. N : inbox'[n] = inbox[n]
  <2>1. inbox \in Seq(MessageType)
    BY DEF TypeOK
  <2> HIDE DEF MessageType
  <2> QED
    BY <1>1, <1>a, <2>1, AppendProperties
<1>6. g[N + 1] = "no"
  BY <1>4, <1>a DEF Hears, Announces
<1>7. Asking(s)'
  <2>1. N + 1 \in 1 .. N + 1
    BY <1>5
  <2> QED
    BY <1>4, <1>a, <2>1 DEF Asking, Announces
<1>8. Settles(s, g[Len(inbox)])'
  BY <1>4, <1>6, <1>7, <1>a DEF Settles
<1>9. ~missed' => Alternates(s, g)'
  <2> SUFFICES ASSUME ~missed' PROVE Alternates(s, g)'
    OBVIOUS
  <2>1. ASSUME NEW n \in 1 .. Len(inbox'), Changes(inbox'[n], s), inbox'[n].value
        PROVE  g[n - 1] # "yes"
    <3>1. n \in 1 .. N /\ n - 1 \in 0 .. N
      <4>1. n # N + 1
        BY <1>4, <1>a, <2>1
      <4> QED
        BY <1>4, <1>5, <4>1
    <3> QED
      BY <1>2, <1>4, <1>5, <1>a, <2>1, <3>1
  <2> QED
    BY <1>4, <1>6, <2>1 DEF Alternates, Changes
<1>10. Foreseen(s)'
  BY <1>4, <1>8, <1>9 DEF Foreseen
<1>11. Returns(s)'
  <2> SUFFICES ASSUME NEW n \in 1 .. Len(inbox'), Dismisses(inbox'[n], s)
               PROVE  \E k \in n + 1 .. Len(inbox') :
                        inbox'[k] = [type |-> "SeatNew", seat |-> s]
    BY DEF Returns, Dismisses
  <2>1. n # N + 1
    BY <1>4, <1>a
  <2>2. N + 1 \in n + 1 .. Len(inbox')
    BY <1>4, <1>5, <2>1
  <2> QED
    BY <1>4, <2>2 DEF m
<1>12. OneObject(s) /\ Listens(s)
  BY DEF SeatInv
<1> QED
  BY <1>10, <1>11, <1>12, <1>a, SentKeeps DEF SeatInv

\* The seat goes.
LEMMA VanishesSeat ==
    ASSUME TypeOK, TypeOK', NEW s \in Seats, SeatVanishes(s), ~Starting, SeatInv(s)
    PROVE  SeatInv(s)'
<1> DEFINE m == [type |-> "SeatRemoved", seat |-> s]
<1>1. PICK N : N = Len(inbox)
  OBVIOUS
<1>2. PICK f : /\ Forecast(s, f)
               /\ ~missed => \A n \in 1 .. N :
                                  Changes(inbox[n], s) /\ inbox[n].value => f[n - 1] # "yes"
  BY <1>1 DEF SeatInv, Foreseen, Alternates
<1>3. PICK last : last = f[N]
  OBVIOUS
<1>a. /\ m \in MessageType /\ inbox' = Append(inbox, m) /\ m.type # "Get" /\ ~Announces(m, s)
      /\ Dismisses(m, s) /\ ~Changes(m, s)
      /\ UNCHANGED <<watched, calls, systemSeats, logindSeats, missed>>
      /\ s \notin present'
  BY DEF SeatVanishes, Signal, Starting, MessageType, Announces, Dismisses, Changes, daemonVars
<1> HIDE DEF m
<1>4. PICK g : /\ Forecast(s, g)'
               /\ Len(inbox') = N + 1 /\ inbox'[N + 1] = m
               /\ g[N + 1] = Hears(s, N + 1, last)'
               /\ \A n \in 0 .. N : g[n] = f[n]
  BY <1>1, <1>2, <1>3, <1>a, Extend
<1>5. N \in Nat /\ \A n \in 1 .. N : inbox'[n] = inbox[n]
  <2>1. inbox \in Seq(MessageType)
    BY DEF TypeOK
  <2> HIDE DEF MessageType
  <2> QED
    BY <1>1, <1>a, <2>1, AppendProperties
<1>6. g[N + 1] = "none"
  BY <1>4, <1>a DEF Hears, Announces, Dismisses
<1>8. Settles(s, g[Len(inbox)])'
  BY <1>4, <1>6, <1>a DEF Settles
<1>9. ~missed' => Alternates(s, g)'
  <2> SUFFICES ASSUME ~missed' PROVE Alternates(s, g)'
    OBVIOUS
  <2>1. ASSUME NEW n \in 1 .. Len(inbox'), Changes(inbox'[n], s), inbox'[n].value
        PROVE  g[n - 1] # "yes"
    <3>1. n \in 1 .. N /\ n - 1 \in 0 .. N
      <4>1. n # N + 1
        BY <1>4, <1>a, <2>1
      <4> QED
        BY <1>4, <1>5, <4>1
    <3> QED
      BY <1>2, <1>4, <1>5, <1>a, <2>1, <3>1
  <2> QED
    BY <1>4, <1>6, <2>1 DEF Alternates, Changes
<1>10. Foreseen(s)'
  BY <1>4, <1>8, <1>9 DEF Foreseen
<1>11. Returns(s)'
  BY <1>a DEF Returns
<1>12. OneObject(s) /\ Listens(s)
  BY DEF SeatInv
<1> QED
  BY <1>10, <1>11, <1>12, <1>a, SentKeeps DEF SeatInv

-----------------------------------------------------------------------------
(***************************************************************************)
(* Graphics come and go.                                                   *)
(***************************************************************************)
\* The seat's graphics come or go and the daemon will hear of it.
LEMMA ChangeHeard ==
    ASSUME TypeOK, TypeOK', NEW s \in Seats, CanGraphicalChanges(s), s \in watched, SeatInv(s)
    PROVE  SeatInv(s)'
<1> DEFINE m == [type |-> "PropertiesChanged", seat |-> s, value |-> s \in graphical']
<1>1. PICK N : N = Len(inbox)
  OBVIOUS
<1>2. PICK f : /\ Forecast(s, f) /\ Settles(s, f[N])
               /\ ~missed => /\ \A n \in 1 .. N :
                                  Changes(inbox[n], s) /\ inbox[n].value => f[n - 1] # "yes"
                             /\ f[N] = "yes" => s \in graphical
  BY <1>1 DEF SeatInv, Foreseen, Alternates
<1>3. PICK last : last = f[N]
  OBVIOUS
<1>a. /\ m \in MessageType /\ inbox' = Append(inbox, m) /\ m.type # "Get" /\ ~Announces(m, s)
      /\ ~Dismisses(m, s) /\ Changes(m, s) /\ (m.value <=> s \in graphical')
      /\ (s \in graphical' <=> s \notin graphical)
      /\ UNCHANGED <<watched, calls, systemSeats, logindSeats, present>> /\ s \in present
      /\ (missed => missed')
  <2>1. (s \in graphical) \in BOOLEAN /\ (s \in graphical') \in BOOLEAN
    OBVIOUS
  <2>2. m \in MessageType
    BY <2>1 DEF MessageType
  <2>3. inbox' = Append(inbox, m)
    BY DEF CanGraphicalChanges, Signal
  <2>4. m.type # "Get" /\ ~Announces(m, s) /\ ~Dismisses(m, s) /\ Changes(m, s)
        /\ (m.value <=> s \in graphical')
    BY DEF Announces, Dismisses, Changes
  <2>5. (s \in graphical' <=> s \notin graphical)
        /\ UNCHANGED <<watched, calls, systemSeats, logindSeats, present>> /\ s \in present
        /\ (missed => missed')
    BY DEF CanGraphicalChanges, daemonVars
  <2> QED
    BY <2>2, <2>3, <2>4, <2>5
<1> HIDE DEF m
<1>c. /\ m \in MessageType /\ inbox' = Append(inbox, m) /\ (Announces(m, s) => last = "none")
      /\ UNCHANGED <<systemSeats, logindSeats>>
  BY <1>a
<1>4. PICK g : /\ Forecast(s, g)'
               /\ Len(inbox') = N + 1 /\ inbox'[N + 1] = m
               /\ g[N + 1] = Hears(s, N + 1, last)'
               /\ \A n \in 0 .. N : g[n] = f[n]
  <2>1. Forecast(s, f)
    BY <1>2
  <2> QED
    BY <1>1, <1>3, <1>c, <2>1, Extend
<1>5. N \in Nat /\ \A n \in 1 .. N : inbox'[n] = inbox[n]
  <2>1. inbox \in Seq(MessageType)
    BY DEF TypeOK
  <2> HIDE DEF MessageType
  <2> QED
    BY <1>1, <1>a, <2>1, AppendProperties
<1>6. g[N + 1] = IF last = "none" THEN "none" ELSE IF s \in graphical' THEN "yes" ELSE "no"
  <2>1. ~Tells(s, N + 1)'
    BY <1>4, <1>a DEF Tells
  <2>2. ~Announces(inbox'[N + 1], s) /\ ~Dismisses(inbox'[N + 1], s)
        /\ Changes(inbox'[N + 1], s) /\ (inbox'[N + 1].value <=> s \in graphical')
    BY <1>4, <1>a
  <2> QED
    BY <1>4, <2>1, <2>2 DEF Hears, Announces, Dismisses, Changes
<1>7. Asking(s) => Asking(s)'
  <2>1. \A n \in 1 .. N : n \in 1 .. N + 1
    BY <1>5
  <2> QED
    BY <1>1, <1>4, <1>5, <1>a, <2>1 DEF Asking, Announces
<1>8. Settles(s, g[Len(inbox)])'
  <2>1. Unlisted' <=> Unlisted
    BY <1>a DEF Unlisted
  <2>2. g[Len(inbox')] = "none" <=> last = "none"
    BY <1>4, <1>6
  <2>3. Settles(s, last)
    BY <1>2, <1>3
  <2>4. CanGraphical(s)' = IF s \in graphical' THEN "yes" ELSE "no"
    BY <1>a DEF CanGraphical
  <2>5. CanGraphical(s) # "none"
    BY <1>a DEF CanGraphical
  <2>6. g[Len(inbox')] = "none" <=> s \notin present' \/ Unlisted'
    BY <2>1, <2>2, <2>3, <1>a DEF Settles
  <2>7. ASSUME ~Unlisted', ~Asking(s)'
        PROVE  systemSeats'[s] # 0 /\ s \in watched' /\ g[Len(inbox')] = CanGraphical(s)'
    <3>1. systemSeats[s] # 0 /\ s \in watched /\ last = CanGraphical(s)
      BY <2>7, <2>1, <2>3, <1>7, <1>a DEF Settles
    <3> QED
      BY <3>1, <2>4, <2>5, <1>4, <1>6, <1>a
  <2> QED
    BY <2>6, <2>7 DEF Settles
<1>9. ~missed' => Alternates(s, g)'
  <2> SUFFICES ASSUME ~missed' PROVE Alternates(s, g)'
    OBVIOUS
  <2>1. ASSUME NEW n \in 1 .. Len(inbox'), Changes(inbox'[n], s), inbox'[n].value
        PROVE  g[n - 1] # "yes"
    <3>1. CASE n = N + 1
      <4>1. n - 1 = N /\ N \in 0 .. N
        BY <1>5, <3>1
      <4>2. s \in graphical' /\ g[n - 1] = f[N]
        BY <1>4, <1>a, <2>1, <3>1, <4>1
      <4> QED
        BY <1>2, <1>a, <4>2
    <3>2. CASE n # N + 1
      <4>1. n \in 1 .. N /\ n - 1 \in 0 .. N
        BY <1>4, <1>5, <3>2
      <4> QED
        BY <1>2, <1>4, <1>5, <1>a, <2>1, <4>1
    <3> QED
      BY <3>1, <3>2
  <2>2. g[Len(inbox')] = "yes" => s \in graphical'
    BY <1>4, <1>6
  <2> QED
    BY <2>1, <2>2 DEF Alternates, Changes
<1>10. Foreseen(s)'
  BY <1>4, <1>8, <1>9 DEF Foreseen
<1>11. Returns(s)'
  <2> SUFFICES ASSUME NEW n \in 1 .. Len(inbox'), Dismisses(inbox'[n], s), s \in present'
               PROVE  \E k \in n + 1 .. Len(inbox') :
                        inbox'[k] = [type |-> "SeatNew", seat |-> s]
    BY DEF Returns, Dismisses
  <2>1. n \in 1 .. N
    <3>1. n # N + 1
      BY <1>4, <1>a
    <3> QED
      BY <1>4, <1>5, <3>1
  <2>2. PICK k \in n + 1 .. N : inbox[k] = [type |-> "SeatNew", seat |-> s]
    BY <1>1, <1>5, <1>a, <2>1 DEF SeatInv, Returns
  <2>3. k \in 1 .. N /\ k \in n + 1 .. Len(inbox')
    BY <1>4, <1>5, <2>1
  <2> QED
    BY <1>5, <2>2, <2>3
<1>12. OneObject(s) /\ Listens(s)
  BY DEF SeatInv
<1> QED
  BY <1>10, <1>11, <1>12, <1>a, SentKeeps DEF SeatInv

\* Nothing that is on its way makes the daemon take a seat for graphical that it
\* does not listen to and has not taken for graphical before.
LEMMA NeverYes ==
    ASSUME TypeOK, NEW s \in Seats, s \notin watched, OneObject(s), Listens(s),
           Now(s) # "yes", NEW f, Forecast(s, f),
           \A n \in 1 .. Len(inbox) :
             inbox[n] # [type |-> "PropertiesChanged", seat |-> s, value |-> TRUE]
    PROVE  f[Len(inbox)] # "yes"
<1>1. PICK N : N = Len(inbox)
  OBVIOUS
<1>2. N \in Nat /\ \A n \in 1 .. N : inbox[n] \in MessageType
  <2>1. inbox \in Seq(MessageType)
    BY DEF TypeOK
  <2> HIDE DEF MessageType
  <2> QED
    BY <1>1, <2>1, LenProperties, ElementOfSeq
<1>3. ASSUME NEW n \in 1 .. N PROVE ~Tells(s, n)
  <2> SUFFICES ASSUME Tells(s, n) PROVE FALSE
    OBVIOUS
  <2>1. inbox[n].type = "Get" /\ inbox[n].object = systemSeats[s]
    BY DEF Tells
  <2>2. inbox[n].object \in Objects
    BY <1>2, <2>1 DEF MessageType
  <2>3. systemSeats[s] # 0
    BY <2>1, <2>2 DEF Objects
  <2> QED
    BY <1>1, <2>1, <2>3 DEF Listens
<1>4. ASSUME NEW n \in 1 .. N, Changes(inbox[n], s) PROVE ~inbox[n].value
  <2>1. inbox[n].type = "PropertiesChanged" /\ inbox[n].seat = s
    BY <1>4 DEF Changes
  <2>2. inbox[n] \in [type : {"PropertiesChanged"}, seat : Seats, value : BOOLEAN]
    <3>1. inbox[n] \in MessageType
      BY <1>2
    <3> QED
      BY <2>1, <3>1 DEF MessageType
  <2>3. inbox[n].value = TRUE =>
          inbox[n] = [type |-> "PropertiesChanged", seat |-> s, value |-> TRUE]
    BY <2>1, <2>2
  <2>4. inbox[n].value \in BOOLEAN
    BY <2>2
  <2> QED
    BY <1>1, <2>3, <2>4
<1>5. f \in [0 .. N -> Answer] /\ f[0] = Now(s)
      /\ \A n \in 1 .. N : f[n] = Hears(s, n, f[n - 1])
  BY <1>1 DEF Forecast
<1> DEFINE T == {n \in 0 .. N : f[n] # "yes"}
<1>6. 0 \in T
  BY <1>2, <1>5
<1>7. ASSUME NEW n \in 0 .. N - 1, n \in T PROVE n + 1 \in T
  <2>1. n + 1 \in 1 .. N /\ (n + 1) - 1 = n /\ n + 1 \in 0 .. N
    BY <1>2
  <2>2. f[n + 1] = Hears(s, n + 1, f[n]) /\ f[n] # "yes"
    BY <1>5, <1>7, <2>1
  <2>3. ~Tells(s, n + 1) /\ (Changes(inbox[n + 1], s) => ~inbox[n + 1].value)
    BY <1>3, <1>4, <2>1
  <2>4. f[n + 1] # "yes"
    BY <2>2, <2>3 DEF Hears
  <2> QED
    BY <2>1, <2>4
<1>8. \A n \in 0 .. N : n \in T
  <2> HIDE DEF T
  <2> QED
    BY <1>2, <1>6, <1>7, UpTo
<1>9. N \in T
  BY <1>2, <1>8
<1> QED
  BY <1>1, <1>9

\* They come or go and the daemon does not hear of it: it will ask.
LEMMA ChangeUnheard ==
    ASSUME TypeOK, TypeOK', NEW s \in Seats, CanGraphicalChanges(s), s \notin watched,
           SeatInv(s), s \in managed <=> Now(s) = "yes"
    PROVE  SeatInv(s)'
<1>1. PICK f : Forecast(s, f) /\ Settles(s, f[Len(inbox)]) /\ (~missed => Alternates(s, f))
  BY DEF SeatInv, Foreseen
<1>2. /\ UNCHANGED <<inbox, watched, calls, systemSeats, logindSeats, present>>
      /\ (s \in graphical' <=> s \notin graphical)
      /\ missed' = (missed \/ (s \in graphical /\ Unheard(s)))
  BY DEF CanGraphicalChanges, Signal, daemonVars
<1>3. Forecast(s, f)'
  BY <1>1, <1>2 DEF Forecast, Now, Hears, Tells, Announces, Dismisses, Changes, Answer
<1>4. Settles(s, f[Len(inbox)])'
  BY <1>1, <1>2 DEF Settles, Unlisted, Asking, Announces
<1>5. ~missed' => Alternates(s, f)'
  <2> SUFFICES ASSUME ~missed' PROVE Alternates(s, f)'
    OBVIOUS
  <2>1. Alternates(s, f) /\ (s \in graphical => ~Unheard(s))
    BY <1>1, <1>2
  <2>2. f[Len(inbox)] = "yes" => s \in graphical'
    <3>1. CASE s \notin graphical
      BY <1>2, <3>1
    <3>2. CASE s \in graphical
      <4>1. s \notin managed /\ \A n \in 1 .. Len(inbox) :
              inbox[n] # [type |-> "PropertiesChanged", seat |-> s, value |-> TRUE]
        BY <2>1, <3>2 DEF Unheard
      <4>2. f[Len(inbox)] # "yes"
        BY <1>1, <4>1, NeverYes DEF SeatInv
      <4> QED
        BY <4>2
    <3> QED
      BY <3>1, <3>2
  <2> QED
    BY <1>2, <2>1, <2>2 DEF Alternates, Changes
<1>6. Foreseen(s)'
  BY <1>3, <1>4, <1>5 DEF Foreseen
<1>7. Returns(s)' /\ OneObject(s)' /\ Listens(s)'
  BY <1>2 DEF SeatInv, Returns, OneObject, Listens, AliveFor, Alive, Objects, Matches, Asks,
              Dismisses
<1> QED
  BY <1>6, <1>7 DEF SeatInv

\* What a step leaves alone that it does not concern.
LEMMA StillSeat ==
    ASSUME NEW s, SeatInv(s),
           UNCHANGED <<inbox, watched, calls, systemSeats, logindSeats, present>>,
           missed => missed', s \in graphical' <=> s \in graphical
    PROVE  SeatInv(s)'
<1>1. PICK f : Forecast(s, f) /\ Settles(s, f[Len(inbox)]) /\ (~missed => Alternates(s, f))
  BY DEF SeatInv, Foreseen
<1>3. Forecast(s, f)'
  BY <1>1 DEF Forecast, Now, Hears, Tells, Announces, Dismisses, Changes, Answer
<1>4. Settles(s, f[Len(inbox)])'
  BY <1>1 DEF Settles, Unlisted, Asking, Announces, CanGraphical
<1>5. ~missed' => Alternates(s, f)'
  BY <1>1 DEF Alternates, Changes
<1>6. Foreseen(s)'
  BY <1>3, <1>4, <1>5 DEF Foreseen
<1>7. Returns(s)' /\ OneObject(s)' /\ Listens(s)'
  BY DEF SeatInv, Returns, OneObject, Listens, AliveFor, Alive, Objects, Matches, Asks, Dismisses
<1> QED
  BY <1>6, <1>7 DEF SeatInv

-----------------------------------------------------------------------------
(***************************************************************************)
(* The signals of logind keep the invariant.                               *)
(***************************************************************************)
\* So the whole of it is kept when a seat comes,
LEMMA AppearsFollows ==
    ASSUME TypeOK, NEW x \in Seats, SeatAppears(x), Follows, ~Starting
    PROVE  Follows'
<1>1. TypeOK'
  BY LogindTypes
<1>2. UNCHANGED <<watched, calls, systemSeats, logindSeats, managed, missed>>
      /\ inbox' = Append(inbox, [type |-> "SeatNew", seat |-> x])
      /\ ~Unlisted /\ ~Unlisted'
      /\ present' = present \union {x} /\ graphical' \in {graphical, graphical \union {x}}
  BY DEF SeatAppears, Signal, Starting, daemonVars, Unlisted
<1>3. ASSUME NEW s \in Seats PROVE SeatInv(s)'
  <2>0. SeatInv(s)
    BY DEF Follows
  <2>1. CASE s = x
    BY <1>1, <2>0, <2>1, AppearsSeat
  <2>2. CASE s # x
    <3> DEFINE m == [type |-> "SeatNew", seat |-> x]
    <3>1. m \in MessageType /\ m.type # "Get" /\ ~Announces(m, s) /\ ~Dismisses(m, s)
          /\ ~Changes(m, s)
      BY <2>2 DEF MessageType, Announces, Dismisses, Changes
    <3>2. (s \in present' <=> s \in present) /\ (s \in graphical' <=> s \in graphical)
      BY <1>2, <2>2
    <3>3. inbox' = Append(inbox, m)
      BY <1>2
    <3> HIDE DEF m
    <3> QED
      BY <1>1, <1>2, <2>0, <3>1, <3>2, <3>3, SentElsewhere
  <2> QED
    BY <2>1, <2>2
<1>4. ListInv' /\ ManagedInv'
  BY <1>2 DEF Follows, ListInv, ManagedInv, Now
<1> QED
  BY <1>3, <1>4 DEF Follows

\* when one goes,
LEMMA VanishesFollows ==
    ASSUME TypeOK, NEW x \in Seats, SeatVanishes(x), Follows, ~Starting
    PROVE  Follows'
<1>1. TypeOK'
  BY LogindTypes
<1>2. UNCHANGED <<watched, calls, systemSeats, logindSeats, managed, missed>>
      /\ inbox' = Append(inbox, [type |-> "SeatRemoved", seat |-> x])
      /\ ~Unlisted /\ ~Unlisted'
      /\ present' = present \ {x} /\ graphical' = graphical \ {x}
  BY DEF SeatVanishes, Signal, Starting, daemonVars, Unlisted
<1>3. ASSUME NEW s \in Seats PROVE SeatInv(s)'
  <2>0. SeatInv(s)
    BY DEF Follows
  <2>1. CASE s = x
    BY <1>1, <2>0, <2>1, VanishesSeat
  <2>2. CASE s # x
    <3> DEFINE m == [type |-> "SeatRemoved", seat |-> x]
    <3>1. m \in MessageType /\ m.type # "Get" /\ ~Announces(m, s) /\ ~Dismisses(m, s)
          /\ ~Changes(m, s)
      BY <2>2 DEF MessageType, Announces, Dismisses, Changes
    <3>2. (s \in present' <=> s \in present) /\ (s \in graphical' <=> s \in graphical)
      BY <1>2, <2>2
    <3>3. inbox' = Append(inbox, m)
      BY <1>2
    <3> HIDE DEF m
    <3> QED
      BY <1>1, <1>2, <2>0, <3>1, <3>2, <3>3, SentElsewhere
  <2> QED
    BY <2>1, <2>2
<1>4. ListInv' /\ ManagedInv'
  BY <1>2 DEF Follows, ListInv, ManagedInv, Now
<1> QED
  BY <1>3, <1>4 DEF Follows

\* and when its graphics come or go.
LEMMA ChangesFollows ==
    ASSUME TypeOK, NEW x \in Seats, CanGraphicalChanges(x), Follows
    PROVE  Follows'
<1>1. TypeOK'
  BY LogindTypes
<1> DEFINE m == [type |-> "PropertiesChanged", seat |-> x, value |-> x \in graphical']
<1>2. UNCHANGED <<watched, calls, systemSeats, logindSeats, managed, present>>
      /\ (missed => missed')
      /\ \A s \in Seats \ {x} : s \in graphical' <=> s \in graphical
  BY DEF CanGraphicalChanges, daemonVars
<1>3. inbox' = IF x \in watched THEN Append(inbox, m) ELSE inbox
  BY DEF CanGraphicalChanges, Signal
<1>4. ASSUME NEW s \in Seats PROVE SeatInv(s)'
  <2>0. SeatInv(s) /\ (s \in managed <=> Now(s) = "yes")
    BY DEF Follows, ManagedInv
  <2>1. CASE s = x
    BY <1>1, <2>0, <2>1, ChangeHeard, ChangeUnheard
  <2>2. CASE s # x /\ x \in watched
    <3>1. m \in MessageType /\ m.type # "Get" /\ ~Announces(m, s) /\ ~Dismisses(m, s)
          /\ ~Changes(m, s)
      <4>1. (x \in graphical') \in BOOLEAN
        OBVIOUS
      <4>2. m \in MessageType
        BY <4>1 DEF MessageType
      <4> QED
        BY <2>2, <4>2 DEF Announces, Dismisses, Changes
    <3>2. inbox' = Append(inbox, m) /\ (s \in graphical' <=> s \in graphical)
      BY <1>2, <1>3, <2>2
    <3> HIDE DEF m
    <3> QED
      BY <1>1, <1>2, <2>0, <3>1, <3>2, SentElsewhere
  <2>3. CASE s # x /\ x \notin watched
    <3>1. inbox' = inbox /\ (s \in graphical' <=> s \in graphical)
      BY <1>2, <1>3, <2>3
    <3> QED
      BY <1>2, <2>0, <3>1, StillSeat
  <2> QED
    BY <2>1, <2>2, <2>3
<1>5. ListInv'
  <2>1. Unlisted => watched = {}
    BY DEF Follows, ListInv
  <2> QED
    BY <1>2, <1>3, <2>1 DEF Follows, ListInv, Unlisted
<1>6. ManagedInv'
  BY <1>2 DEF Follows, ManagedInv, Now
<1> QED
  BY <1>4, <1>5, <1>6 DEF Follows

-----------------------------------------------------------------------------
(***************************************************************************)
(* The bus.                                                                *)
(***************************************************************************)
\* Where a call was before the i-th one was taken out.
Was(k, i) == IF k < i THEN k ELSE k + 1

\* The calls after it.
LEMMA MatchedCalls ==
    ASSUME TypeOK, NEW i, Matched(i)
    PROVE  /\ i \in 1 .. Len(calls) /\ Len(calls) \in Nat /\ Len(calls') = Len(calls) - 1
           /\ \A k \in 1 .. Len(calls') : /\ Was(k, i) \in 1 .. Len(calls) /\ Was(k, i) # i
                                          /\ calls'[k] = calls[Was(k, i)]
           /\ \A k \in 1 .. Len(calls) : k # i => \E j \in 1 .. Len(calls') : Was(j, i) = k
           /\ \A j, k \in 1 .. Len(calls') : j < k <=> Was(j, i) < Was(k, i)
<1>1. calls \in Seq(CallType) /\ i \in 1 .. Len(calls) /\ calls' = RemoveAt(calls, i)
  BY DEF TypeOK, Matched
<1>2. /\ Len(calls) \in Nat /\ Len(calls') = Len(calls) - 1
      /\ \A j \in 1 .. Len(calls) - 1 : calls'[j] = IF j < i THEN calls[j] ELSE calls[j + 1]
  <2> HIDE DEF CallType
  <2> QED
    BY <1>1, RemoveAtProperties, LenProperties
<1>3. ASSUME NEW k \in 1 .. Len(calls')
      PROVE  /\ Was(k, i) \in 1 .. Len(calls) /\ Was(k, i) # i
             /\ calls'[k] = calls[Was(k, i)]
  BY <1>1, <1>2 DEF Was
<1>4. ASSUME NEW k \in 1 .. Len(calls), k # i
      PROVE  \E j \in 1 .. Len(calls') : Was(j, i) = k
  <2>1. CASE k < i
    <3>1. k \in 1 .. Len(calls') /\ Was(k, i) = k
      BY <1>1, <1>2, <2>1 DEF Was
    <3> QED
      BY <3>1
  <2>2. CASE ~(k < i)
    <3>1. k - 1 \in 1 .. Len(calls') /\ Was(k - 1, i) = k
      BY <1>1, <1>2, <1>4, <2>2 DEF Was
    <3> QED
      BY <3>1
  <2> QED
    BY <2>1, <2>2
<1>5. \A j, k \in 1 .. Len(calls') : j < k <=> Was(j, i) < Was(k, i)
  BY <1>1, <1>2 DEF Was
<1> QED
  BY <1>1, <1>2, <1>3, <1>4, <1>5

\* A subscription that was on its way is there.
LEMMA MatchedListens ==
    ASSUME TypeOK, NEW s \in Seats, NEW i, Matched(i), Listens(s)
    PROVE  Listens(s)'
<1>1. PICK o : o = systemSeats[s]
  OBVIOUS
<1>2. UNCHANGED <<inbox, systemSeats>> /\ IsMatch(calls[i])
      /\ \A k \in 1 .. i - 1 : ~IsMatch(calls[k])
  BY DEF Matched, daemonVars
<1>3. SUFFICES ASSUME o # 0
               PROVE  \/ /\ s \in watched'
                         /\ \A k \in 1 .. Len(calls') : ~Matches(calls'[k], s)
                      \/ /\ \A n \in 1 .. Len(inbox') :
                               ~(inbox'[n].type = "Get" /\ inbox'[n].object = o)
                         /\ \E j \in 1 .. Len(calls') :
                               /\ calls'[j] = [op |-> "watch", seat |-> s]
                               /\ \E k \in 1 .. Len(calls') : Asks(calls'[k], o)
                               /\ \A k \in 1 .. Len(calls') : Asks(calls'[k], o) => j < k
                               /\ \A k \in 1 .. Len(calls') : Matches(calls'[k], s) => k <= j
  BY <1>1, <1>2 DEF Listens, Matches, Asks
<1>4. CASE /\ s \in watched
           /\ \A k \in 1 .. Len(calls) : ~Matches(calls[k], s)
  <2>1. ~Matches(calls[i], s)
    BY <1>4, MatchedCalls
  <2>2. s \in watched'
    BY <1>4, <2>1 DEF Matched, Matches
  <2>3. \A k \in 1 .. Len(calls') : ~Matches(calls'[k], s)
    BY <1>4, MatchedCalls
  <2> QED
    BY <2>2, <2>3
<1>5. ASSUME NEW j \in 1 .. Len(calls),
             \A n \in 1 .. Len(inbox) : ~(inbox[n].type = "Get" /\ inbox[n].object = o),
             calls[j] = [op |-> "watch", seat |-> s],
             \E k \in 1 .. Len(calls) : Asks(calls[k], o),
             \A k \in 1 .. Len(calls) : Asks(calls[k], o) => j < k,
             \A k \in 1 .. Len(calls) : Matches(calls[k], s) => k <= j
      PROVE  \/ /\ s \in watched'
                /\ \A k \in 1 .. Len(calls') : ~Matches(calls'[k], s)
             \/ \E l \in 1 .. Len(calls') :
                  /\ calls'[l] = [op |-> "watch", seat |-> s]
                  /\ \E k \in 1 .. Len(calls') : Asks(calls'[k], o)
                  /\ \A k \in 1 .. Len(calls') : Asks(calls'[k], o) => l < k
                  /\ \A k \in 1 .. Len(calls') : Matches(calls'[k], s) => k <= l
  <2>0. i \in 1 .. Len(calls) /\ Len(calls) \in Nat /\ Len(calls') = Len(calls) - 1
    BY MatchedCalls
  <2>1. CASE j = i
    <3>1. s \in watched'
      BY <1>5, <2>1 DEF Matched
    <3>2. ASSUME NEW k \in 1 .. Len(calls'), Matches(calls'[k], s) PROVE FALSE
      <4>1. PICK w : w = Was(k, i)
        OBVIOUS
      <4>2. w \in 1 .. Len(calls) /\ w # i /\ Matches(calls[w], s)
        BY <3>2, <4>1, MatchedCalls
      <4>3. w \in 1 .. i - 1
        <5>1. w <= i
          BY <1>5, <2>1, <4>2
        <5> QED
          BY <2>0, <4>2, <5>1
      <4> QED
        BY <1>2, <4>2, <4>3 DEF IsMatch, Matches
    <3> QED
      BY <3>1, <3>2
  <2>2. CASE j # i
    <3>1. PICK l \in 1 .. Len(calls') : Was(l, i) = j
      BY <2>2, MatchedCalls
    <3>2. calls'[l] = [op |-> "watch", seat |-> s]
      BY <1>5, <3>1, MatchedCalls
    <3>3. \E k \in 1 .. Len(calls') : Asks(calls'[k], o)
      <4>1. PICK k \in 1 .. Len(calls) : Asks(calls[k], o)
        BY <1>5
      <4>2. k # i
        BY <1>2, <4>1 DEF Asks, IsMatch
      <4>3. PICK w \in 1 .. Len(calls') : Was(w, i) = k
        BY <4>2, MatchedCalls
      <4>4. calls'[w] = calls[k]
        BY <4>3, MatchedCalls
      <4> QED
        BY <4>1, <4>4
    <3>4. ASSUME NEW k \in 1 .. Len(calls'), Asks(calls'[k], o) PROVE l < k
      <4>1. Was(k, i) \in 1 .. Len(calls) /\ Asks(calls[Was(k, i)], o)
        BY <3>4, MatchedCalls
      <4>2. Was(l, i) < Was(k, i)
        BY <1>5, <3>1, <4>1
      <4> QED
        BY <4>2, MatchedCalls
    <3>5. ASSUME NEW k \in 1 .. Len(calls'), Matches(calls'[k], s) PROVE k <= l
      <4>1. Was(k, i) \in 1 .. Len(calls) /\ Matches(calls[Was(k, i)], s)
        BY <3>5, MatchedCalls
      <4>2. ~(Was(l, i) < Was(k, i))
        BY <1>5, <3>1, <4>1
      <4>3. ~(l < k)
        BY <4>2, MatchedCalls
      <4> QED
        BY <2>0, <4>3
    <3> QED
      BY <3>2, <3>3, <3>4, <3>5
  <2> QED
    BY <2>1, <2>2
<1> QED
  BY <1>1, <1>2, <1>3, <1>4, <1>5 DEF Listens

\* Nothing else changes for a seat,
LEMMA MatchedSeat ==
    ASSUME TypeOK, NEW s \in Seats, NEW i, Matched(i), SeatInv(s)
    PROVE  SeatInv(s)'
<1>1. PICK f : Forecast(s, f) /\ Settles(s, f[Len(inbox)]) /\ (~missed => Alternates(s, f))
  BY DEF SeatInv, Foreseen
<1>2. UNCHANGED <<inbox, systemSeats, logindSeats, present, graphical, missed>>
      /\ IsMatch(calls[i])
  BY DEF Matched, logindVars, daemonVars, historyVars
<1>3. Forecast(s, f)'
  BY <1>1, <1>2 DEF Forecast, Now, Hears, Tells, Announces, Dismisses, Changes, Answer
<1>4. Listens(s)'
  BY MatchedListens DEF SeatInv
<1>5. Unlisted' <=> Unlisted
  <2>1. ASSUME Unlisted' PROVE Unlisted
    <3>1. PICK k \in 1 .. Len(calls') : calls'[k].op = "ListSeats"
      BY <2>1 DEF Unlisted
    <3> QED
      BY <3>1, MatchedCalls DEF Unlisted
  <2>2. ASSUME Unlisted PROVE Unlisted'
    <3>1. PICK k \in 1 .. Len(calls) : calls[k].op = "ListSeats"
      BY <2>2 DEF Unlisted
    <3>2. k # i
      BY <1>2, <3>1 DEF IsMatch
    <3>3. PICK j \in 1 .. Len(calls') : Was(j, i) = k
      BY <3>2, MatchedCalls
    <3> QED
      BY <3>1, <3>3, MatchedCalls DEF Unlisted
  <2> QED
    BY <2>1, <2>2
<1>6. Asking(s) => Asking(s)'
  <2> SUFFICES ASSUME NEW k \in 1 .. Len(calls), calls[k].op = "Get",
                      calls[k].object = systemSeats[s]
               PROVE  Asking(s)'
    BY <1>2 DEF Asking, Announces
  <2>1. k # i
    BY <1>2 DEF IsMatch
  <2>2. PICK j \in 1 .. Len(calls') : Was(j, i) = k
    BY <2>1, MatchedCalls
  <2> QED
    BY <1>2, <2>2, MatchedCalls DEF Asking
<1>7. Settles(s, f[Len(inbox)])'
  <2>1. f[Len(inbox')] = "none" <=> s \notin present' \/ Unlisted'
    BY <1>1, <1>2, <1>5 DEF Settles
  <2>2. ASSUME ~Unlisted', ~Asking(s)', s \in present'
        PROVE  systemSeats'[s] # 0 /\ s \in watched' /\ f[Len(inbox')] = CanGraphical(s)'
    <3>1. systemSeats[s] # 0 /\ f[Len(inbox)] = CanGraphical(s)
      BY <1>1, <1>2, <1>5, <1>6, <2>2 DEF Settles
    <3>2. ~ \E k \in 1 .. Len(calls') : Asks(calls'[k], systemSeats'[s])
      BY <2>2 DEF Asking, Asks
    <3>3. s \in watched'
      BY <1>2, <1>4, <3>1, <3>2 DEF Listens, Asks
    <3> QED
      BY <1>2, <3>1, <3>3 DEF CanGraphical
  <2> QED
    BY <2>1, <2>2 DEF Settles
<1>8. ~missed' => Alternates(s, f)'
  BY <1>1, <1>2 DEF Alternates, Changes
<1>9. Foreseen(s)'
  BY <1>3, <1>7, <1>8 DEF Foreseen
<1>10. Returns(s)' /\ OneObject(s)'
  BY <1>2 DEF SeatInv, Returns, OneObject, AliveFor, Alive, Objects, Dismisses
<1> QED
  BY <1>4, <1>9, <1>10 DEF SeatInv

\* nor for the others.
LEMMA MatchedFollows ==
    ASSUME TypeOK, NEW i, Matched(i), Follows
    PROVE  Follows'
<1>1. \A s \in Seats : SeatInv(s)'
  BY MatchedSeat DEF Follows
<1>2. UNCHANGED <<inbox, systemSeats, logindSeats, managed>> /\ IsMatch(calls[i])
  BY DEF Matched, daemonVars
<1>3. ManagedInv'
  BY <1>2 DEF Follows, ManagedInv, Now
<1>4. ASSUME NEW k \in 1 .. Len(calls'), calls'[k].op = "ListSeats" PROVE k = 1 /\ Unlisted
  <2>1. Was(k, i) \in 1 .. Len(calls) /\ calls[Was(k, i)].op = "ListSeats"
    BY <1>4, MatchedCalls
  <2>2. Was(k, i) = 1
    BY <2>1 DEF Follows, ListInv
  <2>3. k = 1
    BY <2>2, MatchedCalls DEF Was
  <2> QED
    BY <2>1, <2>3 DEF Unlisted
<1>5. Unlisted' => Unlisted
  BY <1>4 DEF Unlisted
<1>6. ASSUME Unlisted
      PROVE  /\ inbox' = <<>> /\ watched' = {} /\ \A s \in Seats : systemSeats'[s] = 0
             /\ \A k \in 1 .. Len(calls') : calls'[k].op \in {"ListSeats", "subscribe"}
  <2>1. /\ inbox = <<>> /\ watched = {} /\ \A s \in Seats : systemSeats[s] = 0
        /\ \A k \in 1 .. Len(calls) : calls[k].op \in {"ListSeats", "subscribe"}
    BY <1>6 DEF Follows, ListInv
  <2>2. calls[i].op \in {"ListSeats", "subscribe"}
    BY <2>1, MatchedCalls
  <2>3. watched' = {}
    BY <2>1, <2>2 DEF Matched
  <2>4. \A k \in 1 .. Len(calls') : calls'[k].op \in {"ListSeats", "subscribe"}
    BY <2>1, MatchedCalls
  <2> QED
    BY <1>2, <2>1, <2>3, <2>4
<1>7. ListInv'
  BY <1>4, <1>5, <1>6 DEF ListInv
<1> QED
  BY <1>1, <1>3, <1>7 DEF Follows

-----------------------------------------------------------------------------
(***************************************************************************)
(* The answers of logind.                                                  *)
(***************************************************************************)
\* What logind's answer does to what is on its way.
LEMMA Answered ==
    ASSUME TypeOK, NEW m \in MessageType, calls # <<>>, calls' = Tail(calls),
           inbox' = Append(inbox, m)
    PROVE  /\ Len(calls) \in Nat \ {0} /\ Len(calls') = Len(calls) - 1
           /\ Head(calls) = calls[1] /\ Head(calls) \in CallType
           /\ \A k \in 1 .. Len(calls) - 1 : calls'[k] = calls[k + 1]
           /\ Len(inbox) \in Nat /\ Len(inbox') = Len(inbox) + 1
           /\ inbox'[Len(inbox) + 1] = m
           /\ \A n \in 1 .. Len(inbox) : inbox'[n] = inbox[n]
<1>1. calls \in Seq(CallType) /\ inbox \in Seq(MessageType)
  BY DEF TypeOK
<1>2. /\ Head(calls) \in CallType
      /\ Len(Tail(calls)) = Len(calls) - 1
      /\ \A k \in 1 .. Len(Tail(calls)) : Tail(calls)[k] = calls[k + 1]
  <2> HIDE DEF CallType
  <2> QED
    BY <1>1, HeadTailProperties
<1>3. Len(calls) \in Nat \ {0} /\ Head(calls) = calls[1]
  <2> HIDE DEF CallType
  <2> QED
    BY <1>1, EmptySeq
<1>4. Len(inbox) \in Nat /\ Len(inbox') = Len(inbox) + 1 /\ inbox'[Len(inbox) + 1] = m
      /\ \A n \in 1 .. Len(inbox) : inbox'[n] = inbox[n]
  <2> HIDE DEF MessageType
  <2> QED
    BY <1>1, AppendProperties
<1> QED
  BY <1>2, <1>3, <1>4

\* The list of seats: every seat that is there will be announced by it.
LEMMA ListAnswered ==
    ASSUME TypeOK, LogindAnswers, Head(calls).op = "ListSeats", Follows
    PROVE  Follows'
<1> DEFINE m == [type |-> "ListSeats", seats |-> present]
<1>1. /\ calls # <<>> /\ calls' = Tail(calls) /\ inbox' = Append(inbox, m)
      /\ UNCHANGED <<present, graphical, watched, systemSeats, logindSeats, managed, missed>>
  BY DEF LogindAnswers, logindVars, daemonVars, historyVars
<1>2. m \in MessageType /\ m.type = "ListSeats" /\ m.seats = present
  BY DEF TypeOK, MessageType
<1> HIDE DEF m
<1>3. /\ Len(calls) \in Nat \ {0} /\ Len(calls') = Len(calls) - 1
      /\ Head(calls) = calls[1]
      /\ \A k \in 1 .. Len(calls) - 1 : calls'[k] = calls[k + 1]
  BY <1>1, <1>2, Answered
<1>4. Unlisted
  BY <1>3 DEF Unlisted
<1>5. ASSUME NEW k \in 1 .. Len(calls') PROVE calls'[k].op # "ListSeats"
  <2>1. k + 1 \in 1 .. Len(calls) /\ k + 1 # 1 /\ calls'[k] = calls[k + 1]
    BY <1>3
  <2> QED
    BY <2>1 DEF Follows, ListInv
<1>6. ~Unlisted' /\ ListInv'
  BY <1>5 DEF Unlisted, ListInv
<1>7. /\ inbox = <<>> /\ \A s \in Seats : systemSeats[s] = 0
  BY <1>4 DEF Follows, ListInv
<1>8. Len(inbox) = 0 /\ Len(inbox') = 1 /\ inbox'[1] = m
  <2>1. /\ Len(inbox) \in Nat /\ Len(inbox') = Len(inbox) + 1
        /\ inbox'[Len(inbox) + 1] = m
    BY <1>1, <1>2, Answered
  <2>2. Len(inbox) = 0
    BY <1>7
  <2> QED
    BY <2>1, <2>2
<1>9. ASSUME NEW s \in Seats PROVE SeatInv(s)'
  <2>1. PICK f : Forecast(s, f)
    BY DEF Follows, SeatInv, Foreseen
  <2>2. f[0] = "none"
    BY <1>7, <2>1 DEF Forecast, Now
  <2>3. TypeOK'
    BY AnswersTypes
  <2>4. PICK N, last : N = Len(inbox) /\ last = f[N]
    OBVIOUS
  <2>5. N = 0 /\ last = "none"
    BY <1>8, <2>2, <2>4
  <2>6. PICK g : /\ Forecast(s, g)' /\ g[N + 1] = Hears(s, N + 1, last)'
    <3>1. UNCHANGED <<systemSeats, logindSeats>>
      BY <1>1
    <3> QED
      BY <1>1, <1>2, <2>1, <2>3, <2>4, <2>5, <3>1, Extend
  <2>7. g[1] = IF s \in present THEN "no" ELSE "none"
    <3>1. g[1] = Hears(s, 1, last)'
      BY <2>5, <2>6
    <3> QED
      BY <1>2, <1>8, <2>5, <3>1 DEF Hears, Announces, Dismisses, Changes, Tells
  <2>8. s \in present' => Asking(s)'
    BY <1>1, <1>2, <1>8 DEF Asking, Announces
  <2>9. Settles(s, g[Len(inbox)])'
    BY <1>1, <1>6, <1>8, <2>7, <2>8 DEF Settles
  <2>10. Alternates(s, g)'
    BY <1>2, <1>8, <2>7 DEF Alternates, Changes
  <2>11. Foreseen(s)'
    BY <2>6, <2>9, <2>10 DEF Foreseen
  <2>12. Returns(s)'
    BY <1>2, <1>8 DEF Returns, Dismisses
  <2>13. OneObject(s)'
    BY <1>1 DEF Follows, SeatInv, OneObject, AliveFor, Alive, Objects
  <2>14. Listens(s)'
    BY <1>1, <1>7 DEF Listens
  <2> QED
    BY <2>11, <2>12, <2>13, <2>14 DEF SeatInv
<1>10. ManagedInv'
  BY <1>1 DEF Follows, ManagedInv, Now
<1> QED
  BY <1>6, <1>9, <1>10 DEF Follows

\* The answer to a question, for the seat of the LogindSeat that asked.
LEMMA GetAnsweredSeat ==
    ASSUME TypeOK, TypeOK', LogindAnswers, NEW o, Head(calls).op = "Get",
           Head(calls).object = o, ~Unlisted, ~Unlisted', NEW s \in Seats,
           systemSeats[s] = o, o # 0, SeatInv(s)
    PROVE  SeatInv(s)'
<1> DEFINE m == [type |-> "Get", object |-> o, value |-> CanGraphical(s)]
<1>1. o \in Objects /\ logindSeats[o].seat = s
  BY DEF SeatInv, OneObject, AliveFor, Alive
<1>2. /\ calls # <<>> /\ calls' = Tail(calls) /\ inbox' = Append(inbox, m)
      /\ UNCHANGED <<present, graphical, watched, systemSeats, logindSeats, missed>>
  BY <1>1 DEF LogindAnswers, logindVars, daemonVars, historyVars
<1>3. m \in MessageType /\ m.type = "Get" /\ m.object = o /\ m.value = CanGraphical(s)
  <2>1. CanGraphical(s) \in Answer
    BY DEF CanGraphical, Answer
  <2> QED
    BY <1>1, <2>1 DEF MessageType
<1> HIDE DEF m
<1>4. PICK N : N = Len(inbox)
  OBVIOUS
<1>5. PICK f : /\ Forecast(s, f) /\ Settles(s, f[N])
               /\ ~missed => /\ \A n \in 1 .. N :
                                  Changes(inbox[n], s) /\ inbox[n].value => f[n - 1] # "yes"
                             /\ f[N] = "yes" => s \in graphical
  BY <1>4 DEF SeatInv, Foreseen, Alternates
<1>6. PICK last : last = f[N]
  OBVIOUS
<1>7. PICK g : /\ Forecast(s, g)'
               /\ Len(inbox') = N + 1 /\ inbox'[N + 1] = m
               /\ g[N + 1] = Hears(s, N + 1, last)'
               /\ \A n \in 0 .. N : g[n] = f[n]
  <2>1. UNCHANGED <<systemSeats, logindSeats>> /\ (Announces(m, s) => last = "none")
    BY <1>2, <1>3 DEF Announces
  <2>2. Forecast(s, f) /\ inbox' = Append(inbox, m) /\ m \in MessageType
    BY <1>2, <1>3, <1>5
  <2> QED
    BY <1>4, <1>6, <2>1, <2>2, Extend
<1>8. N \in Nat /\ (\A n \in 1 .. N : inbox'[n] = inbox[n])
      /\ Len(calls) \in Nat \ {0} /\ Len(calls') = Len(calls) - 1 /\ Head(calls) = calls[1]
      /\ \A k \in 1 .. Len(calls) - 1 : calls'[k] = calls[k + 1]
  BY <1>2, <1>3, <1>4, Answered
<1>9. /\ s \in watched
      /\ \A k \in 1 .. Len(calls) : ~Matches(calls[k], s)
  <2>1. Asks(calls[1], o) /\ 1 \in 1 .. Len(calls)
    BY <1>8 DEF Asks
  <2>2. ~ \E j \in 1 .. Len(calls) :
            \A k \in 1 .. Len(calls) : Asks(calls[k], o) => j < k
    BY <2>1, <1>8
  <2> QED
    BY <2>2 DEF SeatInv, Listens
<1>10. Listens(s)'
  <2>1. \A k \in 1 .. Len(calls') : ~Matches(calls'[k], s)
    <3>1. \A k \in 1 .. Len(calls') : k + 1 \in 1 .. Len(calls) /\ calls'[k] = calls[k + 1]
      BY <1>8
    <3> QED
      BY <1>9, <3>1
  <2> QED
    BY <1>2, <1>9, <2>1 DEF Listens, Matches
<1>11. g[N + 1] = IF Tells(s, N + 1)' THEN CanGraphical(s) ELSE f[N]
  <2>1. ~Announces(inbox'[N + 1], s) /\ ~Dismisses(inbox'[N + 1], s)
        /\ ~Changes(inbox'[N + 1], s)
    BY <1>3, <1>7 DEF Announces, Dismisses, Changes
  <2>2. inbox'[N + 1].value = CanGraphical(s)
    BY <1>3, <1>7
  <2> QED
    BY <1>6, <1>7, <2>1, <2>2 DEF Hears, Announces, Dismisses, Changes
<1>12. Tells(s, N + 1)' => CanGraphical(s) # "none"
  BY <1>3, <1>7 DEF Tells
<1>13. ASSUME ~Tells(s, N + 1)', CanGraphical(s) # "none" PROVE Asking(s)'
  <2>0. /\ inbox'[N + 1].type = "Get" /\ inbox'[N + 1].object = systemSeats'[s]
        /\ inbox'[N + 1].value # "none"
    BY <1>2, <1>3, <1>7, <1>13
  <2>1. PICK n \in 1 .. N : Dismisses(inbox'[n], s)
    <3>1. SUFFICES ASSUME \A n \in 1 .. N : ~Dismisses(inbox'[n], s) PROVE Tells(s, N + 1)'
      BY <1>13
    <3>2. \A n \in 1 .. N + 1 - 1 : ~(inbox'[n].type = "SeatRemoved" /\ inbox'[n].seat = s)
      BY <1>8, <3>1 DEF Dismisses
    <3> QED
      BY <1>8, <2>0, <3>2 DEF Tells, Dismisses
  <2>2. Dismisses(inbox[n], s)
    BY <1>8, <2>1
  <2>3. s \in present
    BY <1>13 DEF CanGraphical
  <2>4. PICK k \in n + 1 .. N : inbox[k] = [type |-> "SeatNew", seat |-> s]
    BY <1>4, <2>2, <2>3 DEF SeatInv, Returns
  <2>5. k \in 1 .. N /\ k \in 1 .. Len(inbox')
    BY <1>7, <1>8, <2>2
  <2>6. Announces(inbox'[k], s)
    BY <1>8, <2>4, <2>5 DEF Announces
  <2> QED
    BY <2>5, <2>6 DEF Asking, Announces
<1>14. CanGraphical(s)' = CanGraphical(s) /\ (CanGraphical(s) = "none" <=> s \notin present)
       /\ (CanGraphical(s) = "yes" => s \in graphical)
  BY <1>2 DEF CanGraphical
<1>15. Settles(s, g[Len(inbox)])'
  <2>1. f[N] = "none" <=> s \notin present
    BY <1>5 DEF Settles
  <2>2. g[Len(inbox')] = "none" <=> s \notin present' \/ Unlisted'
    BY <1>2, <1>7, <1>11, <1>12, <1>14, <2>1
  <2>3. ASSUME ~Asking(s)', s \in present'
        PROVE  systemSeats'[s] # 0 /\ s \in watched' /\ g[Len(inbox')] = CanGraphical(s)'
    <3>1. g[Len(inbox')] = CanGraphical(s)
      BY <1>2, <1>7, <1>11, <1>13, <1>14, <2>3
    <3> QED
      BY <1>2, <1>9, <1>14, <3>1
  <2> QED
    BY <2>2, <2>3 DEF Settles
<1>16. ~missed' => Alternates(s, g)'
  <2> SUFFICES ASSUME ~missed' PROVE Alternates(s, g)'
    OBVIOUS
  <2>1. ASSUME NEW n \in 1 .. Len(inbox'), Changes(inbox'[n], s), inbox'[n].value
        PROVE  g[n - 1] # "yes"
    <3>1. n # N + 1
      BY <1>3, <1>7, <2>1 DEF Changes
    <3>2. n \in 1 .. N /\ n - 1 \in 0 .. N
      BY <1>7, <1>8, <3>1
    <3> QED
      BY <1>2, <1>5, <1>7, <1>8, <2>1, <3>2
  <2>2. g[Len(inbox')] = "yes" => s \in graphical'
    BY <1>2, <1>5, <1>7, <1>11, <1>14
  <2> QED
    BY <2>1, <2>2 DEF Alternates, Changes
<1>17. Foreseen(s)'
  BY <1>7, <1>15, <1>16 DEF Foreseen
<1>18. Returns(s)'
  <2> SUFFICES ASSUME NEW n \in 1 .. Len(inbox'), Dismisses(inbox'[n], s), s \in present'
               PROVE  \E k \in n + 1 .. Len(inbox') :
                        inbox'[k] = [type |-> "SeatNew", seat |-> s]
    BY DEF Returns, Dismisses
  <2>1. n \in 1 .. N
    <3>1. n # N + 1
      BY <1>3, <1>7 DEF Dismisses
    <3> QED
      BY <1>7, <1>8, <3>1
  <2>2. PICK k \in n + 1 .. N : inbox[k] = [type |-> "SeatNew", seat |-> s]
    BY <1>2, <1>4, <1>8, <2>1 DEF SeatInv, Returns
  <2>3. k \in 1 .. N /\ k \in n + 1 .. Len(inbox')
    BY <1>7, <1>8, <2>1
  <2> QED
    BY <1>8, <2>2, <2>3
<1>19. OneObject(s)'
  BY <1>2 DEF SeatInv, OneObject, AliveFor, Alive, Objects
<1> QED
  BY <1>10, <1>17, <1>18, <1>19 DEF SeatInv

\* ... and for another one.
LEMMA GetAnsweredOther ==
    ASSUME TypeOK, TypeOK', LogindAnswers, NEW o \in Objects, Head(calls).op = "Get",
           Head(calls).object = o, ~Unlisted, ~Unlisted', NEW s \in Seats,
           systemSeats[s] # o, SeatInv(s)
    PROVE  SeatInv(s)'
<1> DEFINE m == [type |-> "Get", object |-> o, value |-> CanGraphical(logindSeats[o].seat)]
<1>2. /\ calls # <<>> /\ calls' = Tail(calls) /\ inbox' = Append(inbox, m)
      /\ UNCHANGED <<present, graphical, watched, systemSeats, logindSeats, missed>>
  BY DEF LogindAnswers, logindVars, daemonVars, historyVars
<1>3. m \in MessageType /\ m.type = "Get" /\ m.object = o
  <2>1. CanGraphical(logindSeats[o].seat) \in Answer
    BY DEF CanGraphical, Answer
  <2> QED
    BY <2>1 DEF MessageType
<1> HIDE DEF m
<1>4. PICK N : N = Len(inbox)
  OBVIOUS
<1>5. PICK f : /\ Forecast(s, f) /\ Settles(s, f[N])
               /\ ~missed => /\ \A n \in 1 .. N :
                                  Changes(inbox[n], s) /\ inbox[n].value => f[n - 1] # "yes"
                             /\ f[N] = "yes" => s \in graphical
  BY <1>4 DEF SeatInv, Foreseen, Alternates
<1>6. PICK last : last = f[N]
  OBVIOUS
<1>7. PICK g : /\ Forecast(s, g)'
               /\ Len(inbox') = N + 1 /\ inbox'[N + 1] = m
               /\ g[N + 1] = Hears(s, N + 1, last)'
               /\ \A n \in 0 .. N : g[n] = f[n]
  <2>1. UNCHANGED <<systemSeats, logindSeats>> /\ (Announces(m, s) => last = "none")
    BY <1>2, <1>3 DEF Announces
  <2>2. Forecast(s, f) /\ inbox' = Append(inbox, m) /\ m \in MessageType
    BY <1>2, <1>3, <1>5
  <2> QED
    BY <1>4, <1>6, <2>1, <2>2, Extend
<1>8. N \in Nat /\ (\A n \in 1 .. N : inbox'[n] = inbox[n])
      /\ Len(calls) \in Nat \ {0} /\ Len(calls') = Len(calls) - 1 /\ Head(calls) = calls[1]
      /\ \A k \in 1 .. Len(calls) - 1 : calls'[k] = calls[k + 1]
  BY <1>2, <1>3, <1>4, Answered
<1>9. g[N + 1] = f[N]
  <2>1. ~Announces(inbox'[N + 1], s) /\ ~Dismisses(inbox'[N + 1], s)
        /\ ~Changes(inbox'[N + 1], s) /\ ~Tells(s, N + 1)'
    BY <1>2, <1>3, <1>7 DEF Announces, Dismisses, Changes, Tells
  <2> QED
    BY <1>6, <1>7, <2>1 DEF Hears, Announces, Dismisses, Changes
<1>10. Asking(s) => Asking(s)'
  <2>1. ASSUME NEW n \in 1 .. N, Announces(inbox[n], s) PROVE Asking(s)'
    <3>1. n \in 1 .. Len(inbox') /\ Announces(inbox'[n], s)
      BY <1>7, <1>8, <2>1
    <3> QED
      BY <3>1 DEF Asking, Announces
  <2>2. ASSUME NEW k \in 1 .. Len(calls), calls[k].op = "Get",
               calls[k].object = systemSeats[s]
        PROVE  Asking(s)'
    <3>1. k # 1
      BY <1>8, <2>2
    <3>2. k - 1 \in 1 .. Len(calls') /\ calls'[k - 1] = calls[(k - 1) + 1] /\ (k - 1) + 1 = k
      BY <1>8, <3>1
    <3> QED
      BY <1>2, <2>2, <3>2 DEF Asking
  <2> QED
    BY <1>4, <2>1, <2>2 DEF Asking
<1>11. Settles(s, g[Len(inbox)])'
  BY <1>2, <1>5, <1>7, <1>9, <1>10 DEF Settles, CanGraphical
<1>12. ~missed' => Alternates(s, g)'
  <2> SUFFICES ASSUME ~missed' PROVE Alternates(s, g)'
    OBVIOUS
  <2>1. ASSUME NEW n \in 1 .. Len(inbox'), Changes(inbox'[n], s), inbox'[n].value
        PROVE  g[n - 1] # "yes"
    <3>1. n # N + 1
      BY <1>3, <1>7, <2>1 DEF Changes
    <3>2. n \in 1 .. N /\ n - 1 \in 0 .. N
      BY <1>7, <1>8, <3>1
    <3> QED
      BY <1>2, <1>5, <1>7, <1>8, <2>1, <3>2
  <2>2. g[Len(inbox')] = "yes" => s \in graphical'
    BY <1>2, <1>5, <1>7, <1>9
  <2> QED
    BY <2>1, <2>2 DEF Alternates, Changes
<1>13. Foreseen(s)'
  BY <1>7, <1>11, <1>12 DEF Foreseen
<1>14. Returns(s)'
  <2> SUFFICES ASSUME NEW n \in 1 .. Len(inbox'), Dismisses(inbox'[n], s), s \in present'
               PROVE  \E k \in n + 1 .. Len(inbox') :
                        inbox'[k] = [type |-> "SeatNew", seat |-> s]
    BY DEF Returns, Dismisses
  <2>1. n \in 1 .. N
    <3>1. n # N + 1
      BY <1>3, <1>7 DEF Dismisses
    <3> QED
      BY <1>7, <1>8, <3>1
  <2>2. PICK k \in n + 1 .. N : inbox[k] = [type |-> "SeatNew", seat |-> s]
    BY <1>2, <1>4, <1>8, <2>1 DEF SeatInv, Returns
  <2>3. k \in 1 .. N /\ k \in n + 1 .. Len(inbox')
    BY <1>7, <1>8, <2>1
  <2> QED
    BY <1>8, <2>2, <2>3
<1>15. OneObject(s)'
  BY <1>2 DEF SeatInv, OneObject, AliveFor, Alive, Objects
<1>16. PICK i : i = systemSeats[s]
  OBVIOUS
<1>17. ASSUME /\ s \in watched
              /\ \A k \in 1 .. Len(calls) : ~Matches(calls[k], s)
       PROVE  /\ s \in watched'
              /\ \A k \in 1 .. Len(calls') : ~Matches(calls'[k], s)
  <2>1. \A k \in 1 .. Len(calls') : k + 1 \in 1 .. Len(calls) /\ calls'[k] = calls[k + 1]
    BY <1>8
  <2> QED
    BY <1>2, <1>17, <2>1
<1>18. ASSUME \A n \in 1 .. Len(inbox) : ~(inbox[n].type = "Get" /\ inbox[n].object = i)
       PROVE  \A n \in 1 .. Len(inbox') : ~(inbox'[n].type = "Get" /\ inbox'[n].object = i)
  <2>1. \A n \in 1 .. Len(inbox') : n \in 1 .. N \/ n = N + 1
    BY <1>7, <1>8
  <2> QED
    BY <1>3, <1>4, <1>7, <1>8, <1>16, <1>18, <2>1
<1>19. ASSUME NEW j \in 1 .. Len(calls),
              calls[j] = [op |-> "watch", seat |-> s],
              \E k \in 1 .. Len(calls) : Asks(calls[k], i),
              \A k \in 1 .. Len(calls) : Asks(calls[k], i) => j < k,
              \A k \in 1 .. Len(calls) : Matches(calls[k], s) => k <= j
       PROVE  \E l \in 1 .. Len(calls') :
                /\ calls'[l] = [op |-> "watch", seat |-> s]
                /\ \E k \in 1 .. Len(calls') : Asks(calls'[k], i)
                /\ \A k \in 1 .. Len(calls') : Asks(calls'[k], i) => l < k
                /\ \A k \in 1 .. Len(calls') : Matches(calls'[k], s) => k <= l
  <2>1. j # 1
    BY <1>8, <1>19
  <2>2. /\ j - 1 \in 1 .. Len(calls') /\ j \in Int
        /\ \A k \in 1 .. Len(calls') : k + 1 \in 1 .. Len(calls) /\ calls'[k] = calls[k + 1]
    BY <1>8, <2>1
  <2>3. calls'[j - 1] = [op |-> "watch", seat |-> s]
    <3>1. calls'[j - 1] = calls[(j - 1) + 1] /\ (j - 1) + 1 = j
      BY <2>2
    <3> QED
      BY <1>19, <3>1
  <2>4. \E k \in 1 .. Len(calls') : Asks(calls'[k], i)
    <3>1. PICK k \in 1 .. Len(calls) : Asks(calls[k], i)
      BY <1>19
    <3>2. k # 1
      BY <1>8, <1>19, <3>1
    <3>3. k - 1 \in 1 .. Len(calls') /\ calls'[k - 1] = calls[(k - 1) + 1] /\ (k - 1) + 1 = k
      BY <1>8, <3>2
    <3> QED
      BY <3>1, <3>3
  <2>5. ASSUME NEW k \in 1 .. Len(calls'), Asks(calls'[k], i) PROVE j - 1 < k
    <3>1. j < k + 1
      BY <1>19, <2>2, <2>5
    <3> QED
      BY <2>2, <3>1
  <2>6. ASSUME NEW k \in 1 .. Len(calls'), Matches(calls'[k], s) PROVE k <= j - 1
    <3>1. k + 1 <= j
      BY <1>19, <2>2, <2>6
    <3> QED
      BY <2>2, <3>1
  <2> QED
    BY <2>2, <2>3, <2>4, <2>5, <2>6
<1>20. Listens(s)'
  <2>1. CASE i = 0
    BY <1>2, <1>16, <2>1 DEF Listens
  <2>2. CASE i # 0 /\ s \in watched /\ \A k \in 1 .. Len(calls) : ~Matches(calls[k], s)
    BY <1>17, <2>2 DEF Listens, Matches
  <2>3. CASE i # 0 /\ ~(s \in watched /\ \A k \in 1 .. Len(calls) : ~Matches(calls[k], s))
    <3>1. /\ \A n \in 1 .. Len(inbox) : ~(inbox[n].type = "Get" /\ inbox[n].object = i)
          /\ \E j \in 1 .. Len(calls) :
               /\ calls[j] = [op |-> "watch", seat |-> s]
               /\ \E k \in 1 .. Len(calls) : Asks(calls[k], i)
               /\ \A k \in 1 .. Len(calls) : Asks(calls[k], i) => j < k
               /\ \A k \in 1 .. Len(calls) : Matches(calls[k], s) => k <= j
      BY <1>16, <2>3 DEF SeatInv, Listens
    <3>2. PICK l \in 1 .. Len(calls') :
                /\ calls'[l] = [op |-> "watch", seat |-> s]
                /\ \E k \in 1 .. Len(calls') : Asks(calls'[k], i)
                /\ \A k \in 1 .. Len(calls') : Asks(calls'[k], i) => l < k
                /\ \A k \in 1 .. Len(calls') : Matches(calls'[k], s) => k <= l
      BY <1>19, <3>1
    <3>3. \A n \in 1 .. Len(inbox') : ~(inbox'[n].type = "Get" /\ inbox'[n].object = i)
      BY <1>18, <3>1
    <3>4. systemSeats'[s] = i
      BY <1>2, <1>16
    <3> QED
      BY <3>2, <3>3, <3>4 DEF Listens, Matches, Asks
  <2> QED
    BY <2>1, <2>2, <2>3
<1> QED
  BY <1>13, <1>14, <1>15, <1>20 DEF SeatInv

\* Either answer keeps the invariant.
LEMMA AnswersFollows ==
    ASSUME TypeOK, LogindAnswers, Follows
    PROVE  Follows'
<1>1. CASE Head(calls).op = "ListSeats"
  BY <1>1, ListAnswered
<1>2. CASE Head(calls).op # "ListSeats"
  <2>1. calls \in Seq(CallType) /\ calls # <<>>
    BY DEF TypeOK, LogindAnswers
  <2>2. Head(calls) \in CallType /\ Head(calls) = calls[1] /\ Len(calls) \in Nat \ {0}
        /\ calls' = Tail(calls) /\ Len(calls') = Len(calls) - 1
        /\ \A k \in 1 .. Len(calls) - 1 : calls'[k] = calls[k + 1]
    <3>1. calls' = Tail(calls)
      BY DEF LogindAnswers
    <3> HIDE DEF CallType
    <3> QED
      BY <2>1, <3>1, HeadTailProperties, EmptySeq
  <2>3. PICK o : o = Head(calls).object
    OBVIOUS
  <2>4. Head(calls).op = "Get" /\ o \in Objects
    <3>1. ~IsMatch(Head(calls))
      BY DEF LogindAnswers
    <3> QED
      BY <1>2, <2>2, <2>3, <3>1 DEF CallType, IsMatch
  <2>5. ~Unlisted
    <3>1. ASSUME NEW k \in 1 .. Len(calls), calls[k].op = "ListSeats" PROVE FALSE
      <4>1. k = 1
        BY <3>1 DEF Follows, ListInv
      <4> QED
        BY <1>2, <2>2, <3>1, <4>1
    <3> QED
      BY <3>1 DEF Unlisted
  <2>6. ~Unlisted'
    <3>1. \A k \in 1 .. Len(calls') : k + 1 \in 1 .. Len(calls) /\ calls'[k] = calls[k + 1]
      BY <2>2
    <3> QED
      BY <2>5, <3>1 DEF Unlisted
  <2>7. ListInv'
    BY <2>6 DEF ListInv, Unlisted
  <2>8. ManagedInv'
    BY DEF Follows, ManagedInv, Now, LogindAnswers, daemonVars
  <2>9. ASSUME NEW s \in Seats PROVE SeatInv(s)'
    <3>1. SeatInv(s) /\ TypeOK' /\ o # 0
      BY <2>4, AnswersTypes DEF Follows, Objects
    <3> QED
      BY <2>3, <2>4, <2>5, <2>6, <3>1, GetAnsweredSeat, GetAnsweredOther
  <2> QED
    BY <2>7, <2>8, <2>9 DEF Follows
<1> QED
  BY <1>1, <1>2

-----------------------------------------------------------------------------
(***************************************************************************)
(* What the daemon receives.                                               *)
(***************************************************************************)
\* A seat that is announced is new, and a change to graphical is one.
LEMMA HeadFacts ==
    ASSUME TypeOK, NEW type, Receive(type), NEW s \in Seats, Foreseen(s)
    PROVE  /\ Announces(inbox[1], s) => Now(s) = "none"
           /\ ~missed /\ Changes(inbox[1], s) /\ inbox[1].value => Now(s) # "yes"
<1>1. PICK f : Forecast(s, f) /\ (~missed => Alternates(s, f))
  BY DEF Foreseen
<1>2. 1 \in 1 .. Len(inbox) /\ 1 - 1 = 0
  BY Received
<1>3. Announces(inbox[1], s) => f[1 - 1] = "none"
  BY <1>1, <1>2 DEF Forecast
<1>4. ~missed /\ Changes(inbox[1], s) /\ inbox[1].value => f[1 - 1] # "yes"
  BY <1>1, <1>2 DEF Alternates
<1>5. f[1 - 1] = Now(s)
  BY <1>1, <1>2 DEF Forecast
<1> QED
  BY <1>3, <1>4, <1>5

\* A message received, what it will take for CanGraphical in the end is what it
\* was going to take for it.
LEMMA ReceivedSeat ==
    ASSUME TypeOK, NEW type, Receive(type), NEW s \in Seats, Foreseen(s), Returns(s),
           UNCHANGED <<present, graphical, watched, missed>>, Unlisted' <=> Unlisted,
           Now(s)' = Hears(s, 1, Now(s)),
           \A n \in 1 .. Len(inbox) - 1 : Tells(s, n)' <=> Tells(s, n + 1),
           ~Asking(s)' /\ s \in present => ~Asking(s) /\ systemSeats'[s] = systemSeats[s]
    PROVE  Foreseen(s)' /\ Returns(s)'
<1>1. PICK N : N = Len(inbox)
  OBVIOUS
<1>2. /\ N \in Nat \ {0} /\ Len(inbox') = N - 1
      /\ \A n \in 1 .. N - 1 : inbox'[n] = inbox[n + 1]
  BY <1>1, Received
<1>3. PICK f : /\ Forecast(s, f) /\ Settles(s, f[N])
               /\ ~missed => /\ \A n \in 1 .. N :
                                  Changes(inbox[n], s) /\ inbox[n].value => f[n - 1] # "yes"
                             /\ f[N] = "yes" => s \in graphical
  BY <1>1 DEF Foreseen, Alternates
<1>4. PICK g : Forecast(s, g)' /\ \A n \in 0 .. N - 1 : g[n] = f[n + 1]
  <2>1. Forecast(s, f)
    BY <1>3
  <2> QED
    BY <1>1, <2>1, Shift
<1>5. g[Len(inbox')] = f[N]
  <2>1. N - 1 \in 0 .. N - 1 /\ (N - 1) + 1 = N
    BY <1>2
  <2> QED
    BY <1>2, <1>4, <2>1
<1>6. Settles(s, g[Len(inbox)])'
  BY <1>3, <1>5 DEF Settles, CanGraphical
<1>7. ~missed' => Alternates(s, g)'
  <2> SUFFICES ASSUME ~missed' PROVE Alternates(s, g)'
    OBVIOUS
  <2>1. ASSUME NEW n \in 1 .. Len(inbox'), Changes(inbox'[n], s), inbox'[n].value
        PROVE  g[n - 1] # "yes"
    <3>1. n \in 1 .. N - 1 /\ n + 1 \in 1 .. N /\ n - 1 \in 0 .. N - 1
          /\ (n - 1) + 1 = n /\ (n + 1) - 1 = n
      BY <1>2
    <3>2. g[n - 1] = f[n] /\ inbox'[n] = inbox[n + 1]
      BY <1>2, <1>4, <3>1
    <3> QED
      BY <1>3, <2>1, <3>1, <3>2
  <2> QED
    BY <1>3, <1>5, <2>1 DEF Alternates, Changes
<1>8. Foreseen(s)'
  BY <1>4, <1>6, <1>7 DEF Foreseen
<1>9. Returns(s)'
  <2> SUFFICES ASSUME NEW n \in 1 .. Len(inbox'), Dismisses(inbox'[n], s), s \in present'
               PROVE  \E k \in n + 1 .. Len(inbox') :
                        inbox'[k] = [type |-> "SeatNew", seat |-> s]
    BY DEF Returns, Dismisses
  <2>1. n \in 1 .. N - 1 /\ n + 1 \in 1 .. N
    BY <1>2
  <2>2. PICK k \in (n + 1) + 1 .. N : inbox[k] = [type |-> "SeatNew", seat |-> s]
    BY <1>1, <1>2, <2>1 DEF Returns
  <2>3. k - 1 \in n + 1 .. Len(inbox') /\ k - 1 \in 1 .. N - 1 /\ (k - 1) + 1 = k
    BY <1>2, <2>1
  <2> QED
    BY <1>2, <2>2, <2>3
<1> QED
  BY <1>8, <1>9

\* What the daemon is told, when the message received does not end the seat.
LEMMA TellsShifts ==
    ASSUME TypeOK, NEW type, Receive(type), NEW s \in Seats,
           ~Dismisses(inbox[1], s), systemSeats'[s] = systemSeats[s]
    PROVE  \A n \in 1 .. Len(inbox) - 1 : Tells(s, n)' <=> Tells(s, n + 1)
<1>1. PICK N : N = Len(inbox)
  OBVIOUS
<1>2. /\ N \in Nat \ {0} /\ Len(inbox') = N - 1
      /\ \A n \in 1 .. N - 1 : inbox'[n] = inbox[n + 1]
  BY <1>1, Received
<1>3. ASSUME NEW n \in 1 .. N - 1
      PROVE  (\A m \in 1 .. n - 1 : ~Dismisses(inbox'[m], s))
                <=> (\A m \in 1 .. (n + 1) - 1 : ~Dismisses(inbox[m], s))
  <2>1. ASSUME \A m \in 1 .. n - 1 : ~Dismisses(inbox'[m], s), NEW m \in 1 .. (n + 1) - 1
        PROVE  ~Dismisses(inbox[m], s)
    <3>1. CASE m = 1
      BY <3>1
    <3>2. CASE m # 1
      <4>1. m - 1 \in 1 .. n - 1 /\ m - 1 \in 1 .. N - 1 /\ (m - 1) + 1 = m
        BY <1>2, <3>2
      <4> QED
        BY <1>2, <2>1, <4>1
    <3> QED
      BY <3>1, <3>2
  <2>2. ASSUME \A m \in 1 .. (n + 1) - 1 : ~Dismisses(inbox[m], s), NEW m \in 1 .. n - 1
        PROVE  ~Dismisses(inbox'[m], s)
    <3>1. m + 1 \in 1 .. (n + 1) - 1 /\ m \in 1 .. N - 1
      BY <1>2
    <3> QED
      BY <1>2, <2>2, <3>1
  <2> QED
    BY <2>1, <2>2
<1>4. ASSUME NEW n \in 1 .. N - 1 PROVE Tells(s, n)' <=> Tells(s, n + 1)
  <2>1. inbox'[n] = inbox[n + 1]
    BY <1>2
  <2>2. Tells(s, n)' <=> /\ inbox[n + 1].type = "Get" /\ inbox[n + 1].object = systemSeats[s]
                         /\ inbox[n + 1].value # "none"
                         /\ \A m \in 1 .. n - 1 : ~Dismisses(inbox'[m], s)
    BY <2>1 DEF Tells, Dismisses
  <2>3. Tells(s, n + 1) <=>
          /\ inbox[n + 1].type = "Get" /\ inbox[n + 1].object = systemSeats[s]
          /\ inbox[n + 1].value # "none"
          /\ \A m \in 1 .. (n + 1) - 1 : ~Dismisses(inbox[m], s)
    BY <1>2 DEF Tells
  <2> QED
    BY <1>3, <2>2, <2>3
<1> QED
  BY <1>1, <1>4

\* ... when the seat is gone with it or has just come: there is no answer yet.
LEMMA NothingTold ==
    ASSUME TypeOK, TypeOK', NEW type, Receive(type), NEW s \in Seats,
           Dismisses(inbox[1], s) \/ systemSeats[s] = 0, systemSeats'[s] \notin Objects
    PROVE  \A n \in 1 .. Len(inbox) - 1 : Tells(s, n)' <=> Tells(s, n + 1)
<1>1. PICK N : N = Len(inbox)
  OBVIOUS
<1>2. /\ N \in Nat \ {0} /\ Len(inbox') = N - 1
      /\ \A n \in 1 .. N - 1 : inbox'[n] = inbox[n + 1]
  BY <1>1, Received
<1>3. ASSUME NEW n \in 1 .. N - 1, inbox[n + 1].type = "Get"
      PROVE  inbox[n + 1].object \in Objects /\ inbox[n + 1].object # 0
  <2>1. n + 1 \in 1 .. Len(inbox)
    BY <1>1, <1>2
  <2>2. inbox[n + 1] \in MessageType
    <3>1. inbox \in Seq(MessageType)
      BY DEF TypeOK
    <3> HIDE DEF MessageType
    <3> QED
      BY <2>1, <3>1, ElementOfSeq
  <2>3. inbox[n + 1].object \in Objects
    BY <1>3, <2>2 DEF MessageType
  <2> QED
    BY <2>3 DEF Objects
<1>4. ASSUME NEW n \in 1 .. N - 1 PROVE ~Tells(s, n)' /\ ~Tells(s, n + 1)
  <2>1. inbox'[n] = inbox[n + 1]
    BY <1>2
  <2>2. ~Tells(s, n)'
    BY <1>3, <2>1 DEF Tells
  <2>3. CASE Dismisses(inbox[1], s)
    <3>1. 1 \in 1 .. (n + 1) - 1
      BY <1>2
    <3>2. ~Tells(s, n + 1)
      BY <2>3, <3>1 DEF Tells
    <3> QED
      BY <2>2, <3>2
  <2>4. CASE systemSeats[s] = 0
    <3>1. ~Tells(s, n + 1)
      BY <1>3, <2>4 DEF Tells
    <3> QED
      BY <2>2, <3>1
  <2> QED
    BY <2>3, <2>4
<1> QED
  BY <1>1, <1>4

\* What the daemon asks stays asked while other things are received.
LEMMA AskingStays ==
    ASSUME TypeOK, NEW type, Receive(type), NEW s \in Seats, ~Announces(inbox[1], s),
           systemSeats'[s] = systemSeats[s],
           Len(calls') >= Len(calls), Len(calls') \in Nat,
           \A k \in 1 .. Len(calls) : calls'[k] = calls[k], Asking(s)
    PROVE  Asking(s)'
<1>1. Len(calls) \in Nat /\ \A k \in 1 .. Len(calls) : k \in 1 .. Len(calls')
  <2>1. calls \in Seq(CallType)
    BY DEF TypeOK
  <2>2. Len(calls) \in Nat
    <3> HIDE DEF CallType
    <3> QED
      BY <2>1, LenProperties
  <2> QED
    BY <2>2
<1>2. CASE \E k \in 1 .. Len(calls) : calls[k].op = "Get" /\ calls[k].object = systemSeats[s]
  BY <1>1, <1>2 DEF Asking
<1>3. ASSUME NEW n \in 1 .. Len(inbox), Announces(inbox[n], s) PROVE Asking(s)'
  <2>1. n # 1
    BY <1>3
  <2>2. n - 1 \in 1 .. Len(inbox') /\ inbox'[n - 1] = inbox[n]
    <3>1. n - 1 \in 1 .. Len(inbox) - 1 /\ n - 1 \in 1 .. Len(inbox') /\ (n - 1) + 1 = n
      BY <2>1, Received
    <3> QED
      BY <3>1, Received
  <2> QED
    BY <1>3, <2>2 DEF Asking, Announces
<1> QED
  BY <1>2, <1>3 DEF Asking

\* A LogindSeat that no answer is on its way to is still told nothing.
LEMMA UntoldStays ==
    ASSUME TypeOK, NEW type, Receive(type), NEW i,
           \A n \in 1 .. Len(inbox) : ~(inbox[n].type = "Get" /\ inbox[n].object = i)
    PROVE  \A n \in 1 .. Len(inbox') : ~(inbox'[n].type = "Get" /\ inbox'[n].object = i)
<1>1. ASSUME NEW n \in 1 .. Len(inbox')
      PROVE  n + 1 \in 1 .. Len(inbox) /\ inbox'[n] = inbox[n + 1]
  BY Received
<1> QED
  BY <1>1

\* What the daemon sends meanwhile is about other seats: the subscription of the
\* seat's LogindSeat is as it was.
LEMMA ListensStays ==
    ASSUME TypeOK, NEW type, Receive(type), NEW s \in Seats, Listens(s),
           systemSeats'[s] = systemSeats[s], UNCHANGED watched,
           \A k \in 1 .. Len(calls) : k \in 1 .. Len(calls') /\ calls'[k] = calls[k],
           \A k \in 1 .. Len(calls') : Matches(calls'[k], s) =>
              k \in 1 .. Len(calls) /\ Matches(calls[k], s),
           \A k \in 1 .. Len(calls') : Asks(calls'[k], systemSeats[s]) =>
              k \in 1 .. Len(calls) /\ Asks(calls[k], systemSeats[s])
    PROVE  Listens(s)'
<1>1. PICK i : i = systemSeats[s] /\ systemSeats'[s] = i
  OBVIOUS
<1>2. (\A n \in 1 .. Len(inbox) : ~(inbox[n].type = "Get" /\ inbox[n].object = i))
        => \A n \in 1 .. Len(inbox') : ~(inbox'[n].type = "Get" /\ inbox'[n].object = i)
  BY UntoldStays
<1>3. \A k \in 1 .. Len(calls') : Asks(calls'[k], i) => k \in 1 .. Len(calls) /\ Asks(calls[k], i)
  BY <1>1
<1>4. CASE i = 0
  BY <1>1, <1>4 DEF Listens
<1>5. CASE s \in watched /\ \A k \in 1 .. Len(calls) : ~Matches(calls[k], s)
  <2>1. s \in watched' /\ \A k \in 1 .. Len(calls') : ~Matches(calls'[k], s)
    BY <1>5
  <2> QED
    BY <2>1 DEF Listens, Matches
<1>6. CASE i # 0 /\ ~(s \in watched /\ \A k \in 1 .. Len(calls) : ~Matches(calls[k], s))
  <2>1. /\ \A n \in 1 .. Len(inbox) : ~(inbox[n].type = "Get" /\ inbox[n].object = i)
        /\ \E l \in 1 .. Len(calls) :
             /\ calls[l] = [op |-> "watch", seat |-> s]
             /\ \E k \in 1 .. Len(calls) : Asks(calls[k], i)
             /\ \A k \in 1 .. Len(calls) : Asks(calls[k], i) => l < k
             /\ \A k \in 1 .. Len(calls) : Matches(calls[k], s) => k <= l
    BY <1>1, <1>6 DEF Listens
  <2>2. PICK l \in 1 .. Len(calls) :
             /\ calls[l] = [op |-> "watch", seat |-> s]
             /\ \E k \in 1 .. Len(calls) : Asks(calls[k], i)
             /\ \A k \in 1 .. Len(calls) : Asks(calls[k], i) => l < k
             /\ \A k \in 1 .. Len(calls) : Matches(calls[k], s) => k <= l
    BY <2>1
  <2>3. /\ l \in 1 .. Len(calls') /\ calls'[l] = [op |-> "watch", seat |-> s]
        /\ \E k \in 1 .. Len(calls') : Asks(calls'[k], i)
        /\ \A k \in 1 .. Len(calls') : Asks(calls'[k], i) => l < k
        /\ \A k \in 1 .. Len(calls') : Matches(calls'[k], s) => k <= l
    BY <1>3, <2>2
  <2>4. \A n \in 1 .. Len(inbox') : ~(inbox'[n].type = "Get" /\ inbox'[n].object = i)
    BY <1>2, <2>1
  <2> QED
    BY <1>1, <2>3, <2>4 DEF Listens, Matches, Asks
<1> QED
  BY <1>4, <1>5, <1>6

-----------------------------------------------------------------------------
(***************************************************************************)
(* A change, an answer.                                                    *)
(***************************************************************************)
\* What is received comes after the list of seats.
LEMMA Listed ==
    ASSUME TypeOK, NEW type, Receive(type), ListInv
    PROVE  ~Unlisted
  BY DEF ListInv, Receive

\* No list is asked for after that.
LEMMA ListStays ==
    ASSUME TypeOK, NEW type, Receive(type), ListInv, UNCHANGED calls
    PROVE  ListInv' /\ ~Unlisted'
<1>1. ~Unlisted
  BY Listed
<1>2. ~Unlisted'
  BY <1>1 DEF Unlisted
<1> QED
  BY <1>2 DEF ListInv, Unlisted

\* canGraphicalChanged(false) of a seat, and its end: no Seat is left.
LEMMA RemovedManaged ==
    ASSUME NEW s, RemoveSeat(s)
    PROVE  managed' = managed \ {s}
  BY DEF RemoveSeat

\* A change of CanGraphical.
LEMMA ChangedSeat ==
    ASSUME TypeOK, TypeOK', Follows, ReceivePropertiesChanged, Frame, NEW s \in Seats
    PROVE  SeatInv(s)' /\ (s \in managed' <=> Now(s)' = "yes")
<1> DEFINE x == Head(inbox).seat
           v == Head(inbox).value
<1>1. /\ Receive("PropertiesChanged") /\ UNCHANGED <<systemSeats, calls>>
      /\ UNCHANGED <<present, graphical, watched, missed>>
      /\ logindSeats' = [i \in Objects |->
               IF Alive(i, x) THEN [logindSeats[i] EXCEPT !.canGraphical = v]
                              ELSE logindSeats[i]]
      /\ IF v THEN CreateSeat(x, Cardinality(AliveFor(x)))
         ELSE IF AliveFor(x) # {} THEN RemoveSeat(x)
         ELSE UNCHANGED <<running, managed, exported>>
  BY DEF ReceivePropertiesChanged, Frame, logindVars, historyVars
<1>2. Head(inbox) \in MessageType /\ Head(inbox) = inbox[1]
      /\ Head(inbox).type = "PropertiesChanged"
  BY <1>1, Received
<1>3. x \in Seats /\ v \in BOOLEAN
  BY <1>2 DEF MessageType
<1>4. SeatInv(s) /\ (s \in managed <=> Now(s) = "yes") /\ OneObject(x) /\ ListInv
  BY <1>3 DEF Follows, ManagedInv, SeatInv
<1>5. /\ ~Announces(inbox[1], s) /\ ~Dismisses(inbox[1], s) /\ ~Tells(s, 1)
      /\ (Changes(inbox[1], s) <=> s = x) /\ inbox[1].value = v
  BY <1>2 DEF Announces, Dismisses, Changes, Tells
<1> HIDE DEF x, v
<1>6. DOMAIN logindSeats = Objects /\ Objects' = Objects
      /\ \A i \in Objects : logindSeats[i] \in LogindSeat
  <2>1. logindSeats \in Seq(LogindSeat)
    BY DEF TypeOK
  <2>2. DOMAIN logindSeats = Objects /\ Len(logindSeats) \in Nat
        /\ \A i \in Objects : logindSeats[i] \in LogindSeat
    <3> HIDE DEF LogindSeat
    <3> QED
      BY <2>1, LenProperties, ElementOfSeq DEF Objects
  <2>3. logindSeats' \in Seq(LogindSeat)
    BY DEF TypeOK
  <2>4. DOMAIN logindSeats' = 1 .. Len(logindSeats') /\ Len(logindSeats') \in Nat
    <3> HIDE DEF LogindSeat
    <3> QED
      BY <2>3, LenProperties
  <2>5. 1 .. Len(logindSeats') = 1 .. Len(logindSeats)
    BY <1>1, <2>4 DEF Objects
  <2> QED
    BY <2>2, <2>5 DEF Objects
<1>7. ASSUME NEW i \in Objects
      PROVE  /\ logindSeats'[i].seat = logindSeats[i].seat
             /\ logindSeats'[i].alive = logindSeats[i].alive
             /\ logindSeats'[i].canGraphical = IF Alive(i, x) THEN v
                                               ELSE logindSeats[i].canGraphical
  <2>1. logindSeats'[i] = IF Alive(i, x) THEN [logindSeats[i] EXCEPT !.canGraphical = v]
                          ELSE logindSeats[i]
    BY <1>1
  <2>2. logindSeats[i] \in LogindSeat
    BY <1>6
  <2> QED
    BY <2>1, <2>2 DEF LogindSeat
<1>8. AliveFor(s)' = AliveFor(s)
  BY <1>6, <1>7 DEF AliveFor, Alive
<1>9. systemSeats[s] # 0 => systemSeats[s] \in Objects
        /\ (Alive(systemSeats[s], x) <=> s = x)
  <2>1. systemSeats[s] # 0 => systemSeats[s] \in AliveFor(s)
    BY <1>4 DEF SeatInv, OneObject
  <2> QED
    BY <2>1 DEF AliveFor, Alive
<1>10. Now(s)' = IF systemSeats[s] # 0 /\ s = x THEN IF v THEN "yes" ELSE "no" ELSE Now(s)
  <2>1. CASE systemSeats[s] = 0
    BY <1>1, <2>1 DEF Now
  <2>2. CASE systemSeats[s] # 0
    BY <1>1, <1>7, <1>9, <2>2 DEF Now
  <2> QED
    BY <2>1, <2>2
<1>11. Now(s)' = Hears(s, 1, Now(s))
  BY <1>5, <1>10 DEF Hears, Now
<1>12. ~Unlisted /\ ~Unlisted'
  BY <1>1, <1>4, Listed, ListStays
<1>13. \A n \in 1 .. Len(inbox) - 1 : Tells(s, n)' <=> Tells(s, n + 1)
  BY <1>1, <1>5, TellsShifts
<1>14. Asking(s) => Asking(s)'
  <2>1. Len(calls) \in Nat
    <3>1. calls \in Seq(CallType)
      BY DEF TypeOK
    <3> HIDE DEF CallType
    <3> QED
      BY <3>1, LenProperties
  <2>2. Len(calls') >= Len(calls) /\ Len(calls') \in Nat
        /\ \A k \in 1 .. Len(calls) : calls'[k] = calls[k]
    BY <1>1, <2>1
  <2> QED
    BY <1>1, <1>5, <2>2, AskingStays
<1>15. Foreseen(s)' /\ Returns(s)'
  BY <1>1, <1>4, <1>11, <1>12, <1>13, <1>14, ReceivedSeat DEF SeatInv
<1>16. OneObject(s)'
  BY <1>1, <1>4, <1>8 DEF SeatInv, OneObject
<1>17. Listens(s)'
  BY <1>1, <1>4, ListensStays DEF SeatInv
<1>18. s \in managed' <=> Now(s)' = "yes"
  <2>1. AliveFor(x) = IF systemSeats[x] = 0 THEN {} ELSE {systemSeats[x]}
    BY <1>4 DEF OneObject
  <2>2. CASE v
    <3>1. managed' = IF Cardinality(AliveFor(x)) > 0 THEN managed \union {x} ELSE managed
      BY <1>1, <2>2 DEF CreateSeat
    <3>2. Cardinality(AliveFor(x)) = IF systemSeats[x] = 0 THEN 0 ELSE 1
      BY <2>1, FS_EmptySet, FS_Singleton
    <3> QED
      BY <1>4, <1>10, <2>2, <3>1, <3>2 DEF Now
  <2>3. CASE ~v
    <3>1. managed' = IF systemSeats[x] # 0 THEN managed \ {x} ELSE managed
      BY <1>1, <2>1, <2>3, RemovedManaged
    <3> QED
      BY <1>4, <1>10, <2>3, <3>1 DEF Now
  <2> QED
    BY <2>2, <2>3
<1> QED
  BY <1>15, <1>16, <1>17, <1>18 DEF SeatInv

\* ... for all of the seats.
LEMMA ChangedFollows ==
    ASSUME TypeOK, TypeOK', Follows, ReceivePropertiesChanged, Frame
    PROVE  Follows'
<1>1. ListInv'
  BY ListStays DEF Follows, ReceivePropertiesChanged
<1> QED
  BY <1>1, ChangedSeat DEF Follows, ManagedInv

\* The answer to the question of a LogindSeat.
LEMMA GetSeat ==
    ASSUME TypeOK, TypeOK', Follows, ReceiveGet, Frame, NEW s \in Seats
    PROVE  SeatInv(s)' /\ (s \in managed' <=> Now(s)' = "yes")
<1> DEFINE o == Head(inbox).object
           v == Head(inbox).value
           x == logindSeats[o].seat
           news == v # "none" /\ logindSeats[o].alive
                   /\ logindSeats[o].canGraphical # (v = "yes")
<1>1. /\ Receive("Get") /\ UNCHANGED <<systemSeats, calls>>
      /\ UNCHANGED <<present, graphical, watched, missed>>
      /\ IF news
         THEN /\ logindSeats' = [logindSeats EXCEPT ![o].canGraphical = (v = "yes")]
              /\ IF v = "yes" THEN CreateSeat(x, 1) ELSE RemoveSeat(x)
         ELSE UNCHANGED <<logindSeats, running, managed, exported>>
  BY DEF ReceiveGet, Frame, logindVars, historyVars
<1>2. Head(inbox) \in MessageType /\ Head(inbox) = inbox[1] /\ Head(inbox).type = "Get"
  BY <1>1, Received
<1>3. o \in Objects /\ o # 0 /\ v \in Answer
  BY <1>2 DEF MessageType, Objects
<1>4. DOMAIN logindSeats = Objects /\ \A i \in Objects : logindSeats[i] \in LogindSeat
  <2>1. logindSeats \in Seq(LogindSeat)
    BY DEF TypeOK
  <2> HIDE DEF LogindSeat
  <2> QED
    BY <2>1, LenProperties, ElementOfSeq DEF Objects
<1>5. x \in Seats /\ logindSeats[o].canGraphical \in BOOLEAN
  <2>1. logindSeats[o] \in LogindSeat
    BY <1>3, <1>4
  <2> QED
    BY <2>1 DEF LogindSeat
<1>6. SeatInv(s) /\ (s \in managed <=> Now(s) = "yes") /\ OneObject(x) /\ OneObject(s) /\ ListInv
  BY <1>5 DEF Follows, ManagedInv, SeatInv
<1>7. /\ ~Announces(inbox[1], s) /\ ~Dismisses(inbox[1], s) /\ ~Changes(inbox[1], s)
      /\ (Tells(s, 1) <=> systemSeats[s] = o /\ v # "none")
  BY <1>2 DEF Announces, Dismisses, Changes, Tells
<1>8. logindSeats[o].alive => systemSeats[x] = o
  BY <1>3, <1>6 DEF OneObject, AliveFor, Alive
<1>9. systemSeats[s] = o => s = x /\ logindSeats[o].alive
  BY <1>3, <1>6 DEF OneObject, AliveFor, Alive
<1>10. ASSUME NEW i \in Objects
       PROVE  /\ logindSeats'[i].seat = logindSeats[i].seat
              /\ logindSeats'[i].alive = logindSeats[i].alive
              /\ logindSeats'[i].canGraphical = IF news /\ i = o THEN v = "yes"
                                                ELSE logindSeats[i].canGraphical
  <2>1. logindSeats[i] \in LogindSeat
    BY <1>4
  <2>2. CASE news
    <3>1. logindSeats' = [logindSeats EXCEPT ![o].canGraphical = (v = "yes")]
      BY <1>1, <2>2
    <3> HIDE DEF o, v, x, news
    <3> QED
      BY <1>3, <1>4, <2>1, <2>2, <3>1 DEF LogindSeat
  <2>3. CASE ~news
    BY <1>1, <2>3
  <2> QED
    BY <2>2, <2>3
<1>11. Objects' = Objects
  <2>1. CASE news
    <3>1. logindSeats' = [logindSeats EXCEPT ![o].canGraphical = (v = "yes")]
      BY <1>1, <2>1
    <3>2. DOMAIN logindSeats' = Objects
      BY <1>4, <3>1
    <3>3. logindSeats' \in Seq(LogindSeat) /\ logindSeats \in Seq(LogindSeat)
      BY DEF TypeOK
    <3> HIDE DEF o, v, x, news
    <3>4. DOMAIN logindSeats' = 1 .. Len(logindSeats') /\ Len(logindSeats') \in Nat
          /\ Len(logindSeats) \in Nat
      <4> HIDE DEF LogindSeat
      <4> QED
        BY <3>3, LenProperties
    <3> QED
      BY <3>2, <3>4 DEF Objects
  <2>2. CASE ~news
    BY <1>1, <2>2 DEF Objects
  <2> QED
    BY <2>1, <2>2
<1>12. AliveFor(s)' = AliveFor(s)
  BY <1>10, <1>11 DEF AliveFor, Alive
<1>13. systemSeats[s] # 0 => systemSeats[s] \in Objects
  BY <1>6 DEF OneObject, AliveFor
<1>14. Now(s)' = IF news /\ systemSeats[s] = o THEN v ELSE Now(s)
  <2>1. CASE systemSeats[s] = 0
    BY <1>1, <1>3, <2>1 DEF Now
  <2>2. CASE systemSeats[s] # 0
    <3>1. Now(s)' = IF logindSeats'[systemSeats[s]].canGraphical THEN "yes" ELSE "no"
      BY <1>1, <2>2 DEF Now
    <3>2. news => v \in {"yes", "no"}
      BY <1>3 DEF Answer
    <3>3. Now(s) = IF logindSeats[systemSeats[s]].canGraphical THEN "yes" ELSE "no"
      BY <2>2 DEF Now
    <3> HIDE DEF o, v, x, news
    <3> QED
      BY <1>10, <1>13, <2>2, <3>1, <3>2, <3>3
  <2> QED
    BY <2>1, <2>2
<1>15. Hears(s, 1, Now(s)) = IF Tells(s, 1) THEN v ELSE Now(s)
  BY <1>2, <1>7 DEF Hears
<1>16. Now(s)' = Hears(s, 1, Now(s))
  <2>1. CASE systemSeats[s] = o /\ v # "none" /\ ~news
    <3>1. logindSeats[o].canGraphical = (v = "yes")
      BY <1>9, <2>1
    <3>2. Now(s) = v
      BY <1>3, <2>1, <3>1 DEF Now, Answer
    <3> QED
      BY <1>14, <1>15, <2>1, <3>2
  <2>2. CASE ~(systemSeats[s] = o /\ v # "none" /\ ~news)
    BY <1>7, <1>14, <1>15, <2>2
  <2> QED
    BY <2>1, <2>2
<1>17. s \in managed' <=> Now(s)' = "yes"
  <2>1. CASE news
    <3>1. managed' = IF v = "yes" THEN managed \union {x} ELSE managed \ {x}
      BY <1>1, <2>1, RemovedManaged DEF CreateSeat
    <3>2. systemSeats[s] = o <=> s = x
      BY <1>8, <1>9, <2>1
    <3> HIDE DEF o, v, x, news
    <3> QED
      BY <1>6, <1>14, <2>1, <3>1, <3>2
  <2>2. CASE ~news
    BY <1>1, <1>6, <1>14, <2>2
  <2> QED
    BY <2>1, <2>2
<1>18. /\ Receive("Get") /\ UNCHANGED <<systemSeats, calls>>
       /\ UNCHANGED <<present, graphical, watched, missed>>
  BY <1>1
<1> HIDE DEF o, v, x, news
<1>19. ~Unlisted /\ ~Unlisted'
  BY <1>6, <1>18, Listed, ListStays
<1>20. \A n \in 1 .. Len(inbox) - 1 : Tells(s, n)' <=> Tells(s, n + 1)
  BY <1>18, <1>7, TellsShifts
<1>21. Asking(s) => Asking(s)'
  <2>1. Len(calls) \in Nat
    <3>1. calls \in Seq(CallType)
      BY DEF TypeOK
    <3> HIDE DEF CallType
    <3> QED
      BY <3>1, LenProperties
  <2>2. Len(calls') >= Len(calls) /\ Len(calls') \in Nat
        /\ \A k \in 1 .. Len(calls) : calls'[k] = calls[k]
    BY <1>18, <2>1
  <2> QED
    BY <1>18, <1>7, <2>2, AskingStays
<1>22. Foreseen(s)' /\ Returns(s)'
  BY <1>18, <1>6, <1>16, <1>19, <1>20, <1>21, ReceivedSeat DEF SeatInv
<1>23. OneObject(s)'
  BY <1>18, <1>6, <1>12 DEF OneObject
<1>24. Listens(s)'
  BY <1>18, <1>6, ListensStays DEF SeatInv
<1> QED
  BY <1>17, <1>22, <1>23, <1>24 DEF SeatInv

\* ... for all of the seats.
LEMMA GetFollows ==
    ASSUME TypeOK, TypeOK', Follows, ReceiveGet, Frame
    PROVE  Follows'
<1>1. ListInv'
  BY ListStays DEF Follows, ReceiveGet
<1> QED
  BY <1>1, GetSeat DEF Follows, ManagedInv

-----------------------------------------------------------------------------
(***************************************************************************)
(* A seat is gone.                                                         *)
(***************************************************************************)
\* A seat is gone.
LEMMA RemovedSeat ==
    ASSUME TypeOK, TypeOK', Follows, ReceiveSeatRemoved, Frame, NEW s \in Seats
    PROVE  SeatInv(s)' /\ (s \in managed' <=> Now(s)' = "yes") /\ ListInv'
<1> DEFINE x == Head(inbox).seat
           i == systemSeats[x]
<1>1. /\ Receive("SeatRemoved")
      /\ UNCHANGED <<present, graphical, watched, missed>>
      /\ systemSeats' = [systemSeats EXCEPT ![x] = 0]
      /\ logindSeats' = IF i = 0 THEN logindSeats
                        ELSE [logindSeats EXCEPT ![i].alive = FALSE]
      /\ calls' = IF AliveFor(x) \ {i} = {} /\ i # 0
                  THEN Append(calls, [op |-> "unwatch", seat |-> x])
                  ELSE calls
      /\ RemoveSeat(x)
  BY DEF ReceiveSeatRemoved, Frame, logindVars, historyVars
<1>2. Head(inbox) \in MessageType /\ Head(inbox) = inbox[1]
      /\ Head(inbox).type = "SeatRemoved"
  BY <1>1, Received
<1>3. x \in Seats
  BY <1>2 DEF MessageType
<1>4. SeatInv(s) /\ (s \in managed <=> Now(s) = "yes") /\ OneObject(x) /\ OneObject(s)
      /\ ListInv
  BY <1>3 DEF Follows, ManagedInv, SeatInv
<1>5. /\ ~Announces(inbox[1], s) /\ ~Changes(inbox[1], s) /\ ~Tells(s, 1)
      /\ (Dismisses(inbox[1], s) <=> s = x)
  BY <1>2 DEF Announces, Dismisses, Changes, Tells
<1>6. DOMAIN logindSeats = Objects /\ Len(logindSeats) \in Nat
      /\ \A k \in Objects : logindSeats[k] \in LogindSeat
  <2>1. logindSeats \in Seq(LogindSeat)
    BY DEF TypeOK
  <2> HIDE DEF LogindSeat
  <2> QED
    BY <2>1, LenProperties, ElementOfSeq DEF Objects
<1>7. systemSeats'[s] = IF s = x THEN 0 ELSE systemSeats[s]
  BY <1>1, <1>3 DEF TypeOK
<1>8. i # 0 => i \in Objects /\ logindSeats[i].seat = x
  BY <1>4 DEF OneObject, AliveFor, Alive
<1>9. systemSeats[s] # 0 => systemSeats[s] \in Objects /\ logindSeats[systemSeats[s]].seat = s
  BY <1>4 DEF OneObject, AliveFor, Alive
<1>a. Receive("SeatRemoved") /\ UNCHANGED <<present, graphical, watched, missed>>
  BY <1>1
<1>10. PICK o : o = i
  OBVIOUS
<1>11. logindSeats' = IF o = 0 THEN logindSeats ELSE [logindSeats EXCEPT ![o].alive = FALSE]
  BY <1>1, <1>10
<1>12. o # 0 => o \in Objects /\ logindSeats[o].seat = x
  BY <1>8, <1>10
<1>b. /\ \/ calls' = calls
         \/ calls' = Append(calls, [op |-> "unwatch", seat |-> x])
      /\ managed' = managed \ {x}
      /\ AliveFor(x) = IF o = 0 THEN {} ELSE {o}
      /\ o = systemSeats[x]
  BY <1>1, <1>4, <1>10, RemovedManaged DEF OneObject
<1> HIDE DEF i, x
<1>13. ASSUME NEW k \in Objects
       PROVE  /\ logindSeats'[k].seat = logindSeats[k].seat
              /\ logindSeats'[k].canGraphical = logindSeats[k].canGraphical
              /\ logindSeats'[k].alive = (logindSeats[k].alive /\ k # o)
  <2>1. logindSeats[k] \in LogindSeat
    BY <1>6
  <2>2. k # 0
    BY DEF Objects
  <2>3. CASE o = 0
    BY <1>11, <2>1, <2>2, <2>3 DEF LogindSeat
  <2>4. CASE o # 0
    <3>1. logindSeats' = [logindSeats EXCEPT ![o].alive = FALSE]
      BY <1>11, <2>4
    <3>2. CASE k = o
      <4>1. logindSeats'[k] = [logindSeats[k] EXCEPT !.alive = FALSE]
        BY <1>6, <3>1, <3>2
      <4> QED
        BY <2>1, <3>2, <4>1 DEF LogindSeat
    <3>3. CASE k # o
      <4>1. logindSeats'[k] = logindSeats[k]
        BY <1>6, <3>1, <3>3
      <4> QED
        BY <2>1, <3>3, <4>1 DEF LogindSeat
    <3> QED
      BY <3>2, <3>3
  <2> QED
    BY <2>3, <2>4
<1>14. Objects' = Objects
  <2>1. logindSeats' \in Seq(LogindSeat)
    BY DEF TypeOK
  <2>2. DOMAIN logindSeats' = 1 .. Len(logindSeats') /\ Len(logindSeats') \in Nat
    <3> HIDE DEF LogindSeat
    <3> QED
      BY <2>1, LenProperties
  <2>3. DOMAIN logindSeats' = Objects
    BY <1>6, <1>11
  <2> QED
    BY <1>6, <2>2, <2>3 DEF Objects
<1>15. AliveFor(s)' = AliveFor(s) \ {o}
  BY <1>13, <1>14 DEF AliveFor, Alive
<1>16. OneObject(s)'
  <2>1. CASE s = x
    BY <1>7, <1>15, <1>b, <2>1 DEF OneObject
  <2>2. CASE s # x
    <3>1. o \notin AliveFor(s)
      BY <1>12, <2>2 DEF AliveFor, Alive, Objects
    <3> QED
      BY <1>4, <1>7, <1>15, <2>2, <3>1 DEF OneObject
  <2> QED
    BY <2>1, <2>2
<1>17. Now(s)' = IF s = x THEN "none" ELSE Now(s)
  BY <1>7, <1>9, <1>13 DEF Now
<1>18. Now(s)' = Hears(s, 1, Now(s))
  BY <1>5, <1>17 DEF Hears
<1>19. Len(calls) \in Nat /\ Len(calls') \in Nat /\ Len(calls') >= Len(calls)
       /\ (\A k \in 1 .. Len(calls) : calls'[k] = calls[k])
       /\ \A k \in 1 .. Len(calls') : \/ k \in 1 .. Len(calls)
                                      \/ calls'[k] = [op |-> "unwatch", seat |-> x]
  <2>1. calls \in Seq(CallType)
    BY DEF TypeOK
  <2>2. Len(calls) \in Nat
    <3> HIDE DEF CallType
    <3> QED
      BY <2>1, LenProperties
  <2>3. CASE calls' = calls
    BY <2>2, <2>3
  <2>4. CASE calls' = Append(calls, [op |-> "unwatch", seat |-> x])
    <3>1. PICK c : c = [op |-> "unwatch", seat |-> x]
      OBVIOUS
    <3>2. c \in CallType
      BY <1>3, <3>1 DEF CallType
    <3>3. /\ Len(calls') = Len(calls) + 1
          /\ calls'[Len(calls) + 1] = c
          /\ \A k \in 1 .. Len(calls) : calls'[k] = calls[k]
      <4>1. calls' = Append(calls, c)
        BY <2>4, <3>1
      <4> HIDE DEF CallType
      <4> QED
        BY <2>1, <3>2, <4>1, AppendProperties
    <3> QED
      BY <2>2, <3>1, <3>3
  <2> QED
    BY <1>b, <2>3, <2>4
<1>20. ~Unlisted
  BY <1>a, <1>4, Listed
<1>21. ~Unlisted'
  BY <1>19, <1>20 DEF Unlisted
<1>22. \A n \in 1 .. Len(inbox) - 1 : Tells(s, n)' <=> Tells(s, n + 1)
  <2>1. CASE s = x
    <3>1. systemSeats'[s] \notin Objects
      BY <1>7, <2>1 DEF Objects
    <3> QED
      BY <1>a, <1>5, <2>1, <3>1, NothingTold
  <2>2. CASE s # x
    BY <1>a, <1>5, <1>7, <2>2, TellsShifts
  <2> QED
    BY <2>1, <2>2
<1>23. ~Asking(s)' /\ s \in present => ~Asking(s) /\ systemSeats'[s] = systemSeats[s]
  <2>1. CASE s = x
    <3> SUFFICES ASSUME s \in present PROVE Asking(s)'
      OBVIOUS
    <3>1. 1 \in 1 .. Len(inbox) /\ Dismisses(inbox[1], s)
      BY <1>a, <1>5, <2>1, Received
    <3>2. PICK k \in 1 + 1 .. Len(inbox) : inbox[k] = [type |-> "SeatNew", seat |-> s]
      BY <1>4, <3>1 DEF SeatInv, Returns
    <3>3. k - 1 \in 1 .. Len(inbox) - 1 /\ k - 1 \in 1 .. Len(inbox') /\ (k - 1) + 1 = k
      BY <1>a, Received
    <3>4. inbox'[k - 1] = [type |-> "SeatNew", seat |-> s]
      <4>1. inbox'[k - 1] = inbox[(k - 1) + 1]
        BY <1>a, <3>3, Received
      <4> QED
        BY <3>2, <3>3, <4>1
    <3> QED
      BY <3>3, <3>4 DEF Asking, Announces
  <2>2. CASE s # x
    <3>1. systemSeats'[s] = systemSeats[s]
      BY <1>7, <2>2
    <3>2. Asking(s) => Asking(s)'
      BY <1>a, <1>5, <1>19, <3>1, AskingStays
    <3> QED
      BY <3>1, <3>2
  <2> QED
    BY <2>1, <2>2
<1>24. Foreseen(s)' /\ Returns(s)'
  BY <1>a, <1>4, <1>18, <1>20, <1>21, <1>22, <1>23, ReceivedSeat DEF SeatInv
<1>25. Listens(s)'
  <2>1. CASE s = x
    BY <1>7, <2>1 DEF Listens
  <2>2. CASE s # x
    <3>1. \A k \in 1 .. Len(calls') : Matches(calls'[k], s) =>
             k \in 1 .. Len(calls) /\ Matches(calls[k], s)
      BY <1>19, <2>2 DEF Matches
    <3>2. \A k \in 1 .. Len(calls') : Asks(calls'[k], systemSeats[s]) =>
             k \in 1 .. Len(calls) /\ Asks(calls[k], systemSeats[s])
      BY <1>19 DEF Asks
    <3>3. \A k \in 1 .. Len(calls) : k \in 1 .. Len(calls') /\ calls'[k] = calls[k]
      BY <1>19
    <3>4. systemSeats'[s] = systemSeats[s] /\ Listens(s)
      BY <1>4, <1>7, <2>2 DEF SeatInv
    <3> QED
      BY <1>a, <3>1, <3>2, <3>3, <3>4, ListensStays
  <2> QED
    BY <2>1, <2>2
<1>26. s \in managed' <=> Now(s)' = "yes"
  BY <1>4, <1>17, <1>b
<1>27. ListInv'
  BY <1>21 DEF ListInv, Unlisted
<1> QED
  BY <1>16, <1>24, <1>25, <1>26, <1>27 DEF SeatInv

\* ... for all of the seats.
LEMMA RemovedFollows ==
    ASSUME TypeOK, TypeOK', Follows, ReceiveSeatRemoved, Frame
    PROVE  Follows'
<1>1. Head(inbox).seat \in Seats
  <2>1. Head(inbox) \in MessageType /\ Head(inbox).type = "SeatRemoved"
    BY Received DEF ReceiveSeatRemoved
  <2> QED
    BY <2>1 DEF MessageType
<1>2. ListInv'
  BY <1>1, RemovedSeat
<1> QED
  BY <1>2, RemovedSeat DEF Follows, ManagedInv

-----------------------------------------------------------------------------
(***************************************************************************)
(* Seats are announced.                                                    *)
(***************************************************************************)
\* The calls that LogindSeatsAdded sends, when every seat is new: the i-th
\* subscribes to the i-th seat, then asks for it.
LEMMA AddedCalls ==
    ASSUME TypeOK, NEW q \in Seq(Seats), LogindSeatsAdded(q),
           \A i \in 1 .. Len(q) : AliveFor(q[i]) = {}
    PROVE  /\ Len(calls) \in Nat /\ Len(q) \in Nat /\ Len(logindSeats) \in Nat
           /\ Len(calls') = Len(calls) + 2 * Len(q)
           /\ \A k \in 1 .. Len(calls) : calls'[k] = calls[k]
           /\ \A i \in 1 .. Len(q) :
                /\ calls'[Len(calls) + 2 * i - 1] = Watch(q[i])
                /\ calls'[Len(calls) + 2 * i] = Get(Len(logindSeats) + i)
           /\ \A k \in 1 .. Len(calls') : \/ k \in 1 .. Len(calls)
                                          \/ \E i \in 1 .. Len(q) :
                                                k \in {Len(calls) + 2 * i - 1, Len(calls) + 2 * i}
<1>1. logindSeats \in Seq(LogindSeat) /\ calls \in Seq(CallType) /\ calls' = calls \o Asked(q)
  BY DEF TypeOK, LogindSeatsAdded
<1>2. Len(logindSeats) \in Nat
  <2> HIDE DEF LogindSeat
  <2> QED
    BY <1>1, LenProperties
<1>3. PICK a : a = Asked(q)
  OBVIOUS
<1>4. /\ a \in Seq(NewCalls(q)) /\ Len(a) = 2 * Len(q)
      /\ \A i \in 1 .. Len(q) : a[2 * i - 1] = Watch(q[i]) /\ a[2 * i] = Get(Len(logindSeats) + i)
  BY <1>1, <1>3, AskedProperties
<1>5. Len(q) \in Nat /\ Len(calls) \in Nat
  <2> HIDE DEF CallType
  <2> QED
    BY <1>1, LenProperties
<1>6. /\ Len(calls') = Len(calls) + Len(a)
      /\ \A k \in 1 .. Len(calls) + Len(a) :
           calls'[k] = IF k <= Len(calls) THEN calls[k] ELSE a[k - Len(calls)]
  <2> DEFINE U == CallType \union NewCalls(q)
  <2>1. calls \in Seq(U) /\ a \in Seq(U)
    <3>1. CallType \subseteq U /\ NewCalls(q) \subseteq U
      OBVIOUS
    <3> HIDE DEF CallType, NewCalls, U
    <3> QED
      BY <1>1, <1>4, <3>1, SeqMonotonic
  <2> HIDE DEF U
  <2> QED
    BY <1>1, <1>3, <2>1, ConcatProperties
<1>7. Len(calls') = Len(calls) + 2 * Len(q)
  BY <1>4, <1>6
<1>8. \A k \in 1 .. Len(calls) : calls'[k] = calls[k]
  BY <1>4, <1>5, <1>6
<1>9. ASSUME NEW i \in 1 .. Len(q)
      PROVE  /\ calls'[Len(calls) + 2 * i - 1] = Watch(q[i])
             /\ calls'[Len(calls) + 2 * i] = Get(Len(logindSeats) + i)
  <2>1. /\ Len(calls) + 2 * i - 1 \in 1 .. Len(calls) + Len(a)
        /\ Len(calls) + 2 * i \in 1 .. Len(calls) + Len(a)
        /\ ~(Len(calls) + 2 * i - 1 <= Len(calls)) /\ ~(Len(calls) + 2 * i <= Len(calls))
        /\ (Len(calls) + 2 * i - 1) - Len(calls) = 2 * i - 1
        /\ (Len(calls) + 2 * i) - Len(calls) = 2 * i
    BY <1>4, <1>5
  <2> QED
    BY <1>4, <1>6, <2>1
<1>10. ASSUME NEW k \in 1 .. Len(calls'), k \notin 1 .. Len(calls)
       PROVE  \E i \in 1 .. Len(q) : k \in {Len(calls) + 2 * i - 1, Len(calls) + 2 * i}
  <2>1. PICK d : d = k - Len(calls)
    OBVIOUS
  <2>2. d \in 1 .. 2 * Len(q) /\ k = Len(calls) + d
    BY <1>5, <1>7, <1>10, <2>1
  <2>3. PICK i \in 1 .. Len(q) : d \in {2 * i - 1, 2 * i}
    <3> DEFINE i == (d + 1) \div 2
    <3>1. i \in 1 .. Len(q) /\ d \in {2 * i - 1, 2 * i}
      BY <1>5, <2>2
    <3> QED
      BY <3>1
  <2>4. k \in {Len(calls) + 2 * i - 1, Len(calls) + 2 * i}
    BY <1>5, <2>2, <2>3
  <2> QED
    BY <2>4
<1> QED
  BY <1>2, <1>5, <1>7, <1>8, <1>9, <1>10

\* The seats of the list, or a seat that has come, get their LogindSeats.
LEMMA AddedSeat ==
    ASSUME TypeOK, TypeOK', Follows, NEW type \in {"ListSeats", "SeatNew"}, Receive(type),
           NEW q \in Seq(Seats), LogindSeatsAdded(q), Frame,
           \A i, j \in 1 .. Len(q) : q[i] = q[j] => i = j,
           \A z \in Seats : Announces(inbox[1], z) <=> \E i \in 1 .. Len(q) : q[i] = z,
           NEW s \in Seats
    PROVE  SeatInv(s)' /\ (s \in managed' <=> Now(s)' = "yes") /\ ListInv'
<1>1. PICK n, L : n = Len(logindSeats) /\ L = Len(calls)
  OBVIOUS
<1>2. \A z \in Seats : SeatInv(z) /\ (z \in managed <=> Now(z) = "yes")
  BY DEF Follows, ManagedInv
<1>3. ListInv /\ ~Unlisted
  BY Listed DEF Follows
<1>4. \A i \in 1 .. Len(q) : q[i] \in Seats
  BY ElementOfSeq
<1>5. ASSUME NEW i \in 1 .. Len(q) PROVE Now(q[i]) = "none" /\ systemSeats[q[i]] = 0
                                         /\ AliveFor(q[i]) = {}
  <2>1. Announces(inbox[1], q[i])
    BY <1>4
  <2>2. Now(q[i]) = "none"
    BY <1>2, <1>4, <2>1, HeadFacts DEF SeatInv
  <2>3. systemSeats[q[i]] = 0
    BY <2>2 DEF Now
  <2>4. AliveFor(q[i]) = {}
    BY <1>2, <1>4, <2>3 DEF SeatInv, OneObject
  <2> QED
    BY <2>2, <2>3, <2>4
<1>6. /\ L \in Nat /\ Len(q) \in Nat /\ n \in Nat
      /\ Len(calls') = L + 2 * Len(q)
      /\ \A k \in 1 .. L : calls'[k] = calls[k]
      /\ \A i \in 1 .. Len(q) : /\ calls'[L + 2 * i - 1] = Watch(q[i])
                                /\ calls'[L + 2 * i] = Get(n + i)
      /\ \A k \in 1 .. Len(calls') : \/ k \in 1 .. L
                                     \/ \E i \in 1 .. Len(q) : k \in {L + 2 * i - 1, L + 2 * i}
  BY <1>1, <1>5, AddedCalls
<1>a. L \in Nat /\ Len(q) \in Nat /\ n \in Nat
  BY <1>6
<1>b. ASSUME NEW i \in 1 .. Len(q)
      PROVE  calls'[L + 2 * i - 1] = Watch(q[i]) /\ calls'[L + 2 * i] = Get(n + i)
  BY <1>6
<1>7. /\ Len(logindSeats') = n + Len(q)
      /\ \A i \in 1 .. n : logindSeats'[i] = logindSeats[i]
      /\ \A i \in 1 .. Len(q) : logindSeats'[n + i] =
           [seat |-> q[i], canGraphical |-> FALSE, alive |-> TRUE]
  BY <1>1, Added DEF Objects
<1>8. Objects = 1 .. n /\ Objects' = 1 .. n + Len(q)
  BY <1>1, <1>7 DEF Objects
<1>9. UNCHANGED <<present, graphical, watched, missed, managed>>
  BY DEF Frame, logindVars, historyVars, LogindSeatsAdded
<1>10. Head(inbox) = inbox[1] /\ inbox[1].type = type /\ inbox[1] \in MessageType
  BY Received
<1>11. ~Dismisses(inbox[1], s) /\ ~Changes(inbox[1], s) /\ ~Tells(s, 1)
  BY <1>10 DEF Dismisses, Changes, Tells
<1>12. /\ systemSeats[s] \in 0 .. n
       /\ systemSeats'[s] = IF \E i \in 1 .. Len(q) : q[i] = s
                            THEN n + CHOOSE i \in 1 .. Len(q) : q[i] = s ELSE systemSeats[s]
  <2>1. systemSeats[s] \in {0} \union Objects
    BY DEF TypeOK
  <2> QED
    BY <1>1, <1>6, <1>8, <2>1 DEF LogindSeatsAdded
<1>13. ASSUME NEW k \in 1 .. Len(calls)
       PROVE  calls[k].op = "Get" => calls[k].object \in 1 .. n
  <2>1. calls[k] \in CallType
    <3>1. calls \in Seq(CallType)
      BY DEF TypeOK
    <3> HIDE DEF CallType
    <3> QED
      BY <3>1, ElementOfSeq
  <2> QED
    BY <1>8, <2>1 DEF CallType
<1>14. ASSUME NEW k \in 1 .. Len(inbox)
       PROVE  inbox[k].type = "Get" => inbox[k].object \in 1 .. n
  <2>1. inbox[k] \in MessageType
    <3>1. inbox \in Seq(MessageType)
      BY DEF TypeOK
    <3> HIDE DEF MessageType
    <3> QED
      BY <3>1, ElementOfSeq
  <2> QED
    BY <1>8, <2>1 DEF MessageType
<1>15. ASSUME NEW k \in 1 .. Len(calls'), k \notin 1 .. L
       PROVE  \E i \in 1 .. Len(q) : \/ k = L + 2 * i - 1 /\ calls'[k] = Watch(q[i])
                                     \/ k = L + 2 * i /\ calls'[k] = Get(n + i)
  <2>1. PICK i \in 1 .. Len(q) : k \in {L + 2 * i - 1, L + 2 * i}
    BY <1>6, <1>15
  <2>2. calls'[L + 2 * i - 1] = Watch(q[i]) /\ calls'[L + 2 * i] = Get(n + i)
    BY <1>b
  <2>3. CASE k = L + 2 * i - 1
    BY <2>2, <2>3, <1>a
  <2>4. CASE k = L + 2 * i
    BY <2>2, <2>4, <1>a
  <2> QED
    BY <2>1, <2>3, <2>4
<1>c. ASSUME NEW i \in 1 .. Len(q)
      PROVE  logindSeats'[n + i] = [seat |-> q[i], canGraphical |-> FALSE, alive |-> TRUE]
  BY <1>7
<1>16. ~Unlisted'
  <2>1. ASSUME NEW k \in 1 .. Len(calls') PROVE calls'[k].op # "ListSeats"
    <3>1. CASE k \in 1 .. L
      BY <1>1, <1>3, <1>6, <3>1 DEF Unlisted
    <3>2. CASE k \notin 1 .. L
      <4>1. PICK i \in 1 .. Len(q) : calls'[k] = Watch(q[i]) \/ calls'[k] = Get(n + i)
        BY <1>15, <3>2
      <4> QED
        BY <4>1 DEF Watch, Get
    <3> QED
      BY <3>1, <3>2
  <2> QED
    BY <2>1 DEF Unlisted
<1>17. ListInv'
  BY <1>16 DEF ListInv, Unlisted
<1>18. CASE \E i \in 1 .. Len(q) : q[i] = s
  <2>1. PICK i \in 1 .. Len(q) : q[i] = s
    BY <1>18
  <2>2. systemSeats'[s] = n + i
    <3>1. (CHOOSE j \in 1 .. Len(q) : q[j] = s) = i
      BY <2>1
    <3> QED
      BY <1>12, <2>1, <3>1
  <2>3. n + i \in Objects' /\ n + i # 0 /\ n + i \notin 1 .. n /\ n + i \notin Objects
    BY <1>6, <1>8
  <2>4. Now(s)' = "no"
    <3>1. logindSeats'[n + i] = [seat |-> q[i], canGraphical |-> FALSE, alive |-> TRUE]
      BY <1>c
    <3>2. logindSeats'[systemSeats'[s]] = [seat |-> q[i], canGraphical |-> FALSE, alive |-> TRUE]
      BY <2>2, <3>1
    <3>3. systemSeats'[s] # 0
      BY <2>2, <2>3
    <3> QED
      BY <3>2, <3>3 DEF Now
  <2>5. Now(s)' = Hears(s, 1, Now(s))
    BY <2>1, <2>4 DEF Hears
  <2>6. systemSeats[s] = 0 /\ AliveFor(s) = {} /\ Now(s) = "none"
    BY <1>5, <2>1
  <2>7. \A k \in 1 .. Len(inbox) - 1 : Tells(s, k)' <=> Tells(s, k + 1)
    BY <2>2, <2>3, <2>6, NothingTold
  <2>8. PICK j : j = L + 2 * i - 1
    OBVIOUS
  <2>9. /\ j \in 1 .. Len(calls') /\ j + 1 \in 1 .. Len(calls') /\ j > L /\ j + 1 = L + 2 * i
        /\ j \in Int
    BY <1>6, <2>8
  <2>10. /\ calls'[j] = [op |-> "watch", seat |-> s]
         /\ Asks(calls'[j + 1], n + i)
    <3>1. calls'[j] = Watch(q[i]) /\ calls'[j + 1] = Get(n + i)
      BY <1>6, <2>8, <2>9
    <3> QED
      BY <2>1, <3>1 DEF Watch, Get, Asks
  <2>11. Asking(s)'
    BY <2>2, <2>9, <2>10 DEF Asking, Asks
  <2>12. Foreseen(s)' /\ Returns(s)'
    BY <1>2, <1>3, <1>9, <1>16, <2>5, <2>7, <2>11, ReceivedSeat DEF SeatInv
  <2>13. OneObject(s)'
    <3>1. ASSUME NEW k \in Objects' PROVE Alive(k, s)' <=> k = n + i
      <4>1. CASE k \in 1 .. n
        <5>1. ~Alive(k, s)
          BY <1>8, <2>6, <4>1 DEF AliveFor
        <5> QED
          BY <1>7, <2>3, <4>1, <5>1 DEF Alive
      <4>2. CASE k \notin 1 .. n
        <5>1. PICK l \in 1 .. Len(q) : k = n + l
          <6>1. k - n \in 1 .. Len(q) /\ k = n + (k - n)
            BY <1>6, <1>8, <4>2
          <6> QED
            BY <6>1
        <5>2. Alive(k, s)' <=> q[l] = s
          <6>1. logindSeats'[n + l] = [seat |-> q[l], canGraphical |-> FALSE, alive |-> TRUE]
            BY <1>c
          <6>2. logindSeats'[k] = [seat |-> q[l], canGraphical |-> FALSE, alive |-> TRUE]
            BY <5>1, <6>1
          <6> QED
            BY <6>2 DEF Alive
        <5>3. q[l] = s <=> l = i
          BY <2>1
        <5>4. k = n + i <=> l = i
          BY <1>a, <5>1
        <5> QED
          BY <5>2, <5>3, <5>4
      <4> QED
        BY <4>1, <4>2
    <3> QED
      BY <2>2, <2>3, <3>1 DEF OneObject, AliveFor
  <2>14. Listens(s)'
    <3>1. ASSUME NEW k \in 1 .. Len(inbox')
          PROVE  ~(inbox'[k].type = "Get" /\ inbox'[k].object = n + i)
      <4>1. k + 1 \in 1 .. Len(inbox) /\ inbox'[k] = inbox[k + 1]
        BY Received
      <4> QED
        BY <1>14, <2>3, <4>1
    <3>2. ASSUME NEW k \in 1 .. Len(calls'), Asks(calls'[k], n + i) PROVE j < k
      <4>1. k \notin 1 .. L
        BY <1>1, <1>6, <1>13, <2>3, <3>2 DEF Asks
      <4>2. PICK l \in 1 .. Len(q) : k = L + 2 * l /\ calls'[k] = Get(n + l)
        <5>1. PICK l \in 1 .. Len(q) : \/ k = L + 2 * l - 1 /\ calls'[k] = Watch(q[l])
                                       \/ k = L + 2 * l /\ calls'[k] = Get(n + l)
          BY <1>15, <4>1
        <5>2. calls'[k] # Watch(q[l])
          BY <3>2 DEF Asks, Watch
        <5> QED
          BY <5>1, <5>2
      <4>3. l = i
        <5>1. n + l = n + i
          BY <3>2, <4>2 DEF Asks, Get
        <5> QED
          BY <1>6, <5>1
      <4> QED
        BY <1>6, <2>8, <4>2, <4>3
    <3>3. ASSUME NEW k \in 1 .. Len(calls'), Matches(calls'[k], s) PROVE k <= j
      <4>1. CASE k \in 1 .. L
        BY <1>6, <2>9, <4>1
      <4>2. CASE k \notin 1 .. L
        <5>1. PICK l \in 1 .. Len(q) : k = L + 2 * l - 1 /\ calls'[k] = Watch(q[l])
          <6>1. PICK l \in 1 .. Len(q) : \/ k = L + 2 * l - 1 /\ calls'[k] = Watch(q[l])
                                         \/ k = L + 2 * l /\ calls'[k] = Get(n + l)
            BY <1>15, <4>2
          <6>2. calls'[k] # Get(n + l)
            BY <3>3 DEF Matches, Get
          <6> QED
            BY <6>1, <6>2
        <5>2. q[l] = s
          BY <3>3, <5>1 DEF Matches, Watch
        <5>3. l = i
          BY <2>1, <5>2
        <5> QED
          BY <1>6, <2>8, <5>1, <5>3
      <4> QED
        BY <4>1, <4>2
    <3>4. /\ calls'[j] = [op |-> "watch", seat |-> s]
          /\ \E k \in 1 .. Len(calls') : Asks(calls'[k], n + i)
          /\ j \in 1 .. Len(calls')
      BY <2>9, <2>10
    <3>5. PICK o : o = n + i /\ systemSeats'[s] = o
      BY <2>2
    <3> QED
      BY <3>1, <3>2, <3>3, <3>4, <3>5 DEF Listens, Matches, Asks
  <2>15. s \in managed' <=> Now(s)' = "yes"
    BY <1>2, <1>9, <2>4, <2>6
  <2> QED
    BY <1>17, <2>12, <2>13, <2>14, <2>15 DEF SeatInv
<1>19. CASE ~ \E i \in 1 .. Len(q) : q[i] = s
  <2>1. systemSeats'[s] = systemSeats[s]
    BY <1>12, <1>19
  <2>2. ~Announces(inbox[1], s)
    BY <1>19
  <2>3. SeatInv(s) /\ OneObject(s) /\ Listens(s)
    BY <1>2 DEF SeatInv
  <2>4. Now(s)' = Now(s)
    <3>1. systemSeats[s] # 0 => systemSeats[s] \in 1 .. n
      BY <1>6, <1>12
    <3> QED
      BY <1>7, <2>1, <3>1 DEF Now
  <2>5. Now(s)' = Hears(s, 1, Now(s))
    BY <1>11, <2>2, <2>4 DEF Hears
  <2>6. \A k \in 1 .. Len(inbox) - 1 : Tells(s, k)' <=> Tells(s, k + 1)
    BY <1>11, <2>1, TellsShifts
  <2>7. Asking(s) => Asking(s)'
    <3>1. Len(calls') >= Len(calls) /\ Len(calls') \in Nat
          /\ \A k \in 1 .. Len(calls) : calls'[k] = calls[k]
      BY <1>1, <1>6
    <3> QED
      BY <2>1, <2>2, <3>1, AskingStays
  <2>8. Foreseen(s)' /\ Returns(s)'
    BY <1>2, <1>3, <1>9, <1>16, <2>1, <2>5, <2>6, <2>7, ReceivedSeat DEF SeatInv
  <2>9. OneObject(s)'
    <3>1. ASSUME NEW k \in Objects' PROVE Alive(k, s)' <=> k \in 1 .. n /\ Alive(k, s)
      <4>1. CASE k \in 1 .. n
        BY <1>7, <4>1 DEF Alive
      <4>2. CASE k \notin 1 .. n
        <5>1. k - n \in 1 .. Len(q) /\ k = n + (k - n)
          BY <1>6, <1>8, <4>2
        <5>2. logindSeats'[k].seat = q[k - n]
          <6>1. PICK l \in 1 .. Len(q) : l = k - n
            BY <5>1
          <6>2. logindSeats'[n + l] = [seat |-> q[l], canGraphical |-> FALSE, alive |-> TRUE]
            BY <1>c
          <6>3. logindSeats'[k] = [seat |-> q[l], canGraphical |-> FALSE, alive |-> TRUE]
            BY <5>1, <6>1, <6>2
          <6> QED
            BY <6>1, <6>3
        <5> QED
          BY <1>19, <4>2, <5>1, <5>2 DEF Alive
      <4> QED
        BY <4>1, <4>2
    <3>2. AliveFor(s)' = AliveFor(s)
      <4>1. 1 .. n \subseteq 1 .. n + Len(q)
        BY <1>6
      <4> QED
        BY <1>8, <3>1, <4>1 DEF AliveFor
    <3> QED
      BY <2>1, <2>3, <3>2 DEF OneObject
  <2>10. PICK o : o = systemSeats[s]
    OBVIOUS
  <2>11. ASSUME NEW k \in 1 .. Len(calls'), Matches(calls'[k], s)
         PROVE  k \in 1 .. L /\ Matches(calls[k], s)
    <3>1. k \in 1 .. L
      <4> SUFFICES ASSUME k \notin 1 .. L PROVE FALSE
        OBVIOUS
      <4>1. PICK l \in 1 .. Len(q) : calls'[k] = Watch(q[l]) \/ calls'[k] = Get(n + l)
        BY <1>15
      <4> QED
        BY <1>19, <2>11, <4>1 DEF Matches, Watch, Get
    <3> QED
      BY <1>6, <2>11, <3>1
  <2>12. ASSUME NEW k \in 1 .. Len(calls'), Asks(calls'[k], o)
         PROVE  k \in 1 .. L /\ Asks(calls[k], o)
    <3>1. k \in 1 .. L
      <4> SUFFICES ASSUME k \notin 1 .. L PROVE FALSE
        OBVIOUS
      <4>1. PICK l \in 1 .. Len(q) : calls'[k] = Get(n + l)
        <5>1. PICK l \in 1 .. Len(q) : calls'[k] = Watch(q[l]) \/ calls'[k] = Get(n + l)
          BY <1>15
        <5>2. calls'[k] # Watch(q[l])
          BY <2>12 DEF Asks, Watch
        <5> QED
          BY <5>1, <5>2
      <4>2. o = n + l
        BY <2>12, <4>1 DEF Asks, Get
      <4> QED
        BY <1>6, <1>12, <2>10, <4>2
    <3> QED
      BY <1>6, <2>12, <3>1
  <2>13. \A k \in 1 .. Len(calls) : k \in 1 .. Len(calls') /\ calls'[k] = calls[k]
    BY <1>1, <1>6
  <2>15. Listens(s)'
    <3>1. \A k \in 1 .. Len(calls') : Matches(calls'[k], s) =>
             k \in 1 .. Len(calls) /\ Matches(calls[k], s)
      BY <1>1, <2>11
    <3>2. \A k \in 1 .. Len(calls') : Asks(calls'[k], systemSeats[s]) =>
             k \in 1 .. Len(calls) /\ Asks(calls[k], systemSeats[s])
      BY <1>1, <2>10, <2>12
    <3> QED
      BY <1>9, <2>1, <2>3, <2>13, <3>1, <3>2, ListensStays
  <2>16. s \in managed' <=> Now(s)' = "yes"
    BY <1>2, <1>9, <2>4
  <2> QED
    BY <1>17, <2>8, <2>9, <2>15, <2>16 DEF SeatInv
<1> QED
  BY <1>18, <1>19

\* The list of seats has every seat once, and a signal is about one seat.
LEMMA AddedFollows ==
    ASSUME TypeOK, TypeOK', Follows, ReceiveList \/ ReceiveSeatNew, Frame
    PROVE  Follows'
<1>1. ASSUME NEW type \in {"ListSeats", "SeatNew"}, Receive(type),
             NEW q \in Seq(Seats), LogindSeatsAdded(q),
             \A i, j \in 1 .. Len(q) : q[i] = q[j] => i = j,
             \A z \in Seats : Announces(inbox[1], z) <=> \E i \in 1 .. Len(q) : q[i] = z
      PROVE  Follows'
  <2>1. \A s \in Seats : SeatInv(s)' /\ (s \in managed' <=> Now(s)' = "yes")
    BY <1>1, AddedSeat
  <2>2. ListInv'
    <3>1. CASE Seats = {}
      <4>1. Len(q) = 0
        <5>1. Len(q) \in Nat /\ \A i \in 1 .. Len(q) : q[i] \in Seats
          BY LenProperties, ElementOfSeq
        <5>2. ~(1 \in 1 .. Len(q))
          BY <3>1, <5>1
        <5> QED
          BY <5>1, <5>2
      <4>2. \A i \in 1 .. Len(q) : AliveFor(q[i]) = {}
        BY <4>1
      <4>3. Len(calls) \in Nat /\ Len(calls') = Len(calls)
            /\ \A k \in 1 .. Len(calls) : calls'[k] = calls[k]
        <5>1. /\ Len(calls) \in Nat /\ Len(calls') = Len(calls) + 2 * Len(q)
              /\ \A k \in 1 .. Len(calls) : calls'[k] = calls[k]
          BY <1>1, <4>2, AddedCalls
        <5> QED
          BY <4>1, <5>1
      <4>4. ~Unlisted
        BY <1>1, Listed DEF Follows
      <4> QED
        BY <4>3, <4>4 DEF ListInv, Unlisted
    <3>2. CASE Seats # {}
      BY <1>1, <3>2, AddedSeat
    <3> QED
      BY <3>1, <3>2
  <2> QED
    BY <2>1, <2>2 DEF Follows, ManagedInv
<1>2. CASE ReceiveList
  <2> DEFINE S == Head(inbox).seats
  <2>1. Receive("ListSeats") /\ LogindSeatsAdded(SetToSeq(S))
    BY <1>2 DEF ReceiveList
  <2>2. Head(inbox) \in MessageType /\ Head(inbox) = inbox[1] /\ Head(inbox).type = "ListSeats"
    BY <2>1, Received
  <2>3. S \subseteq Seats
    BY <2>2 DEF MessageType
  <2>4. IsFiniteSet(S)
    BY <2>3, SeatManagerAssumption, FS_Subset
  <2>5. PICK q : q = SetToSeq(S)
    OBVIOUS
  <2>6. \A z \in Seats : Announces(inbox[1], z) <=> z \in S
    BY <2>2 DEF Announces
  <2> HIDE DEF S
  <2>7. /\ q \in Seq(S) /\ (\A i, j \in 1 .. Len(q) : q[i] = q[j] => i = j)
        /\ {q[i] : i \in 1 .. Len(q)} = S
    BY <2>4, <2>5, SetToSeqProperties
  <2>8. q \in Seq(Seats)
    BY <2>3, <2>7, SeqMonotonic
  <2>9. \A z \in Seats : Announces(inbox[1], z) <=> \E i \in 1 .. Len(q) : q[i] = z
    BY <2>6, <2>7
  <2> QED
    BY <1>1, <2>1, <2>5, <2>7, <2>8, <2>9
<1>3. CASE ReceiveSeatNew
  <2> DEFINE x == Head(inbox).seat
  <2>1. Receive("SeatNew") /\ LogindSeatsAdded(<<x>>)
    BY <1>3 DEF ReceiveSeatNew
  <2>2. Head(inbox) \in MessageType /\ Head(inbox) = inbox[1] /\ Head(inbox).type = "SeatNew"
    BY <2>1, Received
  <2>3. x \in Seats
    BY <2>2 DEF MessageType
  <2>4. \A z \in Seats : Announces(inbox[1], z) <=> z = x
    BY <2>2 DEF Announces
  <2> HIDE DEF x
  <2>5. PICK q : q = <<x>>
    OBVIOUS
  <2>6. q \in Seq(Seats) /\ Len(q) = 1 /\ q[1] = x
    BY <2>3, <2>5
  <2>7. (\A i, j \in 1 .. Len(q) : q[i] = q[j] => i = j)
    BY <2>6
  <2>8. \A z \in Seats : Announces(inbox[1], z) <=> \E i \in 1 .. Len(q) : q[i] = z
    BY <2>4, <2>6
  <2> QED
    BY <1>1, <2>1, <2>5, <2>6, <2>7, <2>8
<1> QED
  BY <1>2, <1>3

-----------------------------------------------------------------------------
(***************************************************************************)
(* The objects on D-Bus.                                                   *)
(***************************************************************************)
\* An object on D-Bus.
Entry == [seat : Seats, object : Nat]

\* The first Seat of a seat.
LEMMA CreateExported ==
    ASSUME TypeOK, ExportedInv, NEW s \in Seats, s \notin managed, CreateSeat(s, 1)
    PROVE  ExportedInv'
<1> DEFINE new == [i \in 1 .. 1 |-> [seat |-> s, object |-> running[s] + i]]
<1>1. /\ running' = [running EXCEPT ![s] = @ + 1] /\ managed' = managed \union {s}
      /\ exported' = exported \o new
  BY DEF CreateSeat
<1>2. exported \in Seq(Entry) /\ running \in [Seats -> Nat] /\ managed \subseteq Seats
  BY DEF TypeOK, Entry
<1>3. new \in Seq(Entry) /\ Len(new) = 1 /\ new[1].seat = s
  <2>1. running[s] + 1 \in Nat
    BY <1>2
  <2>2. \A i \in 1 .. 1 : [seat |-> s, object |-> running[s] + i] \in Entry
    BY <2>1 DEF Entry
  <2>3. new \in [1 .. 1 -> Entry]
    BY <2>2
  <2>4. new[1].seat = s
    OBVIOUS
  <2> HIDE DEF new, Entry
  <2>5. new \in Seq(Entry) /\ Len(new) = 1
    <3>1. 1 \in Nat
      OBVIOUS
    <3>2. new \in Seq(Entry) /\ DOMAIN new = 1 .. 1
      BY <2>3, <3>1, SeqDef
    <3> QED
      BY <3>1, <3>2, LenProperties
  <2> QED
    BY <2>4, <2>5
<1> HIDE DEF new, Entry
<1>4. /\ Len(exported) \in Nat /\ Len(exported') = Len(exported) + 1
      /\ \A i \in 1 .. Len(exported) : exported'[i] = exported[i]
      /\ exported'[Len(exported) + 1] = new[1]
  <2>1. Len(exported) \in Nat
    BY <1>2, LenProperties
  <2>2. /\ Len(exported \o new) = Len(exported) + Len(new)
        /\ \A i \in 1 .. Len(exported) + Len(new) :
             (exported \o new)[i] = IF i <= Len(exported) THEN exported[i]
                                    ELSE new[i - Len(exported)]
    BY <1>2, <1>3, ConcatProperties
  <2>3. \A i \in 1 .. Len(exported) : i \in 1 .. Len(exported) + Len(new) /\ i <= Len(exported)
    BY <1>3, <2>1
  <2>4. Len(exported) + 1 \in 1 .. Len(exported) + Len(new) /\ ~(Len(exported) + 1 <= Len(exported))
        /\ (Len(exported) + 1) - Len(exported) = 1
    BY <1>3, <2>1
  <2> QED
    BY <1>1, <1>3, <2>1, <2>2, <2>3, <2>4
<1>5. PICK N : N = Len(exported)
  OBVIOUS
<1>6. \A i \in 1 .. Len(exported') : i \in 1 .. N \/ i = N + 1
  BY <1>4, <1>5
<1>7. \A z \in Seats : running'[z] = IF z \in managed' THEN 1 ELSE 0
  <2>1. ASSUME NEW z \in Seats PROVE running'[z] = IF z \in managed' THEN 1 ELSE 0
    <3>1. CASE z = s
      <4>1. running[s] = 0
        BY DEF ExportedInv
      <4>2. running'[s] = running[s] + 1
        BY <1>1, <1>2
      <4> QED
        BY <1>1, <3>1, <4>1, <4>2
    <3>2. CASE z # s
      BY <1>1, <1>2, <3>2 DEF ExportedInv
    <3> QED
      BY <3>1, <3>2
  <2> QED
    BY <2>1
<1>8. /\ \A i \in 1 .. N : exported'[i] = exported[i] /\ exported[i].seat \in managed
      /\ N + 1 \in 1 .. Len(exported')
      /\ exported'[N + 1].seat = s
      /\ \A i \in 1 .. N : i \in 1 .. Len(exported')
  <2>1. \A i \in 1 .. N : exported[i].seat \in managed
    BY <1>5 DEF ExportedInv
  <2>2. N + 1 \in 1 .. Len(exported') /\ \A i \in 1 .. N : i \in 1 .. Len(exported')
    BY <1>4, <1>5
  <2> QED
    BY <1>3, <1>4, <1>5, <2>1, <2>2
<1>9. {exported'[i].seat : i \in 1 .. Len(exported')} = managed'
  <2>1. ASSUME NEW i \in 1 .. Len(exported') PROVE exported'[i].seat \in managed'
    BY <1>1, <1>6, <1>8
  <2>2. ASSUME NEW z \in managed' PROVE \E i \in 1 .. Len(exported') : exported'[i].seat = z
    <3>1. CASE z = s
      BY <1>8, <3>1
    <3>2. CASE z # s
      <4>1. PICK i \in 1 .. N : exported[i].seat = z
        BY <1>1, <1>5, <3>2 DEF ExportedInv
      <4> QED
        BY <1>8, <4>1
    <3> QED
      BY <3>1, <3>2
  <2> QED
    BY <2>1, <2>2
<1>10. \A i, j \in 1 .. Len(exported') : exported'[i].seat = exported'[j].seat => i = j
  <2>1. ASSUME NEW i \in 1 .. N, NEW j \in 1 .. N, exported'[i].seat = exported'[j].seat
        PROVE  i = j
    BY <1>5, <1>8, <2>1 DEF ExportedInv
  <2>2. \A i \in 1 .. N : exported'[i].seat # s
    BY <1>8
  <2> QED
    BY <1>6, <1>8, <2>1, <2>2
<1> QED
  BY <1>7, <1>9, <1>10 DEF ExportedInv

\* No LogindSeat, no Seat.
LEMMA CreateNone ==
    ASSUME TypeOK, ExportedInv, NEW s \in Seats, CreateSeat(s, 0)
    PROVE  ExportedInv'
<1> DEFINE new == [i \in 1 .. 0 |-> [seat |-> s, object |-> running[s] + i]]
<1>1. /\ running' = [running EXCEPT ![s] = @ + 0] /\ managed' = managed
      /\ exported' = exported \o new
  BY DEF CreateSeat
<1>2. exported \in Seq(Entry) /\ running \in [Seats -> Nat]
  BY DEF TypeOK, Entry
<1>3. new \in Seq(Entry) /\ Len(new) = 0
  <2>1. new \in [1 .. 0 -> Entry]
    OBVIOUS
  <2> HIDE DEF new, Entry
  <2> QED
    BY <2>1
<1>4. running' = running
  BY <1>1, <1>2
<1> HIDE DEF new, Entry
<1>5. /\ Len(exported') = Len(exported)
      /\ \A i \in 1 .. Len(exported) : exported'[i] = exported[i]
  <2>1. Len(exported) \in Nat
    BY <1>2, LenProperties
  <2>2. /\ Len(exported \o new) = Len(exported) + Len(new)
        /\ \A i \in 1 .. Len(exported) + Len(new) :
             (exported \o new)[i] = IF i <= Len(exported) THEN exported[i]
                                    ELSE new[i - Len(exported)]
    BY <1>2, <1>3, ConcatProperties
  <2> QED
    BY <1>1, <1>3, <2>1, <2>2
<1> QED
  BY <1>1, <1>4, <1>5 DEF ExportedInv

\* The Seat of a seat goes.
LEMMA RemoveExported ==
    ASSUME TypeOK, ExportedInv, NEW s \in Seats, RemoveSeat(s)
    PROVE  ExportedInv'
<1>1. CASE s \notin managed
  BY <1>1 DEF RemoveSeat, ExportedInv
<1>2. CASE s \in managed
  <2>1. /\ running' = [running EXCEPT ![s] = @ - 1] /\ managed' = managed \ {s}
        /\ exported' = Erase(exported, s)
    BY <1>2 DEF RemoveSeat
  <2>2. PICK N : N = Len(exported)
    OBVIOUS
  <2>3. exported \in Seq(Entry) /\ N \in Nat /\ running \in [Seats -> Nat]
    <3>1. exported \in Seq(Entry) /\ running \in [Seats -> Nat]
      BY DEF TypeOK, Entry
    <3> HIDE DEF Entry
    <3> QED
      BY <2>2, <3>1, LenProperties
  <2>4. PICK p \in 1 .. N : exported[p].seat = s
    BY <1>2, <2>2 DEF ExportedInv
  <2>5. \A i, j \in 1 .. N : exported[i].seat = exported[j].seat => i = j
    BY <2>2 DEF ExportedInv
  <2>6. /\ Len(exported') = N - 1
        /\ \A i \in 1 .. N - 1 : exported'[i] = IF i < p THEN exported[i] ELSE exported[i + 1]
    <3> HIDE DEF Entry
    <3> QED
      BY <2>1, <2>2, <2>3, <2>4, <2>5, EraseOne
  <2>7. \A z \in Seats : running'[z] = IF z \in managed' THEN 1 ELSE 0
    <3>1. ASSUME NEW z \in Seats PROVE running'[z] = IF z \in managed' THEN 1 ELSE 0
      <4>1. CASE z = s
        <5>1. running[s] = 1
          BY <1>2 DEF ExportedInv
        <5>2. running'[s] = running[s] - 1
          BY <2>1, <2>3
        <5> QED
          BY <2>1, <4>1, <5>1, <5>2
      <4>2. CASE z # s
        BY <2>1, <2>3, <4>2 DEF ExportedInv
      <4> QED
        BY <4>1, <4>2
    <3> QED
      BY <3>1
  <2> DEFINE from(i) == IF i < p THEN i ELSE i + 1
  <2>8. ASSUME NEW i \in 1 .. N - 1
        PROVE  from(i) \in 1 .. N /\ from(i) # p /\ exported'[i] = exported[from(i)]
    BY <2>3, <2>6
  <2>9. ASSUME NEW i \in 1 .. N - 1, NEW j \in 1 .. N - 1, from(i) = from(j) PROVE i = j
    BY <2>3, <2>9
  <2>10. ASSUME NEW k \in 1 .. N, k # p PROVE \E i \in 1 .. N - 1 : from(i) = k
    <3>1. CASE k < p
      <4>1. k \in 1 .. N - 1 /\ from(k) = k
        BY <2>3, <3>1
      <4> QED
        BY <4>1
    <3>2. CASE ~(k < p)
      <4>1. k - 1 \in 1 .. N - 1 /\ from(k - 1) = k
        BY <2>3, <2>10, <3>2
      <4> QED
        BY <4>1
    <3> QED
      BY <3>1, <3>2
  <2> HIDE DEF from
  <2>11. {exported'[i].seat : i \in 1 .. Len(exported')} = managed'
    <3>1. ASSUME NEW i \in 1 .. N - 1 PROVE exported'[i].seat \in managed'
      <4>1. exported[from(i)].seat \in managed
        BY <2>2, <2>8 DEF ExportedInv
      <4>2. exported[from(i)].seat # s
        BY <2>4, <2>5, <2>8
      <4> QED
        BY <2>1, <2>8, <4>1, <4>2
    <3>2. ASSUME NEW z \in managed' PROVE \E i \in 1 .. N - 1 : exported'[i].seat = z
      <4>1. PICK k \in 1 .. N : exported[k].seat = z
        BY <2>1, <2>2 DEF ExportedInv
      <4>2. k # p
        BY <2>1, <2>4, <4>1
      <4>3. PICK i \in 1 .. N - 1 : from(i) = k
        BY <2>10, <4>2
      <4> QED
        BY <2>8, <4>1, <4>3
    <3> QED
      BY <2>6, <3>1, <3>2
  <2>12. \A i, j \in 1 .. Len(exported') : exported'[i].seat = exported'[j].seat => i = j
    <3> SUFFICES ASSUME NEW i \in 1 .. N - 1, NEW j \in 1 .. N - 1,
                        exported'[i].seat = exported'[j].seat
                 PROVE  i = j
      BY <2>6
    <3>1. from(i) = from(j)
      BY <2>5, <2>8
    <3> QED
      BY <2>9, <3>1
  <2> QED
    BY <2>7, <2>11, <2>12 DEF ExportedInv
<1> QED
  BY <1>1, <1>2

\* Every step of the daemon keeps one Seat and one object for each seat.
LEMMA DaemonExported ==
    ASSUME TypeOK, Follows, ExportedInv, ~missed, Daemon
    PROVE  ExportedInv'
<1>1. CASE ReceiveList \/ ReceiveSeatNew
  <2>1. UNCHANGED <<managed, running, exported>>
    BY <1>1 DEF ReceiveList, ReceiveSeatNew, LogindSeatsAdded
  <2> QED
    BY <2>1 DEF ExportedInv
<1>2. CASE ReceiveSeatRemoved
  <2>1. Receive("SeatRemoved") /\ RemoveSeat(Head(inbox).seat)
    BY <1>2 DEF ReceiveSeatRemoved
  <2>2. Head(inbox).seat \in Seats
    <3>1. Head(inbox) \in MessageType /\ Head(inbox).type = "SeatRemoved"
      BY <2>1, Received
    <3> QED
      BY <3>1 DEF MessageType
  <2> QED
    BY <2>1, <2>2, RemoveExported
<1>3. CASE ReceivePropertiesChanged
  <2> DEFINE x == Head(inbox).seat
             v == Head(inbox).value
  <2>1. /\ Receive("PropertiesChanged")
        /\ IF v THEN CreateSeat(x, Cardinality(AliveFor(x)))
           ELSE IF AliveFor(x) # {} THEN RemoveSeat(x)
           ELSE UNCHANGED <<running, managed, exported>>
    BY <1>3 DEF ReceivePropertiesChanged
  <2>2. Head(inbox) \in MessageType /\ Head(inbox) = inbox[1]
        /\ Head(inbox).type = "PropertiesChanged"
    BY <2>1, Received
  <2>3. x \in Seats /\ Changes(inbox[1], x) /\ inbox[1].value = v
    BY <2>2 DEF MessageType, Changes
  <2> HIDE DEF x, v
  <2>4. OneObject(x) /\ Foreseen(x) /\ (x \in managed <=> Now(x) = "yes")
    BY <2>3 DEF Follows, SeatInv, ManagedInv
  <2>5. CASE v
    <3>1. x \notin managed
      BY <2>1, <2>3, <2>4, <2>5, HeadFacts
    <3>2. Cardinality(AliveFor(x)) = IF systemSeats[x] = 0 THEN 0 ELSE 1
      BY <2>4, FS_EmptySet, FS_Singleton DEF OneObject
    <3> QED
      BY <2>1, <2>3, <2>5, <3>1, <3>2, CreateExported, CreateNone
  <2>6. CASE ~v
    <3>1. CASE AliveFor(x) # {}
      BY <2>1, <2>3, <2>6, <3>1, RemoveExported
    <3>2. CASE AliveFor(x) = {}
      BY <2>1, <2>6, <3>2 DEF ExportedInv
    <3> QED
      BY <3>1, <3>2
  <2> QED
    BY <2>5, <2>6
<1>4. CASE ReceiveGet
  <2> DEFINE o == Head(inbox).object
             v == Head(inbox).value
             x == logindSeats[o].seat
             news == v # "none" /\ logindSeats[o].alive
                     /\ logindSeats[o].canGraphical # (v = "yes")
  <2>1. /\ Receive("Get")
        /\ IF news THEN IF v = "yes" THEN CreateSeat(x, 1) ELSE RemoveSeat(x)
           ELSE UNCHANGED <<logindSeats, running, managed, exported>>
    BY <1>4 DEF ReceiveGet
  <2>2. Head(inbox) \in MessageType /\ Head(inbox).type = "Get"
    BY <2>1, Received
  <2>3. o \in Objects /\ o # 0
    BY <2>2 DEF MessageType, Objects
  <2>4. x \in Seats /\ logindSeats[o].canGraphical \in BOOLEAN
    <3>1. logindSeats[o] \in LogindSeat
      <4>1. logindSeats \in Seq(LogindSeat)
        BY DEF TypeOK
      <4> HIDE DEF LogindSeat
      <4> QED
        BY <2>3, <4>1, ElementOfSeq DEF Objects
    <3> QED
      BY <3>1 DEF LogindSeat
  <2>5. news /\ v = "yes" => x \notin managed
    <3>1. OneObject(x) /\ (x \in managed <=> Now(x) = "yes")
      BY <2>4 DEF Follows, SeatInv, ManagedInv
    <3>2. logindSeats[o].alive => systemSeats[x] = o
      BY <2>3, <3>1 DEF OneObject, AliveFor, Alive
    <3> QED
      BY <2>3, <2>4, <3>1, <3>2 DEF Now
  <2>6. CASE news
    <3> HIDE DEF news, o, v, x
    <3> QED
      BY <2>1, <2>4, <2>5, <2>6, CreateExported, RemoveExported
  <2>7. CASE ~news
    BY <2>1, <2>7 DEF ExportedInv
  <2> QED
    BY <2>6, <2>7
<1> QED
  BY <1>1, <1>2, <1>3, <1>4 DEF Daemon

-----------------------------------------------------------------------------
(***************************************************************************)
(* Theorems.                                                               *)
(***************************************************************************)
\* The invariant holds at first.
LEMMA InitInv == Init => Inv
<1> SUFFICES ASSUME Init PROVE Inv
  OBVIOUS
<1>1. /\ inbox = <<>> /\ logindSeats = <<>> /\ exported = <<>> /\ managed = {} /\ watched = {}
      /\ systemSeats = [z \in Seats |-> 0] /\ running = [z \in Seats |-> 0]
      /\ changes = 0 /\ subscribed = FALSE /\ raced = FALSE /\ missed = FALSE
      /\ present \subseteq Seats /\ graphical \subseteq present
  BY DEF Init
<1>2. /\ calls \in Seq(CallType) /\ Len(calls) = 2
      /\ calls[1] = [op |-> "ListSeats"] /\ calls[2] = [op |-> "subscribe"]
  <2>1. PICK c, d : c = [op |-> "ListSeats"] /\ d = [op |-> "subscribe"]
    OBVIOUS
  <2>2. c \in CallType /\ d \in CallType
    BY <2>1 DEF CallType
  <2>3. calls = <<c, d>>
    BY <2>1 DEF Init
  <2> HIDE DEF CallType
  <2> QED
    BY <2>1, <2>2, <2>3
<1>3. TypeOK
  <2>1. inbox \in Seq(MessageType) /\ logindSeats \in Seq(LogindSeat)
        /\ exported \in Seq([seat : Seats, object : Nat])
    BY <1>1
  <2>2. changes \in 0 .. MaxChanges
    BY <1>1, SeatManagerAssumption
  <2>3. systemSeats \in [Seats -> {0} \union Objects] /\ running \in [Seats -> Nat]
    BY <1>1
  <2> QED
    BY <1>1, <1>2, <2>1, <2>2, <2>3 DEF TypeOK
<1>4. Len(inbox) = 0 /\ Len(logindSeats) = 0 /\ Len(exported) = 0
  BY <1>1
<1>5. Unlisted
  BY <1>2 DEF Unlisted
<1>6. \A k \in 1 .. Len(calls) : k = 1 \/ calls[k].op = "subscribe"
  BY <1>2
<1>7. ListInv
  BY <1>1, <1>2, <1>6 DEF ListInv
<1>8. ASSUME NEW s \in Seats PROVE SeatInv(s) /\ Now(s) = "none"
  <2>1. systemSeats[s] = 0 /\ Now(s) = "none"
    BY <1>1 DEF Now
  <2>2. PICK f : f = [n \in 0 .. 0 |-> "none"]
    OBVIOUS
  <2>3. f \in [0 .. 0 -> Answer] /\ f[0] = "none"
    BY <2>2 DEF Answer
  <2>4. Forecast(s, f)
    BY <1>4, <2>1, <2>3 DEF Forecast
  <2>5. Settles(s, f[Len(inbox)]) /\ Alternates(s, f)
    BY <1>4, <1>5, <2>3 DEF Settles, Alternates
  <2>6. Foreseen(s)
    BY <2>4, <2>5 DEF Foreseen
  <2>7. Returns(s) /\ Listens(s)
    BY <1>4, <2>1 DEF Returns, Listens
  <2>8. OneObject(s)
    BY <1>4, <2>1 DEF OneObject, AliveFor, Objects
  <2> QED
    BY <2>1, <2>6, <2>7, <2>8 DEF SeatInv
<1>9. ManagedInv
  BY <1>1, <1>8 DEF ManagedInv
<1>10. ExportedInv
  BY <1>1, <1>4 DEF ExportedInv
<1> QED
  BY <1>1, <1>3, <1>7, <1>8, <1>9, <1>10 DEF Inv, Follows, Counted

\* It is inductive.
LEMMA StepInv == Inv /\ [Next]_vars => Inv'
<1> SUFFICES ASSUME Inv, [Next]_vars PROVE Inv'
  OBVIOUS
<1>0. TypeOK /\ Counted /\ (~raced => Follows) /\ (~raced /\ ~missed => ExportedInv)
  BY DEF Inv
<1>1. ASSUME NEW s \in Seats, SeatAppears(s) PROVE Inv'
  <2>1. TypeOK'
    BY <1>0, <1>1, LogindTypes
  <2>2. UNCHANGED <<managed, running, exported, missed>> /\ raced' = (raced \/ Starting)
    BY <1>1 DEF SeatAppears, daemonVars
  <2>3. Counted' /\ (ExportedInv => ExportedInv')
    BY <1>0, <2>2 DEF Counted, ExportedInv
  <2>4. ~raced' => Follows'
    BY <1>0, <1>1, <2>2, AppearsFollows
  <2>5. raced => raced'
    BY <2>2
  <2> QED
    BY <1>0, <2>1, <2>2, <2>3, <2>4, <2>5 DEF Inv
<1>2. ASSUME NEW s \in Seats, SeatVanishes(s) PROVE Inv'
  <2>1. TypeOK'
    BY <1>0, <1>2, LogindTypes
  <2>2. UNCHANGED <<managed, running, exported, missed>> /\ raced' = (raced \/ Starting)
    BY <1>2 DEF SeatVanishes, daemonVars
  <2>3. Counted' /\ (ExportedInv => ExportedInv')
    BY <1>0, <2>2 DEF Counted, ExportedInv
  <2>4. ~raced' => Follows'
    BY <1>0, <1>2, <2>2, VanishesFollows
  <2>5. raced => raced'
    BY <2>2
  <2> QED
    BY <1>0, <2>1, <2>2, <2>3, <2>4, <2>5 DEF Inv
<1>3. ASSUME NEW s \in Seats, CanGraphicalChanges(s) PROVE Inv'
  <2>1. TypeOK'
    BY <1>0, <1>3, LogindTypes
  <2>2. UNCHANGED <<managed, running, exported, raced>> /\ (missed => missed')
    BY <1>3 DEF CanGraphicalChanges, daemonVars
  <2>3. Counted' /\ (ExportedInv => ExportedInv')
    BY <1>0, <2>2 DEF Counted, ExportedInv
  <2>4. ~raced' => Follows'
    BY <1>0, <1>3, <2>2, ChangesFollows
  <2> QED
    BY <1>0, <2>1, <2>2, <2>3, <2>4 DEF Inv
<1>4. CASE BusMatches
  <2>1. PICK i : Matched(i)
    BY <1>4, BusMatched
  <2>2. TypeOK' /\ UNCHANGED <<managed, running, exported, raced, missed>>
    BY <1>0, <2>1, MatchedTypes DEF Matched, daemonVars, historyVars
  <2>3. Counted' /\ (ExportedInv => ExportedInv')
    BY <1>0, <2>2 DEF Counted, ExportedInv
  <2>4. ~raced' => Follows'
    BY <1>0, <2>1, <2>2, MatchedFollows
  <2> QED
    BY <1>0, <2>2, <2>3, <2>4 DEF Inv
<1>5. CASE LogindAnswers
  <2>1. TypeOK' /\ UNCHANGED <<managed, running, exported, raced, missed>>
    BY <1>0, <1>5, AnswersTypes DEF LogindAnswers, daemonVars, historyVars
  <2>2. Counted' /\ (ExportedInv => ExportedInv')
    BY <1>0, <2>1 DEF Counted, ExportedInv
  <2>3. ~raced' => Follows'
    BY <1>0, <1>5, <2>1, AnswersFollows
  <2> QED
    BY <1>0, <2>1, <2>2, <2>3 DEF Inv
<1>6. CASE Daemon
  <2>1. TypeOK' /\ Counted' /\ Frame /\ UNCHANGED <<raced, missed>>
    BY <1>0, <1>6, DaemonTypes DEF Daemon, Frame, historyVars
  <2>2. ~raced' => Follows'
    BY <1>0, <1>6, <2>1, AddedFollows, RemovedFollows, ChangedFollows, GetFollows DEF Daemon
  <2>3. ~raced' /\ ~missed' => ExportedInv'
    BY <1>0, <1>6, <2>1, DaemonExported
  <2> QED
    BY <2>1, <2>2, <2>3 DEF Inv
<1>7. CASE UNCHANGED vars
  <2>1. UNCHANGED <<present, graphical, changes, subscribed, watched, calls, inbox, logindSeats,
                    systemSeats, managed, running, exported, raced, missed>>
    BY <1>7 DEF vars, logindVars, daemonVars, historyVars
  <2>2. TypeOK' /\ Counted' /\ (ExportedInv => ExportedInv')
    BY <1>0, <2>1 DEF TypeOK, Counted, ExportedInv, CallType, MessageType, Objects
  <2>3. Follows => Follows'
    <3>1. ASSUME Follows, NEW s \in Seats PROVE SeatInv(s)'
      BY <2>1, <3>1, StillSeat DEF Follows
    <3>2. ASSUME Follows PROVE ListInv' /\ ManagedInv'
      BY <2>1, <3>2 DEF Follows, ListInv, ManagedInv, Unlisted, Now
    <3> QED
      BY <3>1, <3>2 DEF Follows
  <2> QED
    BY <1>0, <2>1, <2>2, <2>3 DEF Inv
<1> QED
  BY <1>1, <1>2, <1>3, <1>4, <1>5, <1>6, <1>7 DEF Next

\* It says that a seat has one Seat,
LEMMA OneSeatEachFollows == Inv => OneSeatEach
<1> SUFFICES ASSUME TypeOK, ExportedInv
             PROVE  /\ \A s \in Seats : running[s] = IF s \in managed THEN 1 ELSE 0
                    /\ {exported[i].seat : i \in 1 .. Len(exported)} = managed
                    /\ Len(exported) = Cardinality(managed)
  BY DEF Inv, OneSeatEach
<1>1. Len(exported) \in Nat
  <2>1. exported \in Seq([seat : Seats, object : Nat])
    BY DEF TypeOK
  <2> QED
    BY <2>1, LenProperties
<1>2. PICK name : name = [i \in 1 .. Len(exported) |-> exported[i].seat]
  OBVIOUS
<1>3. name \in Bijection(1 .. Len(exported), managed)
  <2>1. \A i \in 1 .. Len(exported) : exported[i].seat \in managed
    BY DEF ExportedInv
  <2>2. \A z \in managed : \E i \in 1 .. Len(exported) : exported[i].seat = z
    BY DEF ExportedInv
  <2>3. name \in Surjection(1 .. Len(exported), managed)
    BY <1>2, <2>1, <2>2 DEF Surjection
  <2>4. name \in Injection(1 .. Len(exported), managed)
    BY <1>2, <2>1 DEF ExportedInv, Injection, IsInjective
  <2> QED
    BY <2>3, <2>4 DEF Bijection
<1>4. Cardinality(managed) = Len(exported)
  <2>0. PICK N : N = Len(exported)
    OBVIOUS
  <2>1. IsFiniteSet(1 .. N) /\ Cardinality(1 .. N) = N
    <3>1. 1 \in Int /\ N \in Int /\ N \in Nat
      BY <1>1, <2>0
    <3>2. IsFiniteSet(1 .. N) /\ Cardinality(1 .. N) = IF 1 > N THEN 0 ELSE N - 1 + 1
      BY <3>1, FS_Interval
    <3> QED
      BY <3>1, <3>2
  <2>2. ExistsBijection(1 .. Len(exported), managed)
    BY <1>3 DEF ExistsBijection
  <2> QED
    BY <2>0, <2>1, <2>2, FS_Bijection
<1> QED
  BY <1>4 DEF ExportedInv

\* and that the seats with a Seat are the graphical ones, once all is quiet.
LEMMA GraphicalFollows == Inv => GraphicalSeatsOnly
<1> SUFFICES ASSUME TypeOK, Follows, calls = <<>>, inbox = <<>>
             PROVE  managed = graphical /\ Known = present
  BY DEF Inv, GraphicalSeatsOnly, Quiet
<1>1. Len(calls) = 0 /\ Len(inbox) = 0 /\ ~Unlisted
  BY DEF Unlisted
<1>2. ASSUME NEW s \in Seats
      PROVE  (s \in managed <=> s \in graphical) /\ (systemSeats[s] # 0 <=> s \in present)
  <2>1. PICK f : Forecast(s, f) /\ Settles(s, f[Len(inbox)])
    BY DEF Follows, SeatInv, Foreseen
  <2>2. f[Len(inbox)] = Now(s)
    BY <1>1, <2>1 DEF Forecast
  <2>3. Settles(s, Now(s)) /\ ~Asking(s)
    BY <1>1, <2>1, <2>2 DEF Asking
  <2>4. Now(s) = "none" <=> s \notin present
    BY <1>1, <2>3 DEF Settles
  <2>5. s \in present => Now(s) = CanGraphical(s)
    BY <1>1, <2>3 DEF Settles
  <2>6. s \in managed <=> Now(s) = "yes"
    BY DEF Follows, ManagedInv
  <2>7. systemSeats[s] # 0 <=> s \in present
    BY <2>4 DEF Now
  <2>8. s \in graphical => s \in present
    BY DEF TypeOK
  <2> QED
    BY <2>4, <2>5, <2>6, <2>7, <2>8 DEF CanGraphical
<1>3. managed \subseteq Seats /\ graphical \subseteq Seats /\ present \subseteq Seats
  BY DEF TypeOK
<1> QED
  BY <1>2, <1>3 DEF Known

\* Whatever seats come and go, the daemon is on the way to what logind has.
THEOREM Invariance == Spec => []Inv
<1>1. Init => Inv
  BY InitInv
<1>2. Inv /\ [Next]_vars => Inv'
  BY StepInv
<1> QED
  BY <1>1, <1>2, PTL DEF Spec

\* The LogindSeats, the Seats, the objects on D-Bus and what is on its way to and
\* from logind keep their types: erase in the loop of RemoveSeat stays in the list.
THEOREM Types == Spec => []TypeOK
<1>1. Inv => TypeOK
  BY DEF Inv
<1> QED
  BY <1>1, Invariance, PTL

\* However the calls of SeatManager and the signals of logind cross, a seat has
\* one Seat and one object on D-Bus, unless the daemon raced with logind at its
\* start or a seat lost its graphics unheard.
THEOREM OnlyOneEach == Spec => []OneSeatEach
  BY OneSeatEachFollows, Invariance, PTL

\* When all calls are answered and all messages received the daemon has a Seat
\* for each seat that is graphical and for no other, unless it raced with logind
\* at its start.
THEOREM GraphicalOnly == Spec => []GraphicalSeatsOnly
  BY GraphicalFollows, Invariance, PTL
=============================================================================
