----------------------------- MODULE SeatProofs -----------------------------
(***************************************************************************)
(* Proofs about Seat: however the slots of the displays nest, none is lost *)
(* and none is replaced twice.  The invariant is about the stack of calls: *)
(* they are all about one display, and what creates a display waits for    *)
(* the removal of that one.                                                *)
(***************************************************************************)
EXTENDS Seat, WellFoundedInduction, SequenceTheorems, TLAPS

(***************************************************************************)
(* Induction and recursion up to a number, in terms of sets and functions. *)
(***************************************************************************)
\* Of some natural numbers one is the least.
LEMMA Least ==
    ASSUME NEW T, T \subseteq Nat, T # {}
    PROVE  \E k \in T : \A j \in T : k <= j
<1>1. PICK k \in T : \A j \in T : ~ (<<j, k>> \in OpToRel(<, Nat))
  BY WFMin, NatLessThanWellFounded
<1>2. ASSUME NEW j \in T PROVE k <= j
  <2>1. j \in Nat /\ k \in Nat
    OBVIOUS
  <2>2. ~ (j < k)
    BY <1>1, <2>1 DEF OpToRel
  <2> QED
    BY <2>1, <2>2
<1> QED
  BY <1>2

\* Induction up to N.
LEMMA UpTo ==
    ASSUME NEW N \in Nat, NEW T, 0 \in T,
           \A n \in 0 .. N - 1 : n \in T => n + 1 \in T
    PROVE  \A n \in 0 .. N : n \in T
<1> DEFINE D == {n \in 0 .. N : n \notin T}
<1>1. SUFFICES ASSUME D # {} PROVE FALSE
  OBVIOUS
<1>2. PICK k \in D : \A j \in D : k <= j
  <2>1. D \subseteq Nat
    OBVIOUS
  <2> HIDE DEF D
  <2> QED
    BY <1>1, <2>1, Least
<1>3. k \in 1 .. N /\ k - 1 \in 0 .. N - 1
  BY <1>2
<1>4. k - 1 \in T
  BY <1>2, <1>3
<1> QED
  BY <1>2, <1>3, <1>4

\* A function whose first value is base and whose value at n comes from the one
\* before by step[n].
Recurs(f, S, N, base, step) ==
    /\ f \in [0 .. N -> S]
    /\ f[0] = base
    /\ \A n \in 1 .. N : f[n] = step[n][f[n - 1]]

IsStep(step, S, N) == \A n \in 1 .. N, x \in S : step[n][x] \in S

\* There always is one.
LEMMA Recursion ==
    ASSUME NEW S, NEW N, NEW base, NEW step,
           N \in Nat, base \in S, IsStep(step, S, N)
    PROVE  \E f : Recurs(f, S, N, base, step)
<1> DEFINE Up(m, f) == f[0] = base /\ \A n \in 1 .. m : f[n] = step[n][f[n - 1]]
           T == {m \in 0 .. N : \E f \in [0 .. m -> S] : Up(m, f)}
<1>1. 0 \in T
  <2> DEFINE f == [i \in 0 .. 0 |-> base]
  <2>1. f \in [0 .. 0 -> S] /\ Up(0, f)
    OBVIOUS
  <2>2. 0 \in 0 .. N
    OBVIOUS
  <2> HIDE DEF f, Up
  <2> QED
    BY <2>1, <2>2
<1>2. ASSUME NEW m \in 0 .. N - 1, m \in T PROVE m + 1 \in T
  <2>1. PICK f \in [0 .. m -> S] : Up(m, f)
    BY <1>2
  <2> DEFINE v == step[m + 1][f[m]]
             g == [i \in 0 .. m + 1 |-> IF i <= m THEN f[i] ELSE v]
  <2>2. v \in S
    BY <1>2 DEF IsStep
  <2>3. g \in [0 .. m + 1 -> S]
    BY <2>2
  <2>4. g[0] = base
    BY <2>1
  <2>5. ASSUME NEW n \in 1 .. m + 1 PROVE g[n] = step[n][g[n - 1]]
    <3>1. CASE n <= m
      BY <2>1, <3>1
    <3>2. CASE n = m + 1
      BY <3>2
    <3> QED
      BY <3>1, <3>2
  <2> HIDE DEF g
  <2>6. Up(m + 1, g) /\ m + 1 \in 0 .. N
    BY <2>4, <2>5
  <2> HIDE DEF Up
  <2> QED
    BY <2>3, <2>6
<1>3. N \in T
  <2> HIDE DEF T
  <2>1. \A m \in 0 .. N - 1 : m \in T => m + 1 \in T
    BY <1>2
  <2>2. \A m \in 0 .. N : m \in T
    BY <1>1, <2>1, UpTo
  <2> QED
    BY <2>2
<1> QED
  BY <1>3 DEF Recurs

(***************************************************************************)
(* Lists of displays.                                                      *)
(***************************************************************************)
\* No display is listed twice.
Distinct(list) == \A i, j \in 1 .. Len(list) : list[i] = list[j] => i = j

\* What a list has in it.
Elements(list) == {list[i] : i \in 1 .. Len(list)}

\* removeAll takes out every entry of the display and no other.
LEMMA WithoutProperties ==
    ASSUME NEW S, NEW list \in Seq(S), NEW d
    PROVE  /\ Without(list, d) \in Seq(S)
           /\ Elements(Without(list, d)) = Elements(list) \ {d}
           /\ Distinct(list) => Distinct(Without(list, d))
           /\ Len(Without(list, d)) <= Len(list)
           /\ d \in Elements(list) => Len(Without(list, d)) < Len(list)
<1> DEFINE N == Len(list)
           Next1(n, q) == IF list[n] = d THEN q ELSE Append(q, list[n])
           F == CHOOSE f :
                  f = [n \in 0 .. N |-> IF n = 0 THEN <<>> ELSE Next1(n, f[n - 1])]
<1>1. N \in Nat
  OBVIOUS
<1>2. PICK f \in [0 .. N -> Seq(S)] :
        f[0] = <<>> /\ \A n \in 1 .. N : f[n] = Next1(n, f[n - 1])
  <2> DEFINE step == [n \in 1 .. N |-> [q \in Seq(S) |-> Next1(n, q)]]
  <2>1. \A n \in 1 .. N, q \in Seq(S) :
          step[n][q] = Next1(n, q) /\ step[n][q] \in Seq(S)
    OBVIOUS
  <2>2. IsStep(step, Seq(S), N) /\ <<>> \in Seq(S)
    BY <2>1 DEF IsStep
  <2> HIDE DEF step, Next1, N
  <2>3. PICK f : Recurs(f, Seq(S), N, <<>>, step)
    BY <1>1, <2>2, Recursion
  <2>4. f \in [0 .. N -> Seq(S)]
    BY <2>3 DEF Recurs
  <2>5. ASSUME NEW n \in 1 .. N PROVE f[n] = Next1(n, f[n - 1])
    <3>1. n - 1 \in 0 .. N
      BY <1>1
    <3>2. f[n - 1] \in Seq(S)
      BY <2>4, <3>1
    <3> QED
      BY <2>1, <2>3, <3>2 DEF Recurs
  <2> QED
    BY <2>3, <2>4, <2>5 DEF Recurs
<1>3. F \in [0 .. N -> Seq(S)] /\ F[0] = <<>>
      /\ \A n \in 1 .. N : F[n] = Next1(n, F[n - 1])
  <2> HIDE DEF Next1, N
  <2>1. f = [n \in 0 .. N |-> IF n = 0 THEN <<>> ELSE Next1(n, f[n - 1])]
    BY <1>1, <1>2
  <2>2. F = [n \in 0 .. N |-> IF n = 0 THEN <<>> ELSE Next1(n, F[n - 1])]
    BY <2>1
  <2> HIDE DEF F
  <2>3. F[0] = <<>> /\ \A n \in 1 .. N : F[n] = Next1(n, F[n - 1])
    BY <1>1, <2>2
  <2>4. \A n \in 0 .. N : F[n] = f[n]
    <3> DEFINE T == {n \in 0 .. N : F[n] = f[n]}
    <3>1. 0 \in T
      BY <1>1, <1>2, <2>3
    <3>2. ASSUME NEW n \in 0 .. N - 1, n \in T PROVE n + 1 \in T
      BY <1>1, <1>2, <2>3, <3>2
    <3> HIDE DEF T
    <3>3. \A n \in 0 .. N - 1 : n \in T => n + 1 \in T
      BY <3>2
    <3>4. \A n \in 0 .. N : n \in T
      BY <1>1, <3>1, <3>3, UpTo
    <3> QED
      BY <3>4 DEF T
  <2> QED
    BY <1>1, <1>2, <2>2, <2>3, <2>4
<1>4. Without(list, d) = F[N]
  BY DEF Without
<1> DEFINE Right(n) ==
             /\ \A k \in 1 .. Len(F[n]) : \E i \in 1 .. n : F[n][k] = list[i] /\ list[i] # d
             /\ \A i \in 1 .. n : list[i] # d => \E k \in 1 .. Len(F[n]) : F[n][k] = list[i]
             /\ Distinct(list) => Distinct(F[n])
             /\ Len(F[n]) <= n
             /\ (\E i \in 1 .. n : list[i] = d) => Len(F[n]) < n
           T == {n \in 0 .. N : Right(n)}
<1> HIDE DEF F
<1>5. 0 \in T
  BY <1>1, <1>3 DEF Distinct
<1>6. ASSUME NEW n \in 0 .. N - 1, n \in T PROVE n + 1 \in T
  <2>1. /\ n \in 0 .. N /\ n + 1 \in 1 .. N /\ n + 1 \in 0 .. N
        /\ n \in Nat /\ (n + 1) - 1 = n /\ Right(n)
    <3> HIDE DEF Right
    <3> QED
      BY <1>1, <1>6
  <2> DEFINE q == F[n]
             e == list[n + 1]
  <2>2. q \in Seq(S) /\ Len(q) \in Nat /\ e \in S
    <3>1. q \in Seq(S)
      BY <1>3, <2>1
    <3>2. e \in S
      BY <2>1
    <3> QED
      BY <3>1, <3>2
  <2>3. F[n + 1] = IF e = d THEN q ELSE Append(q, e)
    BY <1>3, <2>1
  <2>4. CASE e = d
    <3>1. F[n + 1] = q
      BY <2>3, <2>4
    <3>2. \A i \in 1 .. n + 1 : i \in 1 .. n \/ i = n + 1
      BY <2>1
    <3>3. Right(n + 1)
      BY <2>1, <2>2, <2>4, <3>1, <3>2
    <3> QED
      BY <2>1, <3>3
  <2>5. CASE e # d
    <3> DEFINE p == F[n + 1]
    <3>1. /\ Len(p) = Len(q) + 1 /\ p[Len(q) + 1] = e
          /\ \A k \in 1 .. Len(q) : p[k] = q[k]
      BY <2>2, <2>3, <2>5, AppendProperties
    <3>2. \A i \in 1 .. n + 1 : i \in 1 .. n \/ i = n + 1
      BY <2>1
    <3>3. \A k \in 1 .. Len(p) : k \in 1 .. Len(q) \/ k = Len(q) + 1
      BY <2>2, <3>1
    <3> HIDE DEF p, q, e
    <3>4. \A k \in 1 .. Len(p) : \E i \in 1 .. n + 1 : p[k] = list[i] /\ list[i] # d
      <4>1. TAKE k \in 1 .. Len(p)
      <4>2. CASE k \in 1 .. Len(q)
        BY <2>1, <3>1, <4>2 DEF q
      <4>3. CASE k = Len(q) + 1
        BY <2>1, <2>5, <3>1, <4>3 DEF e
      <4> QED
        BY <3>3, <4>2, <4>3
    <3>5. \A i \in 1 .. n + 1 : list[i] # d => \E k \in 1 .. Len(p) : p[k] = list[i]
      <4>1. SUFFICES ASSUME NEW i \in 1 .. n + 1, list[i] # d
                     PROVE  \E k \in 1 .. Len(p) : p[k] = list[i]
        OBVIOUS
      <4>2. CASE i \in 1 .. n
        <5>1. PICK k \in 1 .. Len(q) : q[k] = list[i]
          BY <2>1, <4>1, <4>2 DEF q
        <5>2. k \in 1 .. Len(p) /\ p[k] = list[i]
          BY <2>2, <3>1, <5>1
        <5> QED
          BY <5>2
      <4>3. CASE i = n + 1
        <5>1. Len(q) + 1 \in 1 .. Len(p)
          BY <2>2, <3>1
        <5> QED
          BY <3>1, <4>3, <5>1 DEF e
      <4> QED
        BY <3>2, <4>2, <4>3
    <3>6. Distinct(list) => Distinct(p)
      <4>1. SUFFICES ASSUME Distinct(list), NEW j \in 1 .. Len(p), NEW k \in 1 .. Len(p),
                            p[j] = p[k]
                     PROVE  j = k
        BY DEF Distinct
      <4>2. \A m \in 1 .. Len(q) : p[m] # e
        <5>1. SUFFICES ASSUME NEW m \in 1 .. Len(q) PROVE q[m] # e
          BY <3>1
        <5>2. PICK i \in 1 .. n : q[m] = list[i]
          BY <2>1 DEF q
        <5>3. i \in 1 .. N /\ i # n + 1 /\ n + 1 \in 1 .. Len(list)
          BY <1>1, <2>1
        <5> QED
          BY <4>1, <5>2, <5>3 DEF Distinct, e
      <4>3. Distinct(q)
        BY <2>1, <4>1 DEF q
      <4> QED
        BY <3>1, <3>3, <4>1, <4>2, <4>3 DEF Distinct
    <3>7. /\ Len(p) <= n + 1
          /\ (\E i \in 1 .. n + 1 : list[i] = d) => Len(p) < n + 1
      <4>1. Len(q) <= n /\ ((\E i \in 1 .. n : list[i] = d) => Len(q) < n)
        BY <2>1 DEF q
      <4>2. list[n + 1] # d
        BY <2>5 DEF e
      <4> QED
        BY <2>1, <2>2, <3>1, <3>2, <4>1, <4>2
    <3> QED
      BY <2>1, <3>4, <3>5, <3>6, <3>7 DEF p
  <2> QED
    BY <2>4, <2>5
<1>7. Right(N)
  <2> HIDE DEF T
  <2>1. \A n \in 0 .. N - 1 : n \in T => n + 1 \in T
    BY <1>6
  <2>2. \A n \in 0 .. N : n \in T
    BY <1>1, <1>5, <2>1, UpTo
  <2>3. N \in T
    BY <1>1, <2>2
  <2> QED
    BY <2>3 DEF T
<1>8. F[N] \in Seq(S)
  BY <1>1, <1>3
<1> DEFINE p == F[N]
<1>9. /\ \A k \in 1 .. Len(p) : \E i \in 1 .. N : p[k] = list[i] /\ list[i] # d
      /\ \A i \in 1 .. N : list[i] # d => \E k \in 1 .. Len(p) : p[k] = list[i]
      /\ Distinct(list) => Distinct(p)
      /\ Len(p) <= N
      /\ (\E i \in 1 .. N : list[i] = d) => Len(p) < N
  BY <1>7
<1> HIDE DEF p
<1>10. Elements(p) = Elements(list) \ {d}
  <2>1. ASSUME NEW e \in Elements(p) PROVE e \in Elements(list) \ {d}
    <3>1. PICK k \in 1 .. Len(p) : e = p[k]
      BY <2>1 DEF Elements
    <3> QED
      BY <1>9, <3>1 DEF Elements
  <2>2. ASSUME NEW e \in Elements(list) \ {d} PROVE e \in Elements(p)
    <3>1. PICK i \in 1 .. N : e = list[i]
      BY <2>2 DEF Elements
    <3>2. PICK k \in 1 .. Len(p) : p[k] = list[i]
      BY <1>9, <3>1
    <3> QED
      BY <3>1, <3>2 DEF Elements
  <2> QED
    BY <2>1, <2>2
<1>11. d \in Elements(list) => \E i \in 1 .. N : list[i] = d
  BY DEF Elements
<1> QED
  BY <1>4, <1>8, <1>9, <1>10, <1>11 DEF p

-----------------------------------------------------------------------------
(***************************************************************************)
(* Calls.                                                                  *)
(***************************************************************************)
\* What a step may put in front of the calls that are left.
Pushes == {<<>>, <<"stop">>, <<"ttyFailed">>, <<"displayServerFailed">>,
           <<"displayStopped">>, <<"stopGreeter">>,
           <<"stop", "removed">>, <<"removeDisplay", "fallBack">>,
           <<"removeDisplay", "replace">>,
           <<"stopGreeter", "stopAuth", "stopServer", "setStopped">>}

\* The calls ops, about the display d.
Calls(ops, d) == [i \in 1 .. Len(ops) |-> Call(ops[i], d)]

\* The calls there are.
Ops == {"stop", "stopGreeter", "stopAuth", "stopServer", "setStopped",
        "ttyFailed", "displayServerFailed", "displayStopped", "removeDisplay",
        "removed", "replace", "fallBack"}

\* They are sequences of calls.
LEMMA PushesTypes == Pushes \subseteq Seq(Ops)
<1>1. /\ <<>> \in Seq(Ops) /\ <<"stop">> \in Seq(Ops) /\ <<"ttyFailed">> \in Seq(Ops)
      /\ <<"displayServerFailed">> \in Seq(Ops) /\ <<"displayStopped">> \in Seq(Ops)
      /\ <<"stopGreeter">> \in Seq(Ops)
  BY DEF Ops
<1>2. <<"stop", "removed">> \in Seq(Ops)
  BY DEF Ops
<1>3. <<"removeDisplay", "fallBack">> \in Seq(Ops)
  BY DEF Ops
<1>4. <<"removeDisplay", "replace">> \in Seq(Ops)
  BY DEF Ops
<1>5. <<"stopGreeter", "stopAuth", "stopServer", "setStopped">> \in Seq(Ops)
  BY DEF Ops
<1> QED
  BY <1>1, <1>2, <1>3, <1>4, <1>5 DEF Pushes

-----------------------------------------------------------------------------
(***************************************************************************)
(* Starting a display.                                                     *)
(***************************************************************************)
\* A display that does not count as started runs nothing.
Still(r) == r.started \/ (r.greeter = "none" /\ r.auth = "none")

\* It keeps what makes it one of the seat's.
SameObject(s, r) == s.type = r.type /\ s.blocked = r.blocked /\ s.doomed = r.doomed

\* Display::startSocketServerAndGreeter.
LEMMA GreeterResult ==
    ASSUME NEW r \in DisplayState, NEW s \in WithGreeter(r)
    PROVE  /\ s \in DisplayState /\ SameObject(s, r)
           /\ s.retry = r.retry /\ s.tries = r.tries
           /\ Still(r) => Still(s)
<1>1. CASE s = [r EXCEPT !.unowned = TRUE]
  BY <1>1 DEF DisplayState, SameObject, Still
<1>2. CASE s = StartGreeter([r EXCEPT !.started = TRUE])
  BY <1>2 DEF StartGreeter, DisplayState, SameObject, Still
<1> QED
  BY <1>1, <1>2 DEF WithGreeter

\* What Seat::startDisplay makes of a display.
LEMMA StartResult ==
    ASSUME NEW r \in DisplayState, r.tries < 3, NEW s \in StartDisplay(r)
    PROVE  /\ s \in DisplayState /\ SameObject(s, r)
           /\ s.retry => s.tries < 3
           /\ Still(r) => Still(s)
<1> DEFINE o == [r EXCEPT !.tries = 0, !.retry = FALSE]
           q == [o EXCEPT !.server = "on"]
           a == [q EXCEPT !.started = TRUE, !.auth = "auth", !.autologin = TRUE]
           b == [q EXCEPT !.started = TRUE]
<1>1. /\ q \in DisplayState /\ SameObject(q, r) /\ (Still(r) => Still(q))
      /\ q.retry = FALSE
  <2>1. 0 \in Tries
    BY DEF Tries
  <2>2. o \in DisplayState /\ SameObject(o, r) /\ (Still(r) => Still(o)) /\ o.retry = FALSE
    BY <2>1 DEF DisplayState, SameObject, Still
  <2> HIDE DEF o
  <2> QED
    BY <2>2 DEF DisplayState, SameObject, Still
<1>2. a \in DisplayState /\ SameObject(a, r) /\ Still(a) /\ a.retry = FALSE
  BY <1>1 DEF DisplayState, SameObject, Still
<1>3. b \in DisplayState /\ SameObject(b, r) /\ Still(b) /\ b.retry = FALSE
  BY <1>1 DEF DisplayState, SameObject, Still
<1>4. \/ s \in ServerStarts([r EXCEPT !.tries = 0, !.retry = FALSE])
      \/ \E f \in ServerFails(r) : s = [f EXCEPT !.tries = @ + 1, !.retry = f.tries + 1 < 3]
  BY DEF StartDisplay
<1>5. CASE s \in ServerStarts([r EXCEPT !.tries = 0, !.retry = FALSE])
  <2>1. s \in ServerStarted(q)
    BY <1>5 DEF ServerStarts
  <2>2. s = a \/ s \in WithGreeter(b) \/ s \in WithGreeter(q)
    <3> HIDE DEF q
    <3> QED
      BY <2>1 DEF ServerStarted
  <2> HIDE DEF a, b, q
  <2>3. CASE s = a
    BY <1>2, <2>3
  <2>4. CASE s \in WithGreeter(b)
    BY <1>3, <2>4, GreeterResult DEF SameObject
  <2>5. CASE s \in WithGreeter(q)
    BY <1>1, <2>5, GreeterResult DEF SameObject
  <2> QED
    BY <2>2, <2>3, <2>4, <2>5
<1>6. CASE \E f \in ServerFails(r) : s = [f EXCEPT !.tries = @ + 1, !.retry = f.tries + 1 < 3]
  <2>1. PICK f \in ServerFails(r) : s = [f EXCEPT !.tries = @ + 1, !.retry = f.tries + 1 < 3]
    BY <1>6
  <2>2. PICK v \in {"off", "failed"} : f = [r EXCEPT !.server = v]
    BY <2>1 DEF ServerFails
  <2>3. f \in DisplayState /\ SameObject(f, r) /\ (Still(r) => Still(f)) /\ f.tries < 3
    BY <2>2 DEF DisplayState, SameObject, Still
  <2>4. f.tries + 1 \in Tries /\ (f.tries + 1 < 3) \in BOOLEAN
    BY <2>3 DEF DisplayState, Tries
  <2> QED
    BY <2>1, <2>3, <2>4 DEF DisplayState, SameObject, Still
<1> QED
  BY <1>4, <1>5, <1>6

-----------------------------------------------------------------------------
(***************************************************************************)
(* The inductive invariant.                                                *)
(***************************************************************************)
\* The stack s after its first call, which makes the calls ops about d.
After(s, ops, d) == Calls(ops, d) \o Tail(s)

\* The next call, and the display it is about.
Top == stack[1].op
Current == stack[1].display

\* What may wait behind the next call.
Later == {"stopAuth", "stopServer", "setStopped", "removed", "fallBack", "replace"}

\* After the call i comes one of ops.
Follows(i, ops) == i < Len(stack) /\ stack[i + 1].op \in ops

\* The call op is still to be made.
Has(op) == \E i \in 1 .. Len(stack) : stack[i].op = op

\* The calls in the stack are all about one display.  What Display::stop has
\* still to do comes in its order; after removeDisplay the seat creates a display,
\* or leaves it to another slot; and the fallback waits for nothing else.
StackInv ==
    /\ \A i \in 1 .. Len(stack) : stack[i].display = Current
    /\ \A i \in 2 .. Len(stack) : stack[i].op \in Later
    /\ \A i \in 1 .. Len(stack) :
         /\ stack[i].op = "stopAuth" => Follows(i, {"stopServer"})
         /\ stack[i].op = "stopServer" => Follows(i, {"setStopped"})
         /\ stack[i].op \in {"removed", "removeDisplay"} =>
              Follows(i, {"fallBack", "replace"})
         /\ stack[i].op = "fallBack" =>
              i = 1 \/ stack[i - 1].op \in {"removed", "removeDisplay"}

\* The signals of a display are blocked from removeDisplay to removed and no
\* longer, and no slot hears its signal stopped meanwhile; what creates a display
\* comes after removed; and by then the display has stopped.
BlockedInv ==
    /\ \A i \in 1 .. Len(stack) : stack[i].op = "removed" =>
         /\ disp[Current].blocked
         /\ \A j \in 1 .. Len(stack) : stack[j].op = "removed" => j = i
         /\ \A j \in 1 .. i - 1 : stack[j].op \notin {"replace", "fallBack"}
         /\ disp[Current].started =>
              \E j \in 1 .. i - 1 : stack[j].op \in {"stop", "setStopped"}
    /\ \A d \in Displays : disp[d].blocked => Has("removed") /\ d = Current
    /\ stack # <<>> /\ Top \in {"removeDisplay", "displayStopped"} =>
         ~disp[Current].blocked

\* A display is in m_displays until it is removed, and its object stays there
\* until it is deleted.  A listed display that does not count as started runs
\* nothing, except when it is about to be removed.  A display that is needed is
\* created by a call in the stack.
ObjectInv ==
    /\ \A d \in Displays :
         /\ disp[d].type = "none" => disp[d] = NoDisplay
         /\ disp[d].type # "none" => d \in Listed \/ disp[d].doomed \/ disp[d].blocked
         /\ d \in Listed => disp[d].type # "none" /\ ~disp[d].doomed /\ ~disp[d].blocked
         /\ disp[d].doomed => ~disp[d].started
         /\ disp[d].retry => disp[d].tries < 3
         /\ d \in Listed =>
              \/ Still(disp[d])
              \/ /\ stack # <<>> /\ d = Current
                 /\ Top \in {"displayStopped", "removeDisplay"}
    /\ Distinct(displays)
    /\ stack # <<>> =>
         disp[Current].type # "none" \/ (Len(stack) = 1 /\ Top = "replace")
    /\ stack # <<>> /\ Top \in {"stopGreeter", "displayServerFailed"} => 
         Current \in Listed \/ disp[Current].blocked
    /\ stack # <<>> /\ Top = "fallBack" => disp[Current].doomed
    /\ displays = <<>> => quit # 0 \/ Has("replace") \/ Has("fallBack")

\* The last event left no more displays than it may, and one fewer if the
\* fallback is still to come.
CountInv ==
    /\ expected >= 1 /\ Len(displays) <= expected
    /\ stack # <<>> /\ Current \notin Listed /\ Has("fallBack") =>
         Len(displays) < expected

\* The failures are counted once for each greeter, and not after the exit.
TtyInv ==
    /\ stack # <<>> /\ Top = "ttyFailed" => disp[Current].greeter # "running"
    /\ ttyFailures > TtyLimit =>
         /\ quit # 0
         /\ stack # <<>> => Top # "ttyFailed" /\ disp[Current].greeter # "running"

\* The inductive invariant.
SeatInv == TypeOK /\ StackInv /\ BlockedInv /\ ObjectInv /\ CountInv /\ TtyInv

\* The object keeps all but its processes and m_started.
Keeps(s, r) ==
    /\ SameObject(s, r) /\ s.retry = r.retry /\ s.tries = r.tries
    /\ s.greeter \in {r.greeter, "none"} /\ s.auth \in {r.auth, "none"}

\* A step inside a call about d changes nothing else and keeps the object.
Touches(d) ==
    /\ disp' \in [Displays -> DisplayState]
    /\ \A e \in Displays \ {d} : disp'[e] = disp[e]
    /\ Keeps(disp'[d], disp[d])

\* What a step inside of a call about d does, short of the calls that change
\* m_displays: the next call makes the calls ops.
Inner(d, ops) ==
    /\ ops \in Pushes /\ d \in Displays
    /\ stack # <<>> /\ Current = d
    /\ stack' = After(stack, ops, d)
    /\ Touches(d)
    /\ UNCHANGED <<first, displays, expected>>
    /\ IF Top = "setStopped" THEN disp'[d].started = FALSE
       ELSE disp'[d].started = disp[d].started
    /\ IF Top = "ttyFailed" 
       THEN /\ ttyFailures' = ttyFailures + 1
            /\ quit' = IF ttyFailures + 1 > TtyLimit THEN 23 ELSE quit
       ELSE UNCHANGED <<ttyFailures, quit>>
    /\ \/ /\ Top = "stop"
          /\ ops = IF disp[d].started 
                   THEN <<"stopGreeter", "stopAuth", "stopServer", "setStopped">>
                   ELSE <<>>
       \/ /\ Top = "stopGreeter"
          /\ ops \in {<<>>, <<"stop">>, <<"ttyFailed">>, <<"displayServerFailed">>}
          /\ ops \in {<<"ttyFailed">>, <<"displayServerFailed">>} =>
               disp[d].greeter = "running" /\ disp'[d].greeter = "none"
       \/ Top = "stopAuth" /\ ops \in {<<>>, <<"stop">>}
       \/ Top = "stopServer" /\ ops = <<>>
       \/ /\ Top = "setStopped"
          /\ ops = IF disp[d].blocked THEN <<>> ELSE <<"displayStopped">>
       \/ Top = "ttyFailed" /\ ops = <<"stop">>
       \/ /\ Top = "displayServerFailed"
          /\ ops = IF disp[d].blocked THEN <<>> ELSE <<"removeDisplay", "fallBack">>
       \/ Top = "displayStopped" /\ ops = <<"removeDisplay", "replace">>

\* These steps.
InnerNext(d) ==
    \/ /\ \/ StopDisplay(d) \/ StopGreeter(d) \/ StopAuth(d) \/ StopServer(d)
          \/ SetStopped(d)
       /\ UNCHANGED seatVars
    \/ TtyFailed(d) \/ DisplayServerFailed(d) \/ DisplayStopped(d)
    \/ Timeout(d) \/ Stops(d)

-----------------------------------------------------------------------------
(***************************************************************************)
(* The steps inside of calls.                                              *)
(***************************************************************************)
\* The sequences of calls, written out.
LEMMA CallsOf ==
    ASSUME NEW d
    PROVE /\ Calls(<<>>, d) = <<>>
          /\ \A a : Calls(<<a>>, d) = <<Call(a, d)>>
          /\ \A a, b : Calls(<<a, b>>, d) = <<Call(a, d), Call(b, d)>>
          /\ Calls(<<"stopGreeter", "stopAuth", "stopServer", "setStopped">>, d) =
               <<Call("stopGreeter", d), Call("stopAuth", d),
                        Call("stopServer", d), Call("setStopped", d)>>
  BY DEF Calls

\* The call that a step makes, and the stack after a call that makes none.
LEMMA TopCall ==
    ASSUME TypeOK, NEW op, NEW d, NextCall(op, d)
    PROVE  /\ stack # <<>> /\ Top = op /\ Current = d /\ d \in Displays
           /\ Tail(stack) \in Seq(CallType)
           /\ Tail(stack) = After(stack, <<>>, d)
  <1>1. stack \in Seq(CallType) /\ stack # <<>> /\ Head(stack) = Call(op, d)
    BY DEF TypeOK, NextCall
  <1>2. Len(stack) >= 1 /\ Head(stack) = stack[1] /\ stack[1] \in CallType
    BY <1>1
  <1>3. Top = op /\ Current = d
    BY <1>1, <1>2 DEF Top, Current, Call
  <1>4. stack[1].display \in Displays
    BY <1>2 DEF CallType
  <1>5. Tail(stack) \in Seq(CallType)
    BY <1>1
  <1>6. Tail(stack) = <<>> \o Tail(stack)
    BY <1>5
  <1>7. Calls(<<>>, d) = <<>>
    BY CallsOf
  <1> QED
    BY <1>1, <1>3, <1>4, <1>5, <1>6, <1>7 DEF Current, After

\* Where things are in new if it is s after its first call, which made the
\* calls ops about d.
Pushed(s, new, ops, d) ==
    /\ Len(s) \in Nat /\ Len(s) >= 1 /\ Len(ops) \in 0 .. 4
    /\ new \in Seq(CallType) /\ Len(new) = Len(ops) + Len(s) - 1
    /\ \A i \in 1 .. Len(ops) : new[i].op = ops[i] /\ new[i].display = d
    /\ \A i \in 2 .. Len(s) :
         /\ Len(ops) + i - 1 \in 1 .. Len(new)
         /\ new[Len(ops) + i - 1] = s[i]
    /\ \A k \in 1 .. Len(new) :
         \/ k \in 1 .. Len(ops)
         \/ /\ k - Len(ops) + 1 \in 2 .. Len(s)
            /\ new[k] = s[k - Len(ops) + 1]

\* They are there.
LEMMA AfterProperties ==
    ASSUME NEW s \in Seq(CallType), s # <<>>, NEW d \in Displays, NEW ops \in Pushes
    PROVE  Pushed(s, After(s, ops, d), ops, d)
<1> DEFINE rest == Tail(s)
           q == Calls(ops, d)
           new == After(s, ops, d)
<1>1. /\ Len(s) \in Nat /\ Len(s) >= 1
      /\ rest \in Seq(CallType) /\ Len(rest) = Len(s) - 1
      /\ \A i \in 1 .. Len(rest) : rest[i] = s[i + 1]
  OBVIOUS
<1>2. Len(ops) \in 0 .. 4
  BY DEF Pushes
<1>3. ops \in Seq(Ops)
  BY PushesTypes
<1>4. /\ q \in Seq(CallType) /\ Len(q) = Len(ops)
      /\ \A i \in 1 .. Len(ops) : q[i].op = ops[i] /\ q[i].display = d
  BY <1>3 DEF Calls, Call, CallType, Ops
<1> HIDE DEF rest, q
<1>5. /\ q \o rest \in Seq(CallType) /\ Len(q \o rest) = Len(q) + Len(rest)
      /\ \A i \in 1 .. Len(q) + Len(rest) :
           (q \o rest)[i] = IF i <= Len(q) THEN q[i] ELSE rest[i - Len(q)]
  <2>1. q \in Seq(CallType) /\ rest \in Seq(CallType)
    BY <1>1, <1>4
  <2> QED
    BY <2>1, ConcatProperties
<1>6. new = q \o rest
  BY DEF After, q, rest
<1> HIDE DEF new
<1>7. new \in Seq(CallType) /\ Len(new) = Len(ops) + Len(s) - 1
  BY <1>1, <1>2, <1>4, <1>5, <1>6
<1>8. ASSUME NEW i \in 1 .. Len(ops) PROVE new[i].op = ops[i] /\ new[i].display = d
  BY <1>1, <1>2, <1>4, <1>5, <1>6
<1>9. ASSUME NEW i \in 2 .. Len(s)
      PROVE  Len(ops) + i - 1 \in 1 .. Len(new) /\ new[Len(ops) + i - 1] = s[i]
  <2>1. i - 1 \in 1 .. Len(rest) /\ (i - 1) + 1 = i /\ Len(ops) + i - 1 - Len(q) = i - 1
    BY <1>1, <1>2, <1>4
  <2> DEFINE m == Len(ops) + i - 1
  <2>2. m \in 1 .. Len(q) + Len(rest) /\ ~ (m <= Len(q)) /\ m - Len(q) = i - 1
    BY <1>1, <1>2, <1>4
  <2> HIDE DEF m
  <2>3. new[m] = rest[i - 1]
    BY <1>5, <1>6, <2>2
  <2>4. rest[i - 1] = s[(i - 1) + 1]
    BY <1>1, <2>1
  <2> QED
    BY <1>1, <1>4, <1>7, <2>1, <2>2, <2>3, <2>4 DEF m
<1>10. ASSUME NEW k \in 1 .. Len(new)
      PROVE  \/ k \in 1 .. Len(ops)
             \/ /\ k - Len(ops) + 1 \in 2 .. Len(s)
                /\ new[k] = s[k - Len(ops) + 1]
  <2>1. CASE k > Len(ops)
    <3>1. k - Len(ops) + 1 \in 2 .. Len(s) /\ Len(ops) + (k - Len(ops) + 1) - 1 = k
      BY <1>1, <1>2, <1>7, <2>1
    <3> QED
      BY <1>9, <3>1
  <2>2. CASE k <= Len(ops)
    BY <1>2, <2>2
  <2> QED
    BY <1>2, <2>1, <2>2
<1> QED
  BY <1>1, <1>2, <1>7, <1>8, <1>9, <1>10 DEF new, Pushed

\* What the steps do to the object of the display.
LEMMA Changes ==
    ASSUME TypeOK, NEW d \in Displays
    PROVE  /\ disp[d] \in DisplayState
           /\ UNCHANGED disp => Touches(d) /\ disp'[d] = disp[d]
           /\ disp' = [disp EXCEPT ![d].greeter = "none"] =>
                /\ Touches(d) /\ disp'[d].started = disp[d].started
                /\ disp'[d].greeter = "none"
           /\ disp' = [disp EXCEPT ![d].auth = "none"] =>
                Touches(d) /\ disp'[d].started = disp[d].started
           /\ disp' = [disp EXCEPT ![d].server = IF @ = "on" THEN "off" ELSE @] =>
                Touches(d) /\ disp'[d].started = disp[d].started
           /\ disp' = [disp EXCEPT ![d].started = FALSE] =>
                Touches(d) /\ disp'[d].started = FALSE
<1>1. disp \in [Displays -> DisplayState] /\ disp[d] \in DisplayState
  BY DEF TypeOK
<1>2. UNCHANGED disp => Touches(d) /\ disp'[d] = disp[d]
  BY <1>1 DEF Touches, Keeps, SameObject
<1>3. ASSUME disp' = [disp EXCEPT ![d].greeter = "none"]
      PROVE  Touches(d) /\ disp'[d].started = disp[d].started /\ disp'[d].greeter = "none"
  BY <1>1, <1>3 DEF Touches, Keeps, SameObject, DisplayState
<1>4. ASSUME disp' = [disp EXCEPT ![d].auth = "none"]
      PROVE  Touches(d) /\ disp'[d].started = disp[d].started
  BY <1>1, <1>4 DEF Touches, Keeps, SameObject, DisplayState
<1>5. ASSUME disp' = [disp EXCEPT ![d].server = IF @ = "on" THEN "off" ELSE @]
      PROVE  Touches(d) /\ disp'[d].started = disp[d].started
  BY <1>1, <1>5 DEF Touches, Keeps, SameObject, DisplayState
<1>6. ASSUME disp' = [disp EXCEPT ![d].started = FALSE]
      PROVE  Touches(d) /\ disp'[d].started = FALSE
  BY <1>1, <1>6 DEF Touches, Keeps, SameObject, DisplayState
<1> QED
  BY <1>1, <1>2, <1>3, <1>4, <1>5, <1>6

\* Every such step is as Inner says.
LEMMA InnerSteps ==
    ASSUME TypeOK, NEW d \in Displays, InnerNext(d)
    PROVE  \E ops : Inner(d, ops)
<1>1. stack \in Seq(CallType)
  BY DEF TypeOK
<1>2. /\ <<>> \in Pushes /\ <<"stop">> \in Pushes /\ <<"displayStopped">> \in Pushes
      /\ <<"removeDisplay", "fallBack">> \in Pushes
      /\ <<"removeDisplay", "replace">> \in Pushes
      /\ <<"stopGreeter", "stopAuth", "stopServer", "setStopped">> \in Pushes
      /\ <<"ttyFailed">> \in Pushes /\ <<"displayServerFailed">> \in Pushes
  BY DEF Pushes
<1>3. CASE StopDisplay(d) /\ UNCHANGED seatVars
  <2> DEFINE ops == IF disp[d].started
                    THEN <<"stopGreeter", "stopAuth", "stopServer", "setStopped">>
                   ELSE <<>>
  <2>1. NextCall("stop", d) /\ UNCHANGED <<disp, first>> /\ UNCHANGED seatVars
    BY <1>3 DEF StopDisplay
  <2>2. stack # <<>> /\ Top = "stop" /\ Current = d
    BY <2>1, TopCall
  <2>3. stack' = After(stack, ops, d)
    BY <1>3, CallsOf DEF StopDisplay, After, Return
  <2>4. Touches(d) /\ disp'[d] = disp[d] /\ ops \in Pushes
    BY <1>2, <2>1, Changes
  <2>5. Inner(d, ops)
    BY <2>1, <2>2, <2>3, <2>4 DEF Inner, seatVars
  <2> QED
    BY <2>5
<1>4. CASE StopGreeter(d) /\ UNCHANGED seatVars
  <2>1. NextCall("stopGreeter", d) /\ UNCHANGED <<disp, first>> /\ UNCHANGED seatVars
        /\ stack' = Tail(stack)
    BY <1>4 DEF StopGreeter, Return
  <2>2. /\ stack # <<>> /\ Top = "stopGreeter" /\ Current = d
        /\ stack' = After(stack, <<>>, d)
    BY <2>1, TopCall
  <2>3. Touches(d) /\ disp'[d] = disp[d]
    BY <2>1, Changes
  <2>4. Inner(d, <<>>)
    BY <1>2, <2>1, <2>2, <2>3 DEF Inner, seatVars
  <2> QED
    BY <2>4
<1>5. CASE StopAuth(d) /\ UNCHANGED seatVars
  <2>1. NextCall("stopAuth", d) /\ UNCHANGED <<disp, first>> /\ UNCHANGED seatVars
        /\ stack' = Tail(stack)
    BY <1>5 DEF StopAuth, Return
  <2>2. /\ stack # <<>> /\ Top = "stopAuth" /\ Current = d
        /\ stack' = After(stack, <<>>, d)
    BY <2>1, TopCall
  <2>3. Touches(d) /\ disp'[d] = disp[d]
    BY <2>1, Changes
  <2>4. Inner(d, <<>>)
    BY <1>2, <2>1, <2>2, <2>3 DEF Inner, seatVars
  <2> QED
    BY <2>4
<1>6. CASE StopServer(d) /\ UNCHANGED seatVars
  <2>1. /\ NextCall("stopServer", d) /\ UNCHANGED first /\ UNCHANGED seatVars
        /\ stack' = Tail(stack)
        /\ disp' = [disp EXCEPT ![d].server = IF @ = "on" THEN "off" ELSE @]
    BY <1>6 DEF StopServer, Return
  <2>2. /\ stack # <<>> /\ Top = "stopServer" /\ Current = d
        /\ stack' = After(stack, <<>>, d)
    BY <2>1, TopCall
  <2>3. Touches(d) /\ disp'[d].started = disp[d].started
    BY <2>1, Changes
  <2>4. Inner(d, <<>>)
    BY <1>2, <2>1, <2>2, <2>3 DEF Inner, seatVars
  <2> QED
    BY <2>4
<1>7. CASE SetStopped(d) /\ UNCHANGED seatVars
  <2> DEFINE ops == IF disp[d].blocked THEN <<>> ELSE <<"displayStopped">>
  <2>1. /\ NextCall("setStopped", d) /\ UNCHANGED first /\ UNCHANGED seatVars
        /\ disp' = [disp EXCEPT ![d].started = FALSE]
    BY <1>7 DEF SetStopped
  <2>2. stack # <<>> /\ Top = "setStopped" /\ Current = d
    BY <2>1, TopCall
  <2>3. stack' = After(stack, ops, d)
    BY <1>7, CallsOf DEF SetStopped, After, Return
  <2>4. Touches(d) /\ disp'[d].started = FALSE /\ ops \in Pushes
    BY <1>2, <2>1, Changes
  <2>5. Inner(d, ops)
    BY <2>1, <2>2, <2>3, <2>4 DEF Inner, seatVars
  <2> QED
    BY <2>5
<1>8. CASE TtyFailed(d)
  <2>1. /\ NextCall("ttyFailed", d)
        /\ UNCHANGED <<disp, first, displays, expected>>
        /\ ttyFailures' = ttyFailures + 1
        /\ quit' = IF ttyFailures + 1 > TtyLimit THEN 23 ELSE quit
        /\ stack' = <<Call("stop", d)>> \o Tail(stack)
    BY <1>8 DEF TtyFailed, Return
  <2>2. stack # <<>> /\ Top = "ttyFailed" /\ Current = d
    BY <2>1, TopCall
  <2>3. stack' = After(stack, <<"stop">>, d)
    BY <2>1, CallsOf DEF After
  <2>4. Touches(d) /\ disp'[d] = disp[d]
    BY <2>1, Changes
  <2>5. Inner(d, <<"stop">>)
    BY <1>2, <2>1, <2>2, <2>3, <2>4 DEF Inner
  <2> QED
    BY <2>5
<1>9. CASE DisplayServerFailed(d)
  <2> DEFINE ops == IF disp[d].blocked THEN <<>> ELSE <<"removeDisplay", "fallBack">>
  <2>1. NextCall("displayServerFailed", d) /\ UNCHANGED <<disp, first, seatVars>>
    BY <1>9 DEF DisplayServerFailed
  <2>2. stack # <<>> /\ Top = "displayServerFailed" /\ Current = d
    BY <2>1, TopCall
  <2>3. stack' = After(stack, ops, d)
    BY <1>9, CallsOf DEF DisplayServerFailed, After, Return
  <2>4. Touches(d) /\ disp'[d] = disp[d] /\ ops \in Pushes
    BY <1>2, <2>1, Changes
  <2>5. Inner(d, ops)
    BY <2>1, <2>2, <2>3, <2>4 DEF Inner, seatVars
  <2> QED
    BY <2>5
<1>10. CASE DisplayStopped(d)
  <2> DEFINE ops == <<"removeDisplay", "replace">>
  <2>1. NextCall("displayStopped", d) /\ UNCHANGED <<disp, first, seatVars>>
        /\ stack' = <<Call("removeDisplay", d), Call("replace", d)>> \o Tail(stack)
    BY <1>10 DEF DisplayStopped, Return
  <2>2. stack # <<>> /\ Top = "displayStopped" /\ Current = d
    BY <2>1, TopCall
  <2>3. stack' = After(stack, ops, d)
    BY <2>1, CallsOf DEF After
  <2>4. Touches(d) /\ disp'[d] = disp[d] /\ ops \in Pushes
    BY <1>2, <2>1, Changes
  <2>5. Inner(d, ops)
    BY <2>1, <2>2, <2>3, <2>4 DEF Inner, seatVars
  <2> QED
    BY <2>5
<1>11. CASE StopGreeterTimeout(d) /\ UNCHANGED seatVars
  <2>1. NextCall("stopGreeter", d) /\ UNCHANGED <<disp, first>> /\ UNCHANGED seatVars
        /\ stack' = Tail(stack)
    BY <1>11 DEF StopGreeterTimeout, Return
  <2>2. /\ stack # <<>> /\ Top = "stopGreeter" /\ Current = d
        /\ stack' = After(stack, <<>>, d)
    BY <2>1, TopCall
  <2>3. Touches(d) /\ disp'[d] = disp[d]
    BY <2>1, Changes
  <2>4. Inner(d, <<>>)
    BY <1>2, <2>1, <2>2, <2>3 DEF Inner, seatVars
  <2> QED
    BY <2>4
<1>12. CASE StopAuthTimeout(d) /\ UNCHANGED seatVars
  <2>1. NextCall("stopAuth", d) /\ UNCHANGED <<disp, first>> /\ UNCHANGED seatVars
        /\ stack' = Tail(stack)
    BY <1>12 DEF StopAuthTimeout, Return
  <2>2. /\ stack # <<>> /\ Top = "stopAuth" /\ Current = d
        /\ stack' = After(stack, <<>>, d)
    BY <2>1, TopCall
  <2>3. Touches(d) /\ disp'[d] = disp[d]
    BY <2>1, Changes
  <2>4. Inner(d, <<>>)
    BY <1>2, <2>1, <2>2, <2>3 DEF Inner, seatVars
  <2> QED
    BY <2>4
<1>13. CASE GreeterStops(d) /\ UNCHANGED seatVars
  <2>1. PICK ops \in GreeterEnd(disp[d]) :
          /\ disp' = [disp EXCEPT ![d].greeter = "none"]
          /\ stack' = [i \in 1 .. Len(ops) |-> Call(ops[i], d)] \o Tail(stack)
          /\ UNCHANGED first
    BY <1>13 DEF GreeterStops, GreeterFinished, Return
  <2>2. NextCall("stopGreeter", d) /\ disp[d].greeter = "running"
    BY <1>13 DEF GreeterStops
  <2>3. stack # <<>> /\ Top = "stopGreeter" /\ Current = d
    BY <2>2, TopCall
  <2>4. ops \in {<<>>, <<"stop">>, <<"ttyFailed">>, <<"displayServerFailed">>}
    BY DEF GreeterEnd
  <2>5. stack' = After(stack, ops, d)
    BY <2>1 DEF After, Calls
  <2>6. Touches(d) /\ disp'[d].started = disp[d].started /\ disp'[d].greeter = "none"
    BY <2>1, Changes
  <2>7. ops \in Pushes
    BY <1>2, <2>4
  <2>8. Inner(d, ops)
    BY <1>13, <2>1, <2>2, <2>3, <2>4, <2>5, <2>6, <2>7 DEF Inner, seatVars
  <2> QED
    BY <2>8
<1>14. CASE AuthStops(d) /\ UNCHANGED seatVars
  <2>1. PICK authError \in BOOLEAN :
          /\ disp' = [disp EXCEPT ![d].auth = "none"]
          /\ stack' = (IF authError THEN <<>> ELSE <<Call("stop", d)>>) \o Tail(stack)
          /\ UNCHANGED first
    BY <1>14 DEF AuthStops, HelperFinished, Return
  <2> DEFINE ops == IF authError THEN <<>> ELSE <<"stop">>
  <2>2. NextCall("stopAuth", d)
    BY <1>14 DEF AuthStops
  <2>3. stack # <<>> /\ Top = "stopAuth" /\ Current = d
    BY <2>2, TopCall
  <2>5. stack' = After(stack, ops, d)
    BY <2>1, CallsOf DEF After
  <2>6. Touches(d) /\ disp'[d].started = disp[d].started
    BY <2>1, Changes
  <2>7. ops \in Pushes /\ ops \in {<<>>, <<"stop">>}
    BY <1>2
  <2> HIDE DEF ops
  <2>8. Inner(d, ops)
    BY <1>14, <2>1, <2>3, <2>5, <2>6, <2>7 DEF Inner, seatVars
  <2> QED
    BY <2>8
<1> QED
  BY <1>3, <1>4, <1>5, <1>6, <1>7, <1>8, <1>9, <1>10, <1>11, <1>12, <1>13, <1>14
     DEF InnerNext, Timeout, Stops

-----------------------------------------------------------------------------
(***************************************************************************)
(* The stack after such a step.                                            *)
(***************************************************************************)
\* One call was made: its entry gives way to ops.
Replaced(d, ops) ==
    /\ stack # <<>> /\ d \in Displays /\ ops \in Pushes /\ Current = d
    /\ stack' = After(stack, ops, d)

\* Where things are in the stack then.
LEMMA ReplacedProperties ==
    ASSUME TypeOK, NEW d, NEW ops, Replaced(d, ops)
    PROVE  Pushed(stack, stack', ops, d)
<1>1. stack \in Seq(CallType) /\ stack # <<>> /\ d \in Displays /\ ops \in Pushes
      /\ stack' = After(stack, ops, d)
  BY DEF TypeOK, Replaced
<1> QED
  BY <1>1, AfterProperties

\* What follows a call that was pushed with others.
LEMMA PushesShape ==
    ASSUME NEW ops \in Pushes, NEW k \in 1 .. Len(ops), ops # <<"stop", "removed">>
    PROVE  /\ ops[k] = "stopAuth" => k < Len(ops) /\ ops[k + 1] = "stopServer"
           /\ ops[k] = "stopServer" => k < Len(ops) /\ ops[k + 1] = "setStopped"
           /\ ops[k] # "removed"
           /\ ops[k] = "removeDisplay" =>
                k < Len(ops) /\ ops[k + 1] \in {"fallBack", "replace"}
<1>1. k = 1 \/ k = 2 \/ k = 3 \/ k = 4
  <2>1. Len(ops) \in 0 .. 4
    BY DEF Pushes
  <2>2. \A m \in 0 .. 4 : \A j \in 1 .. m : j = 1 \/ j = 2 \/ j = 3 \/ j = 4
    OBVIOUS
  <2> QED
    BY <2>1, <2>2
<1>2. CASE ops = <<"stopGreeter", "stopAuth", "stopServer", "setStopped">>
  <2>1. /\ Len(ops) = 4 /\ ops[1] = "stopGreeter" /\ ops[2] = "stopAuth"
        /\ ops[3] = "stopServer" /\ ops[4] = "setStopped"
    BY <1>2
  <2>2. 1 + 1 = 2 /\ 2 + 1 = 3 /\ 3 + 1 = 4
    OBVIOUS
  <2> QED
    BY <1>1, <2>1, <2>2
<1>3. CASE ops \in {<<"removeDisplay", "fallBack">>, <<"removeDisplay", "replace">>}
  <2>1. Len(ops) = 2 /\ ops[1] = "removeDisplay" /\ ops[2] \in {"fallBack", "replace"}
    BY <1>3
  <2>2. CASE k = 1
    BY <2>1, <2>2
  <2>3. CASE k = 2
    BY <2>1, <2>3
  <2> QED
    BY <1>1, <2>1, <2>2, <2>3
<1>4. CASE ops \in {<<"stop">>, <<"ttyFailed">>, <<"displayServerFailed">>,
                    <<"displayStopped">>, <<"stopGreeter">>}
  <2>1. Len(ops) = 1
    BY <1>4
  <2>2. k = 1
    BY <1>1, <2>1
  <2> QED
    BY <1>4, <2>2
<1>5. ops # <<>>
  OBVIOUS
<1> QED
  BY <1>2, <1>3, <1>4, <1>5 DEF Pushes

\* The stack keeps its shape.
LEMMA StackStep ==
    ASSUME TypeOK, StackInv, NEW d, NEW ops, Replaced(d, ops),
           \/ Top \notin {"removeDisplay", "removed"} /\ ops # <<"stop", "removed">>
           \/ Top = "removeDisplay" /\ ops = <<"stop", "removed">>
           \/ Top = "removed" /\ ops = <<>>
    PROVE  StackInv'
<1> DEFINE n == Len(ops)
<1>1. /\ Len(stack) \in Nat /\ Len(stack) >= 1 /\ n \in 0 .. 4
      /\ stack' \in Seq(CallType) /\ Len(stack') = n + Len(stack) - 1
  BY ReplacedProperties DEF Pushed
<1>2. \A i \in 1 .. n : stack'[i].op = ops[i] /\ stack'[i].display = d
  BY ReplacedProperties DEF Pushed
<1>3. \A i \in 2 .. Len(stack) : /\ n + i - 1 \in 1 .. Len(stack')
                                 /\ stack'[n + i - 1] = stack[i]
  BY ReplacedProperties DEF Pushed
<1>4. \A k \in 1 .. Len(stack') :
        \/ k \in 1 .. n
        \/ k - n + 1 \in 2 .. Len(stack) /\ stack'[k] = stack[k - n + 1]
  BY ReplacedProperties DEF Pushed
<1>5. ops \in Pushes /\ Current = d
  BY DEF Replaced
<1>6. ASSUME NEW k \in 1 .. Len(stack') PROVE stack'[k].display = d
  BY <1>2, <1>4, <1>5 DEF StackInv
<1>7. ASSUME NEW k \in 2 .. Len(stack') PROVE stack'[k].op \in Later
  <2>1. k \in 1 .. Len(stack')
    BY <1>1
  <2>2. CASE k \in 1 .. n
    <3>1. ops[k] \in Later
      BY <1>1, <1>5, <2>2 DEF Pushes, Later
    <3> QED
      BY <1>2, <2>2, <3>1
  <2>3. CASE k - n + 1 \in 2 .. Len(stack) /\ stack'[k] = stack[k - n + 1]
    BY <2>3 DEF StackInv
  <2> QED
    BY <1>4, <2>1, <2>2, <2>3
\* What followed a call in the stack still follows it.
<1>8. ASSUME NEW k \in 1 .. Len(stack'), NEW set,
             k \notin 1 .. n, Follows(k - n + 1, set)
      PROVE  Follows(k, set)'
  <2>1. k - n + 1 < Len(stack) /\ stack[k - n + 1 + 1].op \in set
    BY <1>8 DEF Follows
  <2>2. k \in Nat /\ n \in Nat /\ k > n
    BY <1>1, <1>8
  <2>3. k - n + 1 + 1 \in 2 .. Len(stack) /\ n + (k - n + 1 + 1) - 1 = k + 1
    BY <1>1, <2>1, <2>2
  <2>4. stack'[k + 1] = stack[k - n + 1 + 1] /\ k + 1 \in 1 .. Len(stack')
    BY <1>3, <2>3
  <2> QED
    BY <1>1, <2>1, <2>2, <2>4 DEF Follows
<1>9. ASSUME NEW k \in 1 .. Len(stack')
      PROVE  /\ stack'[k].op = "stopAuth" => Follows(k, {"stopServer"})'
             /\ stack'[k].op = "stopServer" => Follows(k, {"setStopped"})'
             /\ stack'[k].op \in {"removed", "removeDisplay"}
                  => Follows(k, {"fallBack", "replace"})'
  <2>1. CASE k \in 1 .. n
    <3>1. stack'[k].op = ops[k]
      BY <1>2, <2>1
    <3>2. k < n => stack'[k + 1].op = ops[k + 1] /\ k < Len(stack')
      BY <1>1, <1>2, <2>1
    <3>3. CASE ops = <<"stop", "removed">>
      <4>1. Top = "removeDisplay"
        BY <3>3
      <4>2. Follows(1, {"fallBack", "replace"})
        BY <1>1, <4>1 DEF StackInv, Top
      <4>3. 2 <= Len(stack) /\ stack[2].op \in {"fallBack", "replace"} /\ n = 2
        BY <1>1, <3>3, <4>2 DEF Follows
      <4>4. stack'[3] = stack[2] /\ 3 \in 1 .. Len(stack')
        BY <1>1, <1>3, <4>3
      <4>5. k = 1 \/ k = 2
        BY <2>1, <4>3
      <4> QED
        BY <3>1, <3>3, <4>3, <4>4, <4>5 DEF Follows
    <3>4. CASE ops # <<"stop", "removed">>
      <4>1. /\ ops[k] = "stopAuth" => k < n /\ ops[k + 1] = "stopServer"
            /\ ops[k] = "stopServer" => k < n /\ ops[k + 1] = "setStopped"
            /\ ops[k] # "removed"
            /\ ops[k] = "removeDisplay" => k < n /\ ops[k + 1] \in {"fallBack", "replace"}
        BY <1>5, <2>1, <3>4, PushesShape
      <4> QED
        BY <3>1, <3>2, <4>1 DEF Follows
    <3> QED
      BY <3>3, <3>4
  <2>2. CASE k \notin 1 .. n
    <3> DEFINE i == k - n + 1
    <3>1. i \in 1 .. Len(stack) /\ stack'[k] = stack[i]
      BY <1>4, <2>2
    <3> HIDE DEF i
    <3>2. /\ stack[i].op = "stopAuth" => Follows(i, {"stopServer"})
          /\ stack[i].op = "stopServer" => Follows(i, {"setStopped"})
          /\ stack[i].op \in {"removed", "removeDisplay"}
               => Follows(i, {"fallBack", "replace"})
      BY <3>1 DEF StackInv
    <3>3. \A set : Follows(i, set) => Follows(k, set)'
      BY <1>8, <2>2 DEF i
    <3> QED
      BY <3>1, <3>2, <3>3
  <2> QED
    BY <2>1, <2>2
<1>10. ASSUME NEW k \in 1 .. Len(stack'), stack'[k].op = "fallBack", k # 1
       PROVE  stack'[k - 1].op \in {"removed", "removeDisplay"}
  <2>1. CASE k \in 1 .. n
    <3>1. ops[k] = "fallBack" /\ k - 1 \in 1 .. n
      BY <1>1, <1>2, <1>10, <2>1
    <3>2. ops[k - 1] = "removeDisplay"
      BY <1>5, <1>10, <2>1, <3>1 DEF Pushes
    <3> QED
      BY <1>2, <3>1, <3>2
  <2>2. CASE k \notin 1 .. n
    <3> DEFINE i == k - n + 1
    <3>1. i \in 2 .. Len(stack) /\ stack'[k] = stack[i]
      BY <1>4, <2>2
    <3>2. stack[i - 1].op \in {"removed", "removeDisplay"}
      BY <1>1, <1>10, <3>1 DEF StackInv
    <3>3. CASE i = 2
      <4>1. Top \in {"removed", "removeDisplay"}
        BY <3>2, <3>3 DEF Top
      <4>2. Top = "removeDisplay" /\ ops = <<"stop", "removed">>
        <5>1. ops # <<>>
          BY <1>1, <1>10, <3>3
        <5> QED
          BY <4>1, <5>1
      <4>3. k = 3 /\ n = 2
        BY <3>3, <4>2
      <4> QED
        BY <1>2, <4>2, <4>3
    <3>4. CASE i # 2
      <4>1. i - 1 \in 2 .. Len(stack) /\ n + (i - 1) - 1 = k - 1
        BY <1>1, <3>1, <3>4
      <4> HIDE DEF i
      <4>2. stack'[k - 1] = stack[i - 1]
        BY <1>3, <4>1
      <4> QED
        BY <3>2, <4>2
    <3> QED
      BY <3>3, <3>4
  <2> QED
    BY <2>1, <2>2
<1>11. ASSUME NEW k \in 1 .. Len(stack') PROVE stack'[k].display = Current'
  <2>1. 1 \in 1 .. Len(stack')
    OBVIOUS
  <2> QED
    BY <1>6, <2>1 DEF Current
<1> QED
  BY <1>7, <1>9, <1>10, <1>11 DEF StackInv

\* A call that waits goes on waiting, and none comes from nowhere.
LEMMA HasStep ==
    ASSUME TypeOK, NEW d, NEW ops, Replaced(d, ops), NEW op
    PROVE  /\ Has(op) /\ Top # op => Has(op)'
           /\ Has(op)' => Has(op) \/ \E i \in 1 .. Len(ops) : ops[i] = op
<1> DEFINE n == Len(ops)
<1>1. /\ Len(stack) \in Nat /\ Len(stack) >= 1 /\ n \in 0 .. 4
      /\ stack' \in Seq(CallType) /\ Len(stack') = n + Len(stack) - 1
      /\ \A i \in 1 .. n : stack'[i].op = ops[i]
      /\ \A i \in 2 .. Len(stack) : /\ n + i - 1 \in 1 .. Len(stack')
                                    /\ stack'[n + i - 1] = stack[i]
      /\ \A k \in 1 .. Len(stack') :
           \/ k \in 1 .. n
           \/ k - n + 1 \in 2 .. Len(stack) /\ stack'[k] = stack[k - n + 1]
  BY ReplacedProperties DEF Pushed
<1> HIDE DEF n
<1>2. ASSUME Has(op), Top # op PROVE Has(op)'
  <2>1. PICK i \in 1 .. Len(stack) : stack[i].op = op
    BY <1>2 DEF Has
  <2>2. i \in 2 .. Len(stack)
    BY <1>1, <1>2, <2>1 DEF Top
  <2> QED
    BY <1>1, <2>1, <2>2 DEF Has
<1>3. ASSUME Has(op)' PROVE Has(op) \/ \E i \in 1 .. n : ops[i] = op
  <2>1. PICK k \in 1 .. Len(stack') : stack'[k].op = op
    BY <1>3 DEF Has
  <2>2. CASE k \in 1 .. n
    BY <1>1, <2>1, <2>2
  <2>3. CASE k - n + 1 \in 2 .. Len(stack) /\ stack'[k] = stack[k - n + 1]
    <3>1. k - n + 1 \in 1 .. Len(stack)
      BY <1>1, <2>3
    <3> QED
      BY <2>1, <2>3, <3>1 DEF Has
  <2> QED
    BY <1>1, <2>1, <2>2, <2>3
<1> QED
  BY <1>2, <1>3 DEF n

\* What the next call and its display are after a step.
LEMMA TopStep ==
    ASSUME TypeOK, StackInv, NEW d, NEW ops, Replaced(d, ops), stack' # <<>>
    PROVE  /\ Current' = d
           /\ IF ops = <<>> THEN Top' \in Later ELSE Top' = ops[1]
<1> DEFINE n == Len(ops)
<1>1. /\ Len(stack) \in Nat /\ Len(stack) >= 1 /\ n \in 0 .. 4
      /\ stack' \in Seq(CallType) /\ Len(stack') = n + Len(stack) - 1
      /\ \A i \in 1 .. n : stack'[i].op = ops[i] /\ stack'[i].display = d
      /\ \A k \in 1 .. Len(stack') :
           \/ k \in 1 .. n
           \/ k - n + 1 \in 2 .. Len(stack) /\ stack'[k] = stack[k - n + 1]
  BY ReplacedProperties DEF Pushed
<1>2. 1 \in 1 .. Len(stack') /\ Current = d
  BY <1>1 DEF Replaced
<1>3. CASE ops = <<>>
  <2>1. n = 0
    BY <1>3
  <2> HIDE DEF n
  <2>2. 2 \in 2 .. Len(stack) /\ stack'[1] = stack[2]
    BY <1>1, <1>2, <2>1
  <2> QED
    BY <1>2, <1>3, <2>2 DEF StackInv, Top, Current
<1>4. CASE ops # <<>>
  <2>1. n # 0
    BY <1>4 DEF Replaced, Pushes
  <2> HIDE DEF n
  <2>2. 1 \in 1 .. n
    BY <1>1, <2>1
  <2> QED
    BY <1>1, <1>4, <2>2 DEF Top, Current
<1> QED
  BY <1>3, <1>4

\* These steps do not change m_displays.
LEMMA InnerReplaces ==
    ASSUME NEW d, NEW ops, Inner(d, ops)
    PROVE  /\ Replaced(d, ops)
           /\ Top \notin {"removeDisplay", "removed", "replace", "fallBack"}
           /\ ops # <<"stop", "removed">>
           /\ \A i \in 1 .. Len(ops) : ops[i] # "removed"
<1>1. Replaced(d, ops) /\ ops \in Pushes
  BY DEF Inner, Replaced
<1>2. Top \notin {"removeDisplay", "removed", "replace", "fallBack"}
  BY DEF Inner
<1>3. ops # <<"stop", "removed">>
  <2>1. SUFFICES ASSUME ops = <<"stop", "removed">> PROVE FALSE
    OBVIOUS
  <2>2. Len(ops) = 2 /\ ops[1] = "stop"
    BY <2>1
  <2>3. ops \in {<<>>, <<"stop">>, <<"ttyFailed">>, <<"displayServerFailed">>,
                  <<"displayStopped">>, <<"removeDisplay", "fallBack">>,
                  <<"removeDisplay", "replace">>,
                  <<"stopGreeter", "stopAuth", "stopServer", "setStopped">>}
    <3> USE DEF Inner
    <3>1. CASE Top = "stop"
      BY <3>1
    <3>2. CASE Top = "setStopped"
      BY <3>2
    <3>3. CASE Top = "displayServerFailed"
      BY <3>3
    <3>4. CASE Top \notin {"stop", "setStopped", "displayServerFailed"}
      BY <3>4
    <3> QED
      BY <3>1, <3>2, <3>3, <3>4
  <2>4. ASSUME ops # <<"removeDisplay", "fallBack">>, ops # <<"removeDisplay", "replace">>
        PROVE  Len(ops) # 2
    BY <2>3, <2>4
  <2> QED
    BY <2>2, <2>4
<1>4. \A i \in 1 .. Len(ops) : ops[i] # "removed"
  BY <1>1, <1>3, PushesShape
<1> QED
  BY <1>1, <1>2, <1>3, <1>4

\* A display is created only after one is removed.
LEMMA PushesCreate ==
    ASSUME NEW ops \in Pushes, NEW k \in 1 .. Len(ops), ops[k] \in {"replace", "fallBack"}
    PROVE  ops \in {<<"removeDisplay", "fallBack">>, <<"removeDisplay", "replace">>}
<1>1. ASSUME ops \in {<<"stop">>, <<"ttyFailed">>, <<"displayServerFailed">>,
                      <<"displayStopped">>, <<"stopGreeter">>}
      PROVE  FALSE
  <2>1. Len(ops) = 1 /\ ops[1] \notin {"replace", "fallBack"}
    BY <1>1
  <2> QED
    BY <2>1
<1>2. ops # <<"stop", "removed">>
  <2>1. ASSUME ops = <<"stop", "removed">> PROVE FALSE
    <3>1. Len(ops) = 2 /\ ops[1] = "stop" /\ ops[2] = "removed"
      BY <2>1
    <3> QED
      BY <3>1
  <2> QED
    BY <2>1
<1>3. ops # <<"stopGreeter", "stopAuth", "stopServer", "setStopped">>
  <2>1. ASSUME ops = <<"stopGreeter", "stopAuth", "stopServer", "setStopped">> PROVE FALSE
    <3>1. Len(ops) = 4 /\ \A i \in 1 .. 4 : ops[i] \notin {"replace", "fallBack"}
      BY <2>1
    <3> QED
      BY <3>1
  <2> QED
    BY <2>1
<1> QED
  BY <1>1, <1>2, <1>3 DEF Pushes

\* A display is removed when its signals are heard.
LEMMA InnerRemoves ==
    ASSUME NEW d, NEW ops, Inner(d, ops),
           ops \in {<<"removeDisplay", "fallBack">>, <<"removeDisplay", "replace">>}
    PROVE  \/ Top = "displayServerFailed" /\ ~ disp[d].blocked
           \/ Top = "displayStopped"
<1>1. Len(ops) = 2
  OBVIOUS
<1>2. Top # "stop"
  <2>1. ASSUME Top = "stop" PROVE Len(ops) = 0 \/ Len(ops) = 4
    <3>1. \/ ops = <<>>
          \/ ops = <<"stopGreeter", "stopAuth", "stopServer", "setStopped">>
      BY <2>1 DEF Inner
    <3> QED
      BY <3>1
  <2> QED
    BY <1>1, <2>1
<1>3. Top # "setStopped"
  BY <1>1 DEF Inner
<1>4. Top \notin {"stopGreeter", "stopAuth", "stopServer", "ttyFailed"}
  <2>1. ASSUME Top \in {"stopGreeter", "stopAuth", "stopServer", "ttyFailed"}
        PROVE  Len(ops) = 0 \/ Len(ops) = 1
    <3>1. ops \in {<<>>, <<"stop">>, <<"ttyFailed">>, <<"displayServerFailed">>}
      BY <2>1 DEF Inner
    <3> QED
      BY <3>1
  <2> QED
    BY <1>1, <2>1
<1>5. Top = "displayServerFailed" \/ Top = "displayStopped"
  BY <1>2, <1>3, <1>4 DEF Inner
<1>6. ASSUME Top = "displayServerFailed", disp[d].blocked PROVE FALSE
  <2>1. ops = <<>>
    BY <1>6 DEF Inner
  <2> QED
    BY <1>1, <2>1
<1> QED
  BY <1>5, <1>6

\* The steps inside of calls keep the parts of the invariant, one by one.
LEMMA InnerBlocked ==
    ASSUME SeatInv, NEW d, NEW ops, Inner(d, ops)
    PROVE  BlockedInv'
<1>1. /\ TypeOK /\ StackInv /\ BlockedInv /\ Replaced(d, ops) /\ ops \in Pushes
      /\ d \in Displays /\ Current = d /\ stack # <<>>
      /\ Top \notin {"removeDisplay", "removed", "replace", "fallBack"}
      /\ \A i \in 1 .. Len(ops) : ops[i] # "removed"
  BY InnerReplaces DEF SeatInv, Inner
<1> DEFINE n == Len(ops)
<1>2. /\ Len(stack) \in Nat /\ Len(stack) >= 1 /\ n \in 0 .. 4
      /\ stack' \in Seq(CallType) /\ Len(stack') = n + Len(stack) - 1
      /\ \A i \in 1 .. n : stack'[i].op = ops[i]
      /\ \A i \in 2 .. Len(stack) : /\ n + i - 1 \in 1 .. Len(stack')
                                    /\ stack'[n + i - 1] = stack[i]
      /\ \A k \in 1 .. Len(stack') :
           \/ k \in 1 .. n
           \/ k - n + 1 \in 2 .. Len(stack) /\ stack'[k] = stack[k - n + 1]
  BY <1>1, ReplacedProperties DEF Pushed
<1>3. /\ \A e \in Displays : disp'[e].blocked = disp[e].blocked
      /\ disp'[d].started => disp[d].started /\ Top # "setStopped"
  BY <1>1 DEF Inner, Touches, Keeps, SameObject
<1>4. stack' # <<>> => /\ Current' = d
                       /\ IF ops = <<>> THEN Top' \in Later ELSE Top' = ops[1]
  BY <1>1, TopStep
<1>5. ASSUME NEW k \in 1 .. Len(stack'), stack'[k].op = "removed"
      PROVE  k - n + 1 \in 2 .. Len(stack) /\ stack[k - n + 1].op = "removed"
  BY <1>1, <1>2, <1>5
<1>6. ASSUME NEW k \in 1 .. Len(stack'), stack'[k].op = "removed"
      PROVE  /\ disp'[Current'].blocked
             /\ \A j \in 1 .. Len(stack') : stack'[j].op = "removed" => j = k
             /\ \A j \in 1 .. k - 1 : stack'[j].op \notin {"replace", "fallBack"}
             /\ disp'[Current'].started =>
                  \E j \in 1 .. k - 1 : stack'[j].op \in {"stop", "setStopped"}
  <2> DEFINE i == k - n + 1
  <2>1. i \in 1 .. Len(stack) /\ i \in 2 .. Len(stack) /\ stack[i].op = "removed"
    BY <1>2, <1>5, <1>6
  <2>2. Current' = d
    BY <1>4
  <2>3. disp[d].blocked
    BY <1>1, <2>1 DEF BlockedInv
  <2>4. ASSUME NEW j \in 1 .. Len(stack'), stack'[j].op = "removed" PROVE j = k
    <3>1. j - n + 1 \in 1 .. Len(stack) /\ stack[j - n + 1].op = "removed"
      <4>1. j - n + 1 \in 2 .. Len(stack) /\ stack[j - n + 1].op = "removed"
        BY <1>5, <2>4
      <4> QED
        BY <1>2, <4>1
    <3>2. j - n + 1 = i
      BY <1>1, <2>1, <3>1 DEF BlockedInv
    <3> QED
      BY <1>2, <3>2
  <2>5. ASSUME disp'[d].started
        PROVE  \E j \in 1 .. k - 1 : stack'[j].op \in {"stop", "setStopped"}
    <3>1. PICK j \in 1 .. i - 1 : stack[j].op \in {"stop", "setStopped"}
      BY <1>1, <1>3, <2>1, <2>5 DEF BlockedInv
    <3>2. CASE j = 1
      <4>1. Top = "stop" /\ disp[d].started
        BY <1>3, <2>5, <3>1, <3>2 DEF Top
      <4>2. ops = <<"stopGreeter", "stopAuth", "stopServer", "setStopped">>
        BY <4>1 DEF Inner
      <4>3. n = 4 /\ ops[4] = "setStopped"
        BY <4>2
      <4> HIDE DEF n
      <4>4. 4 \in 1 .. k - 1 /\ stack'[4].op = "setStopped"
        BY <1>2, <2>1, <4>3
      <4> QED
        BY <4>4
    <3>3. CASE j # 1
      <4> HIDE DEF n
      <4>1. j \in 2 .. Len(stack) /\ n + j - 1 \in 1 .. k - 1
        BY <1>2, <2>1, <3>1, <3>3
      <4>2. stack'[n + j - 1] = stack[j]
        BY <1>2, <4>1
      <4> QED
        BY <3>1, <4>1, <4>2
    <3> QED
      BY <3>2, <3>3
  <2>6. ASSUME NEW j \in 1 .. k - 1 PROVE stack'[j].op \notin {"replace", "fallBack"}
    <3>1. j \in 1 .. Len(stack') /\ k \in Nat /\ j \in Nat
      BY <1>2, <2>6
    <3>2. CASE j \in 1 .. n
      <4>1. ASSUME ops[j] \in {"replace", "fallBack"} PROVE ~ disp[d].blocked
        <5>1. ops \in {<<"removeDisplay", "fallBack">>, <<"removeDisplay", "replace">>}
          BY <1>1, <3>2, <4>1, PushesCreate
        <5>2. CASE Top = "displayServerFailed"
          BY <5>1, <5>2, InnerRemoves
        <5>3. CASE Top = "displayStopped"
          BY <1>1, <5>3 DEF BlockedInv
        <5> QED
          BY <5>1, <5>2, <5>3, InnerRemoves
      <4> QED
        BY <1>2, <2>3, <3>2, <4>1
    <3>3. CASE j - n + 1 \in 2 .. Len(stack) /\ stack'[j] = stack[j - n + 1]
      <4>1. n \in Int /\ k \in Int
        BY <1>2, <3>1
      <4>2. j - n + 1 \in 1 .. i - 1
        BY <2>6, <3>1, <3>3, <4>1
      <4> HIDE DEF i
      <4> QED
        BY <1>1, <2>1, <3>3, <4>2 DEF BlockedInv
    <3> QED
      BY <1>2, <3>1, <3>2, <3>3
  <2> QED
    BY <1>1, <1>3, <2>2, <2>3, <2>4, <2>5, <2>6
<1>7. ASSUME NEW e \in Displays, disp'[e].blocked PROVE Has("removed")' /\ e = Current'
  <2>1. Has("removed") /\ e = d
    BY <1>1, <1>3, <1>7 DEF BlockedInv
  <2>2. Has("removed")'
    BY <1>1, <2>1, HasStep
  <2>3. stack' # <<>>
    BY <1>2, <2>2 DEF Has
  <2> QED
    BY <1>4, <2>1, <2>2, <2>3
<1>8. ASSUME stack' # <<>>, Top' \in {"removeDisplay", "displayStopped"}
      PROVE  ~ disp'[Current'].blocked
  <2>1. ops # <<>> /\ ops[1] \in {"removeDisplay", "displayStopped"}
    BY <1>4, <1>8 DEF Later
  <2>2. ~ disp[d].blocked
    BY <1>1, <2>1 DEF Inner, BlockedInv
  <2> QED
    BY <1>1, <1>3, <1>4, <1>8, <2>2
<1> QED
  BY <1>6, <1>7, <1>8 DEF BlockedInv

\* No call creates a display at once.
LEMMA PushesFirst ==
    ASSUME NEW ops \in Pushes, ops # <<>>
    PROVE  ops[1] \notin {"fallBack", "replace"}
BY DEF Pushes

\* The objects of the displays.
LEMMA InnerObject ==
    ASSUME SeatInv, NEW d, NEW ops, Inner(d, ops)
    PROVE  ObjectInv'
<1>1. /\ TypeOK /\ StackInv /\ BlockedInv /\ ObjectInv /\ Replaced(d, ops) /\ ops \in Pushes
      /\ d \in Displays /\ Current = d /\ stack # <<>>
      /\ Top \notin {"removeDisplay", "removed", "replace", "fallBack"}
  BY InnerReplaces DEF SeatInv, Inner
<1>2. stack' # <<>> => /\ Current' = d
                       /\ IF ops = <<>> THEN Top' \in Later ELSE Top' = ops[1]
  BY <1>1, TopStep
<1>3. \A e \in Displays :
        /\ disp'[e].type = disp[e].type /\ disp'[e].blocked = disp[e].blocked
        /\ disp'[e].doomed = disp[e].doomed
        /\ disp'[e].retry = disp[e].retry /\ disp'[e].tries = disp[e].tries
        /\ disp'[e].started => disp[e].started
        /\ e # d => disp'[e] = disp[e]
        /\ disp'[e].greeter \in {disp[e].greeter, "none"}
        /\ disp'[e].auth \in {disp[e].auth, "none"}
  BY <1>1 DEF Inner, Touches, Keeps, SameObject
<1>4. displays' = displays /\ Listed' = Listed
  BY DEF Inner, Listed
<1>5. disp[d].type # "none"
  BY <1>1 DEF ObjectInv
<1>6. ASSUME NEW e \in Displays, disp'[e].type = "none" PROVE disp'[e] = NoDisplay
  BY <1>1, <1>3, <1>5, <1>6 DEF ObjectInv
<1>7. ASSUME NEW e \in Displays
      PROVE  /\ disp'[e].type # "none" =>
                  e \in Listed' \/ disp'[e].doomed \/ disp'[e].blocked
             /\ e \in Listed' =>
                  disp'[e].type # "none" /\ ~disp'[e].doomed /\ ~disp'[e].blocked
             /\ disp'[e].doomed => ~disp'[e].started
             /\ disp'[e].retry => disp'[e].tries < 3
  BY <1>1, <1>3, <1>4 DEF ObjectInv
<1>8. ASSUME NEW e \in Displays, e \in Listed'
      PROVE  \/ Still(disp'[e])
             \/ /\ stack' # <<>> /\ e = Current'
                /\ Top' \in {"displayStopped", "removeDisplay"}
  <2>1. CASE e # d
    BY <1>1, <1>3, <1>4, <1>8, <2>1 DEF ObjectInv
  <2>2. CASE e = d /\ Top = "displayStopped"
    <3>1. ops = <<"removeDisplay", "replace">>
      BY <2>2 DEF Inner
    <3>2. ops # <<>> /\ ops[1] = "removeDisplay"
      BY <3>1
    <3>3. stack' # <<>>
      <4>1. Len(ops) \in Nat /\ Len(ops) >= 1
        BY <3>1
      <4>2. Pushed(stack, stack', ops, d)
        BY <1>1, ReplacedProperties
      <4>3. Len(stack') # 0
        BY <4>1, <4>2 DEF Pushed
      <4> QED
        BY <4>3
    <3> QED
      BY <1>2, <2>2, <3>2, <3>3
  <2>3. CASE e = d /\ Top = "setStopped"
    <3>1. ops = <<"displayStopped">>
      BY <1>1, <1>4, <1>8, <2>3 DEF Inner, ObjectInv
    <3>2. ops # <<>> /\ ops[1] = "displayStopped"
      BY <3>1
    <3>3. stack' # <<>>
      <4>1. Len(ops) \in Nat /\ Len(ops) >= 1
        BY <3>1
      <4>2. Pushed(stack, stack', ops, d)
        BY <1>1, ReplacedProperties
      <4>3. Len(stack') # 0
        BY <4>1, <4>2 DEF Pushed
      <4> QED
        BY <4>3
    <3> QED
      BY <1>2, <2>3, <3>2, <3>3
  <2>4. CASE e = d /\ Top \notin {"displayStopped", "setStopped"}
    <3>1. disp'[d].started = disp[d].started /\ Still(disp[d])
      BY <1>1, <1>4, <1>8, <2>4 DEF Inner, ObjectInv
    <3> QED
      BY <1>1, <1>3, <2>4, <3>1 DEF Still
  <2> QED
    BY <2>1, <2>2, <2>3, <2>4
<1>9. Distinct(displays)'
  BY <1>1, <1>4 DEF ObjectInv, Distinct
<1>10. ASSUME stack' # <<>> PROVE disp'[Current'].type # "none"
  BY <1>1, <1>2, <1>3, <1>5, <1>10
<1>11. ASSUME stack' # <<>>, Top' \in {"stopGreeter", "displayServerFailed"}
       PROVE  Current' \in Listed' \/ disp'[Current'].blocked
  <2>1. ops # <<>> /\ ops[1] \in {"stopGreeter", "displayServerFailed"} /\ Current' = d
    BY <1>2, <1>11 DEF Later
  <2>2. \/ Top = "stopGreeter"
        \/ Top = "stop" /\ disp[d].started
    BY <2>1 DEF Inner
  <2>3. d \in Listed \/ disp[d].blocked
    BY <1>1, <1>5, <2>2 DEF ObjectInv
  <2> QED
    BY <1>1, <1>3, <1>4, <2>1, <2>3
<1>13. ~ (stack' # <<>> /\ Top' = "fallBack")
  <2>1. SUFFICES ASSUME stack' # <<>>, Top' = "fallBack" PROVE FALSE
    OBVIOUS
  <2>2. CASE ops = <<>>
    <3>1. 2 \in 1 .. Len(stack) /\ stack[2].op = "fallBack"
      <4>1. /\ Len(stack) \in Nat /\ Len(stack) >= 1 /\ Len(ops) = 0
            /\ Len(stack') = Len(ops) + Len(stack) - 1
            /\ \A k \in 1 .. Len(stack') :
                 \/ k \in 1 .. Len(ops)
                 \/ /\ k - Len(ops) + 1 \in 2 .. Len(stack)
                    /\ stack'[k] = stack[k - Len(ops) + 1]
            /\ stack' \in Seq(CallType)
        BY <1>1, <2>2, ReplacedProperties DEF Pushed
      <4>2. 1 \in 1 .. Len(stack')
        BY <2>1, <4>1
      <4>3. 2 \in 2 .. Len(stack) /\ stack'[1] = stack[2]
        BY <4>1, <4>2
      <4> QED
        BY <2>1, <4>1, <4>3 DEF Top
    <3>2. stack[1].op \in {"removed", "removeDisplay"}
      BY <1>1, <3>1 DEF StackInv
    <3> QED
      BY <1>1, <3>2 DEF Top
  <2>3. CASE ops # <<>>
    <3>1. ops[1] = "fallBack"
      BY <1>2, <2>1, <2>3
    <3> QED
      BY <1>1, <2>3, <3>1, PushesFirst
  <2> QED
    BY <2>2, <2>3
<1>12. ASSUME displays' = <<>>
       PROVE  quit' # 0 \/ Has("replace")' \/ Has("fallBack")'
  <2>1. quit # 0 \/ Has("replace") \/ Has("fallBack")
    BY <1>1, <1>4, <1>12 DEF ObjectInv
  <2>2. CASE quit # 0
    BY <2>2 DEF Inner
  <2>3. CASE Has("replace") \/ Has("fallBack")
    BY <1>1, <2>3, HasStep
  <2> QED
    BY <2>1, <2>2, <2>3
<1> QED
  BY <1>6, <1>7, <1>8, <1>9, <1>10, <1>11, <1>12, <1>13 DEF ObjectInv

\* The number of displays.
LEMMA InnerCount ==
    ASSUME SeatInv, NEW d, NEW ops, Inner(d, ops)
    PROVE  CountInv'
<1>1. /\ TypeOK /\ StackInv /\ BlockedInv /\ ObjectInv /\ CountInv /\ Replaced(d, ops)
      /\ d \in Displays /\ Current = d /\ stack # <<>>
  BY InnerReplaces DEF SeatInv, Inner
<1>2. stack' # <<>> => Current' = d
  BY <1>1, TopStep
<1>3. displays' = displays /\ Listed' = Listed /\ expected' = expected
  BY DEF Inner, Listed
<1>4. ASSUME stack' # <<>>, Current' \notin Listed', Has("fallBack")'
      PROVE  Len(displays') < expected'
  <2>1. d \notin Listed
    BY <1>2, <1>3, <1>4
  <2>2. CASE Has("fallBack")
    BY <1>1, <1>3, <2>1, <2>2 DEF CountInv
  <2>3. CASE \E i \in 1 .. Len(ops) : ops[i] = "fallBack"
    <3>1. ops = <<"removeDisplay", "fallBack">>
      <4>1. ops \in Pushes
        BY <1>1 DEF Replaced
      <4> QED
        BY <2>3, <4>1 DEF Pushes
    <3>2. Top = "displayServerFailed" /\ ~ disp[d].blocked
      <4>1. Top # "displayStopped"
        BY <3>1 DEF Inner
      <4> QED
        BY <3>1, <4>1, InnerRemoves
    <3> QED
      BY <1>1, <2>1, <3>2 DEF ObjectInv
  <2> QED
    BY <1>1, <1>4, <2>2, <2>3, HasStep
<1> QED
  BY <1>1, <1>3, <1>4 DEF CountInv

\* The failures of greeters.
LEMMA InnerTty ==
    ASSUME SeatInv, NEW d, NEW ops, Inner(d, ops)
    PROVE  TtyInv'
<1>1. /\ TypeOK /\ StackInv /\ TtyInv /\ Replaced(d, ops)
      /\ d \in Displays /\ Current = d /\ stack # <<>>
  BY InnerReplaces DEF SeatInv, Inner
<1>2. stack' # <<>> => /\ Current' = d
                       /\ IF ops = <<>> THEN Top' \in Later ELSE Top' = ops[1]
  BY <1>1, TopStep
<1>3. disp'[d].greeter \in {disp[d].greeter, "none"}
  BY DEF Inner, Touches, Keeps
<1>4. ASSUME stack' # <<>>, Top' = "ttyFailed"
      PROVE  /\ Top = "stopGreeter" /\ disp[d].greeter = "running"
             /\ disp'[Current'].greeter # "running"
  <2>1. ops # <<>> /\ ops[1] = "ttyFailed" /\ Current' = d
    BY <1>2, <1>4 DEF Later
  <2>2. ops = <<"ttyFailed">> /\ Top = "stopGreeter"
    BY <2>1 DEF Inner
  <2>3. disp[d].greeter = "running" /\ disp'[d].greeter = "none"
    BY <2>2 DEF Inner
  <2> QED
    BY <2>1, <2>2, <2>3
<1>5. ASSUME ttyFailures' > TtyLimit
      PROVE  /\ quit' # 0
             /\ stack' # <<>> => Top' # "ttyFailed" /\ disp'[Current'].greeter # "running"
  <2>1. CASE Top = "ttyFailed"
    <3>1. quit' # 0
      BY <1>5, <2>1 DEF Inner
    <3>2. disp[d].greeter # "running"
      BY <1>1, <2>1 DEF TtyInv
    <3>3. disp'[d].greeter # "running"
      BY <1>3, <3>2
    <3> QED
      BY <1>2, <1>4, <2>1, <3>1, <3>3
  <2>2. CASE Top # "ttyFailed"
    <3>1. ttyFailures > TtyLimit /\ quit' = quit
      BY <1>5, <2>2 DEF Inner
    <3>2. quit # 0 /\ disp[d].greeter # "running"
      BY <1>1, <3>1 DEF TtyInv
    <3>3. disp'[d].greeter # "running"
      BY <1>3, <3>2
    <3> QED
      BY <1>2, <1>4, <3>1, <3>2, <3>3
  <2> QED
    BY <2>1, <2>2
<1> QED
  BY <1>4, <1>5 DEF TtyInv

\* The types.
LEMMA InnerTypes ==
    ASSUME SeatInv, NEW d, NEW ops, Inner(d, ops)
    PROVE  TypeOK'
<1>1. /\ TypeOK /\ TtyInv /\ Replaced(d, ops)
      /\ d \in Displays /\ Current = d /\ stack # <<>>
  BY InnerReplaces DEF SeatInv, Inner
<1>2. stack' \in Seq(CallType)
  BY <1>1, ReplacedProperties DEF Pushed
<1>3. /\ disp' \in [Displays -> DisplayState]
      /\ first' = first /\ displays' = displays /\ expected' = expected
  BY DEF Inner, Touches
<1>4. ttyFailures' \in 0 .. TtyLimit + 1 /\ quit' \in {0, 12, 23}
  <2>1. TtyLimit \in Nat /\ ttyFailures \in 0 .. TtyLimit + 1 /\ quit \in {0, 12, 23}
    BY <1>1, SeatAssumption DEF TypeOK
  <2>2. CASE Top = "ttyFailed"
    <3>1. ~ (ttyFailures > TtyLimit)
      BY <1>1, <2>2 DEF TtyInv
    <3>2. ttyFailures' = ttyFailures + 1 /\ quit' \in {quit, 23}
      BY <2>2 DEF Inner
    <3> QED
      BY <2>1, <3>1, <3>2
  <2>3. CASE Top # "ttyFailed"
    BY <2>1, <2>3 DEF Inner
  <2> QED
    BY <2>2, <2>3
<1> QED
  BY <1>1, <1>2, <1>3, <1>4 DEF TypeOK

\* All of the invariant.
LEMMA InnerInv ==
    ASSUME SeatInv, NEW d, NEW ops, Inner(d, ops)
    PROVE  SeatInv'
<1>1. TypeOK /\ StackInv
  BY DEF SeatInv
<1>2. StackInv'
  <2>1. Replaced(d, ops) /\ Top \notin {"removeDisplay", "removed"}
        /\ ops # <<"stop", "removed">>
    BY InnerReplaces
  <2> QED
    BY <1>1, <2>1, StackStep
<1> QED
  BY <1>2, InnerTypes, InnerBlocked, InnerObject, InnerCount, InnerTty DEF SeatInv

-----------------------------------------------------------------------------
(***************************************************************************)
(* The calls that change m_displays.                                       *)
(***************************************************************************)
\* Seat::removeDisplay before its call of Display::stop, and after it.
LEMMA RemoveDisplayInv ==
    ASSUME SeatInv, NEW d \in Displays, RemoveDisplay(d)
    PROVE  SeatInv'
<1> DEFINE ops == <<"stop", "removed">>
<1>1. /\ TypeOK /\ StackInv /\ BlockedInv /\ ObjectInv /\ CountInv /\ TtyInv
      /\ NextCall("removeDisplay", d)
      /\ displays' = Without(displays, d)
      /\ disp' = [disp EXCEPT ![d].blocked = TRUE]
      /\ stack' = <<Call("stop", d), Call("removed", d)>> \o Tail(stack)
      /\ UNCHANGED <<first, ttyFailures, quit, expected>>
  BY DEF SeatInv, RemoveDisplay, Return
<1>2. stack # <<>> /\ Top = "removeDisplay" /\ Current = d
  BY <1>1, TopCall
<1>3. ops \in Pushes /\ ops # <<>> /\ ops[1] = "stop" /\ ops[2] = "removed" /\ Len(ops) = 2
  BY DEF Pushes
<1>4. stack' = After(stack, ops, d)
  BY <1>1, CallsOf DEF After
<1> HIDE DEF ops
<1>5. Replaced(d, ops)
  BY <1>2, <1>3, <1>4 DEF Replaced
<1>6. /\ Len(stack) \in Nat /\ Len(stack) >= 1
      /\ stack' \in Seq(CallType) /\ Len(stack') = 2 + Len(stack) - 1
      /\ \A i \in 1 .. 2 : stack'[i].op = ops[i] /\ stack'[i].display = d
      /\ \A i \in 2 .. Len(stack) : /\ 2 + i - 1 \in 1 .. Len(stack')
                                    /\ stack'[2 + i - 1] = stack[i]
      /\ \A k \in 1 .. Len(stack') :
           \/ k \in 1 .. 2
           \/ k - 2 + 1 \in 2 .. Len(stack) /\ stack'[k] = stack[k - 2 + 1]
  <2>1. Pushed(stack, stack', ops, d)
    BY <1>1, <1>5, ReplacedProperties
  <2> QED
    BY <1>3, <2>1 DEF Pushed
<1>7. /\ stack' # <<>> /\ Current' = d /\ Top' = "stop"
  <2>1. stack' # <<>>
    BY <1>6
  <2> QED
    BY <1>1, <1>3, <1>5, <2>1, TopStep
<1>8. ~ disp[d].blocked /\ \A i \in 1 .. Len(stack) : stack[i].op # "removed"
  BY <1>1, <1>2 DEF BlockedInv
<1>9. \A k \in 1 .. Len(stack') : stack'[k].op = "removed" => k = 2
  <2>1. SUFFICES ASSUME NEW k \in 1 .. Len(stack'), stack'[k].op = "removed" PROVE k = 2
    OBVIOUS
  <2>2. CASE k \in 1 .. 2
    BY <1>3, <1>6, <2>1, <2>2
  <2>3. CASE k - 2 + 1 \in 2 .. Len(stack) /\ stack'[k] = stack[k - 2 + 1]
    <3>1. k - 2 + 1 \in 1 .. Len(stack)
      BY <1>6, <2>3
    <3> QED
      BY <1>8, <2>1, <2>3, <3>1
  <2> QED
    BY <1>6, <2>2, <2>3
<1>10. /\ disp \in [Displays -> DisplayState] /\ disp' \in [Displays -> DisplayState]
       /\ disp'[d].blocked
       /\ \A e \in Displays : e # d => disp'[e] = disp[e]
       /\ \A e \in Displays :
            /\ disp'[e].type = disp[e].type /\ disp'[e].doomed = disp[e].doomed
            /\ disp'[e].started = disp[e].started
            /\ disp'[e].retry = disp[e].retry /\ disp'[e].tries = disp[e].tries
            /\ disp'[e].greeter = disp[e].greeter
  <2>1. disp \in [Displays -> DisplayState] /\ disp[d] \in DisplayState
    BY <1>1 DEF TypeOK
  <2>2. disp'[d] = [disp[d] EXCEPT !.blocked = TRUE]
        /\ \A e \in Displays : e # d => disp'[e] = disp[e]
    BY <1>1, <2>1
  <2>3. disp' \in [Displays -> DisplayState]
    BY <1>1, <2>1 DEF DisplayState
  <2> QED
    BY <2>1, <2>2, <2>3 DEF DisplayState
<1>11. /\ displays' \in Seq(Displays) /\ Listed' = Listed \ {d}
       /\ Distinct(displays') /\ Len(displays') <= Len(displays)
       /\ d \in Listed => Len(displays') < Len(displays)
  <2>1. displays \in Seq(Displays) /\ Distinct(displays) /\ Listed = Elements(displays)
    BY <1>1 DEF TypeOK, ObjectInv, Listed, Elements
  <2>2. /\ Without(displays, d) \in Seq(Displays)
        /\ Elements(Without(displays, d)) = Elements(displays) \ {d}
        /\ Distinct(Without(displays, d))
        /\ Len(Without(displays, d)) <= Len(displays)
        /\ d \in Elements(displays) => Len(Without(displays, d)) < Len(displays)
    BY <2>1, WithoutProperties
  <2>3. Listed' = Elements(displays')
    BY DEF Listed, Elements
  <2> QED
    BY <1>1, <2>1, <2>2, <2>3
<1>12. TypeOK'
  BY <1>1, <1>6, <1>10, <1>11 DEF TypeOK
<1>13. StackInv'
  BY <1>1, <1>2, <1>5, StackStep DEF ops
<1>14. BlockedInv'
  <2>1. ASSUME NEW k \in 1 .. Len(stack'), stack'[k].op = "removed"
        PROVE  /\ disp'[Current'].blocked
               /\ \A j \in 1 .. Len(stack') : stack'[j].op = "removed" => j = k
               /\ \A j \in 1 .. k - 1 : stack'[j].op \notin {"replace", "fallBack"}
               /\ disp'[Current'].started =>
                    \E j \in 1 .. k - 1 : stack'[j].op \in {"stop", "setStopped"}
    <3>1. k = 2
      BY <1>9, <2>1
    <3>2. 1 \in 1 .. k - 1 /\ stack'[1].op = "stop" /\ \A j \in 1 .. k - 1 : j = 1
      BY <1>3, <1>6, <3>1
    <3> QED
      BY <1>7, <1>9, <1>10, <3>1, <3>2
  <2>2. ASSUME NEW e \in Displays, disp'[e].blocked PROVE Has("removed")' /\ e = Current'
    <3>1. 2 \in 1 .. Len(stack') /\ stack'[2].op = "removed"
      BY <1>3, <1>6
    <3>2. e = d
      BY <1>1, <1>2, <1>10, <2>2 DEF BlockedInv
    <3> QED
      BY <1>7, <3>1, <3>2 DEF Has
  <2> QED
    BY <1>7, <2>1, <2>2 DEF BlockedInv
<1>15. ObjectInv'
  <2>1. disp[d].type # "none"
    BY <1>1, <1>2 DEF ObjectInv
  <2>2. ASSUME NEW e \in Displays
        PROVE  /\ disp'[e].type = "none" => disp'[e] = NoDisplay
               /\ disp'[e].type # "none" =>
                    e \in Listed' \/ disp'[e].doomed \/ disp'[e].blocked
               /\ e \in Listed' =>
                    disp'[e].type # "none" /\ ~disp'[e].doomed /\ ~disp'[e].blocked
               /\ disp'[e].doomed => ~disp'[e].started
               /\ disp'[e].retry => disp'[e].tries < 3
               /\ e \in Listed' => Still(disp'[e])
    <3>1. CASE e = d
      BY <1>1, <1>10, <1>11, <2>1, <3>1 DEF ObjectInv
    <3>2. CASE e # d
      BY <1>1, <1>2, <1>10, <1>11, <3>2 DEF ObjectInv
    <3> QED
      BY <3>1, <3>2
  <2>3. Has("replace")' \/ Has("fallBack")'
    <3>1. Follows(1, {"fallBack", "replace"})
      BY <1>2, <1>6, <1>1 DEF StackInv, Top
    <3>2. Has("replace") \/ Has("fallBack")
      BY <1>6, <3>1 DEF Follows, Has
    <3> QED
      BY <1>1, <1>2, <1>5, <3>2, HasStep
  <2> QED
    BY <1>7, <1>10, <1>11, <2>1, <2>2, <2>3 DEF ObjectInv
<1>16. CountInv'
  <2>1. expected' = expected /\ expected >= 1 /\ Len(displays) <= expected
        /\ expected \in Nat /\ Len(displays) \in Nat /\ Len(displays') \in Nat
    BY <1>1, <1>11 DEF CountInv, TypeOK
  <2>2. ASSUME Has("fallBack")' PROVE Len(displays') < expected'
    <3>1. Has("fallBack")
      <4>1. ~ \E i \in 1 .. Len(ops) : ops[i] = "fallBack"
        BY <1>3
      <4> QED
        BY <1>1, <1>5, <2>2, <4>1, HasStep
    <3>2. CASE d \in Listed
      BY <1>11, <2>1, <3>2
    <3>3. CASE d \notin Listed
      <4>1. Len(displays) < expected
        BY <1>1, <1>2, <3>1, <3>3 DEF CountInv
      <4> QED
        BY <1>11, <2>1, <4>1
    <3> QED
      BY <3>2, <3>3
  <2>3. Len(displays') <= expected'
    BY <1>11, <2>1
  <2> QED
    BY <2>1, <2>2, <2>3 DEF CountInv
<1>17. TtyInv'
  BY <1>1, <1>2, <1>7, <1>10 DEF TtyInv
<1> QED
  BY <1>12, <1>13, <1>14, <1>15, <1>16, <1>17 DEF SeatInv

\* The end of Seat::removeDisplay: the object will be deleted.
LEMMA RemovedInv ==
    ASSUME SeatInv, NEW d \in Displays, Removed(d)
    PROVE  SeatInv'
<1>1. /\ TypeOK /\ StackInv /\ BlockedInv /\ ObjectInv /\ CountInv /\ TtyInv
      /\ NextCall("removed", d)
      /\ disp' = [disp EXCEPT ![d].blocked = FALSE, ![d].doomed = TRUE]
      /\ stack' = Tail(stack)
      /\ UNCHANGED <<first, displays, ttyFailures, quit, expected>>
  BY DEF SeatInv, Removed, Return, seatVars
<1>2. stack # <<>> /\ Top = "removed" /\ Current = d /\ stack' = After(stack, <<>>, d)
  BY <1>1, TopCall
<1>3. <<>> \in Pushes /\ Len(<<>>) = 0
  BY DEF Pushes
<1>5. Replaced(d, <<>>)
  BY <1>2, <1>3 DEF Replaced
<1>6. /\ Len(stack) \in Nat /\ Len(stack) >= 1
      /\ stack' \in Seq(CallType) /\ Len(stack') = 0 + Len(stack) - 1
      /\ \A k \in 1 .. Len(stack') :
           \/ k \in 1 .. 0
           \/ k - 0 + 1 \in 2 .. Len(stack) /\ stack'[k] = stack[k - 0 + 1]
  <2>1. Pushed(stack, stack', <<>>, d)
    BY <1>1, <1>5, ReplacedProperties
  <2> QED
    BY <1>3, <2>1 DEF Pushed
<1>7. stack' # <<>> => Current' = d /\ Top' \in Later
  BY <1>1, <1>5, TopStep
<1>8. 1 \in 1 .. Len(stack) /\ stack[1].op = "removed"
  BY <1>2, <1>6 DEF Top
<1>9. \A k \in 1 .. Len(stack') : stack'[k].op # "removed"
  <2>1. SUFFICES ASSUME NEW k \in 1 .. Len(stack'), stack'[k].op = "removed" PROVE FALSE
    OBVIOUS
  <2>2. k + 1 \in 1 .. Len(stack) /\ k + 1 # 1 /\ stack[k + 1].op = "removed"
    BY <1>6, <2>1
  <2> QED
    BY <1>1, <1>8, <2>2 DEF BlockedInv
<1>10. /\ disp \in [Displays -> DisplayState] /\ disp' \in [Displays -> DisplayState]
       /\ ~ disp'[d].blocked /\ disp'[d].doomed
       /\ \A e \in Displays : e # d => disp'[e] = disp[e]
       /\ \A e \in Displays :
            /\ disp'[e].type = disp[e].type
            /\ disp'[e].started = disp[e].started
            /\ disp'[e].retry = disp[e].retry /\ disp'[e].tries = disp[e].tries
            /\ disp'[e].greeter = disp[e].greeter
  <2>1. disp \in [Displays -> DisplayState] /\ disp[d] \in DisplayState
    BY <1>1 DEF TypeOK
  <2>2. disp'[d] = [disp[d] EXCEPT !.blocked = FALSE, !.doomed = TRUE]
        /\ \A e \in Displays : e # d => disp'[e] = disp[e]
    BY <1>1, <2>1
  <2>3. disp' \in [Displays -> DisplayState]
    BY <1>1, <2>1 DEF DisplayState
  <2>4. /\ ~ disp'[d].blocked /\ disp'[d].doomed
        /\ disp'[d].type = disp[d].type /\ disp'[d].started = disp[d].started
        /\ disp'[d].retry = disp[d].retry /\ disp'[d].tries = disp[d].tries
        /\ disp'[d].greeter = disp[d].greeter
    BY <2>1, <2>2 DEF DisplayState
  <2> QED
    BY <2>1, <2>2, <2>3, <2>4
<1>11. Listed' = Listed /\ displays' = displays
  BY <1>1 DEF Listed
<1>12. TypeOK'
  BY <1>1, <1>6, <1>10 DEF TypeOK
<1>13. StackInv'
  BY <1>1, <1>2, <1>5, StackStep
<1>14. disp[d].blocked /\ ~ disp[d].started
  <2>1. ~ \E j \in 1 .. 1 - 1 : TRUE
    OBVIOUS
  <2> QED
    BY <1>1, <1>2, <1>8, <2>1 DEF BlockedInv
<1>15. BlockedInv'
  <2>1. \A e \in Displays : ~ disp'[e].blocked
    BY <1>1, <1>2, <1>10 DEF BlockedInv
  <2> QED
    BY <1>7, <1>9, <2>1 DEF BlockedInv, Later
<1>16. ObjectInv'
  <2>1. disp[d].type # "none" /\ d \notin Listed
    BY <1>1, <1>2, <1>14 DEF ObjectInv
  <2>2. ASSUME NEW e \in Displays
        PROVE  /\ disp'[e].type = "none" => disp'[e] = NoDisplay
               /\ disp'[e].type # "none" =>
                    e \in Listed' \/ disp'[e].doomed \/ disp'[e].blocked
               /\ e \in Listed' =>
                    disp'[e].type # "none" /\ ~disp'[e].doomed /\ ~disp'[e].blocked
               /\ disp'[e].doomed => ~disp'[e].started
               /\ disp'[e].retry => disp'[e].tries < 3
               /\ e \in Listed' => Still(disp'[e])
    <3>1. CASE e = d
      BY <1>1, <1>10, <1>11, <1>14, <2>1, <3>1 DEF ObjectInv
    <3>2. CASE e # d
      BY <1>1, <1>2, <1>10, <1>11, <3>2 DEF ObjectInv
    <3> QED
      BY <3>1, <3>2
  <2>3. displays' = <<>> => quit' # 0 \/ Has("replace")' \/ Has("fallBack")'
    BY <1>1, <1>2, <1>5, HasStep DEF ObjectInv
  <2>4. Distinct(displays)'
    BY <1>1, <1>11 DEF ObjectInv, Distinct
  <2> QED
    BY <1>7, <1>10, <1>11, <2>1, <2>2, <2>3, <2>4 DEF ObjectInv, Later
<1>17. CountInv'
  <2>1. Has("fallBack")' => Has("fallBack")
    <3>1. ~ \E i \in 1 .. Len(<<>>) : <<>>[i] = "fallBack"
      BY <1>3
    <3> QED
      BY <1>1, <1>5, <3>1, HasStep
  <2> QED
    BY <1>1, <1>2, <1>7, <1>11, <2>1 DEF CountInv
<1>18. TtyInv'
  BY <1>1, <1>2, <1>7, <1>10 DEF TtyInv, Later
<1> QED
  BY <1>12, <1>13, <1>15, <1>16, <1>17, <1>18 DEF SeatInv

\* A display was created, as Seat::startDisplay left it.
Created(e, r) ==
    /\ e \in Displays /\ disp[e].type = "none"
    /\ r \in DisplayState /\ r.type # "none" /\ ~r.blocked /\ ~r.doomed
    /\ Still(r) /\ (r.retry => r.tries < 3)
    /\ disp' = [disp EXCEPT ![e] = r]
    /\ displays' = Append(displays, e)

\* The object of a display is as the seat wants it.
Sound(e) ==
    /\ disp[e].type = "none" => disp[e] = NoDisplay
    /\ disp[e].type # "none" => e \in Listed \/ disp[e].doomed \/ disp[e].blocked
    /\ e \in Listed => disp[e].type # "none" /\ ~disp[e].doomed /\ ~disp[e].blocked
    /\ disp[e].doomed => ~disp[e].started
    /\ disp[e].retry => disp[e].tries < 3

\* Seat::createDisplay does that.
LEMMA CreateDisplayResult ==
    ASSUME SeatInv, NEW types, types \subseteq {"x11", "x11-user", "wayland"},
           CreateDisplay(types)
    PROVE  (\E e, r : Created(e, r)) /\ first' \in BOOLEAN
<1>1. PICK e \in Displays, t \in types :
        /\ Unused(e)
        /\ \E r \in StartDisplay(NewDisplay(t)) : Becomes(e, r)
        /\ displays' = Append(displays, e)
  BY DEF CreateDisplay
<1>2. PICK r \in StartDisplay(NewDisplay(t)) : Becomes(e, r)
  BY <1>1
<1> DEFINE new == NewDisplay(t)
<1>3. /\ new \in DisplayState /\ new.type # "none" /\ ~new.blocked /\ ~new.doomed
      /\ Still(new) /\ new.tries < 3
  <2>1. t \in DisplayType /\ t # "none" /\ 0 \in Tries
    BY DEF DisplayType, Tries
  <2>2. NoDisplay \in DisplayState
    BY <2>1 DEF NoDisplay, DisplayState, DisplayType
  <2>3. /\ ~NoDisplay.blocked /\ ~NoDisplay.doomed /\ NoDisplay.greeter = "none"
        /\ NoDisplay.auth = "none" /\ NoDisplay.tries = 0
    BY DEF NoDisplay
  <2> QED
    BY <2>1, <2>2, <2>3 DEF NewDisplay, DisplayState, Still
<1> HIDE DEF new
<1>4. r \in StartDisplay(new)
  BY DEF new
<1>5. /\ r \in DisplayState /\ SameObject(r, new)
      /\ r.retry => r.tries < 3
      /\ Still(r)
  BY <1>3, <1>4, StartResult
<1>6. disp' = [disp EXCEPT ![e] = r] /\ first' \in BOOLEAN
  BY <1>2, <1>5 DEF Becomes, SeatInv, TypeOK, DisplayState
<1>7. Created(e, r)
  BY <1>1, <1>3, <1>5, <1>6 DEF Created, SameObject, Unused
<1> QED
  BY <1>6, <1>7

\* The seat keeps its displays or has a new one.
Listing == UNCHANGED <<disp, displays>> \/ \E e, r : Created(e, r)

\* The objects after it.
LEMMA ListingProperties ==
    ASSUME SeatInv, Listing
    PROVE  /\ disp' \in [Displays -> DisplayState]
           /\ displays' \in Seq(Displays) /\ Distinct(displays')
           /\ \A x \in Displays : disp[x].type # "none" => disp'[x] = disp[x]
           /\ \A x \in Displays : disp[x].type = "none" => ~ disp'[x].blocked
           /\ \A x \in Displays : Sound(x)'
           /\ \A x \in Listed' : Still(disp'[x]) \/ (x \in Listed /\ disp'[x] = disp[x])
<1>1. /\ disp \in [Displays -> DisplayState] /\ displays \in Seq(Displays)
      /\ Distinct(displays) /\ \A x \in Displays : Sound(x)
  BY DEF SeatInv, TypeOK, ObjectInv, Sound
<1>2. \A x \in Displays : disp[x].type = "none" => ~ disp[x].blocked
  BY <1>1 DEF Sound, NoDisplay
<1>3. CASE UNCHANGED <<disp, displays>>
  BY <1>1, <1>2, <1>3 DEF Listed, Sound
<1>4. ASSUME NEW e, NEW r, Created(e, r)
      PROVE  /\ disp' \in [Displays -> DisplayState]
             /\ displays' \in Seq(Displays) /\ Distinct(displays')
             /\ \A x \in Displays : disp[x].type # "none" => disp'[x] = disp[x]
             /\ \A x \in Displays : disp[x].type = "none" => ~ disp'[x].blocked
             /\ \A x \in Displays : Sound(x)'
             /\ \A x \in Listed' : Still(disp'[x]) \/ (x \in Listed /\ disp'[x] = disp[x])
  <2>1. /\ e \in Displays /\ disp[e].type = "none"
        /\ r \in DisplayState /\ r.type # "none" /\ ~r.blocked /\ ~r.doomed
        /\ Still(r) /\ (r.retry => r.tries < 3)
        /\ disp' = [disp EXCEPT ![e] = r]
        /\ displays' = Append(displays, e)
    BY <1>4 DEF Created
  <2>2. /\ disp' \in [Displays -> DisplayState] /\ disp'[e] = r
        /\ \A x \in Displays : x # e => disp'[x] = disp[x]
    BY <1>1, <2>1
  <2>3. e \notin Listed
    BY <1>1, <2>1 DEF Sound
  <2>4. /\ displays' \in Seq(Displays) /\ Len(displays') = Len(displays) + 1
        /\ displays'[Len(displays) + 1] = e /\ Len(displays) \in Nat
        /\ \A i \in 1 .. Len(displays) : displays'[i] = displays[i]
    BY <1>1, <2>1, AppendProperties
  <2>5. \A i \in 1 .. Len(displays') : i \in 1 .. Len(displays) \/ i = Len(displays) + 1
    BY <2>4
  <2>6. Listed' = Listed \union {e}
    <3>1. \A x : x \in Listed' <=> \E i \in 1 .. Len(displays') : x = displays'[i]
      BY DEF Listed
    <3>2. \A x : x \in Listed <=> \E i \in 1 .. Len(displays) : x = displays[i]
      BY DEF Listed
    <3>3. \A i \in 1 .. Len(displays) : i \in 1 .. Len(displays')
      BY <2>4
    <3>4. Len(displays) + 1 \in 1 .. Len(displays')
      BY <2>4
    <3>5. ASSUME NEW x, x \in Listed' PROVE x \in Listed \/ x = e
      BY <2>4, <2>5, <3>1, <3>2, <3>5
    <3>6. ASSUME NEW x, x \in Listed \/ x = e PROVE x \in Listed'
      BY <2>4, <3>1, <3>2, <3>3, <3>4, <3>6
    <3> QED
      BY <3>5, <3>6
  <2>7. Distinct(displays')
    <3>1. SUFFICES ASSUME NEW i \in 1 .. Len(displays'), NEW j \in 1 .. Len(displays'),
                          displays'[i] = displays'[j]
                   PROVE  i = j
      BY DEF Distinct
    <3>2. \A k \in 1 .. Len(displays) : displays[k] # e
      BY <2>3 DEF Listed
    <3> QED
      BY <1>1, <2>4, <2>5, <3>1, <3>2 DEF Distinct
  <2>8. ASSUME NEW x \in Displays PROVE Sound(x)'
    <3>1. CASE x = e
      BY <2>1, <2>2, <2>6, <3>1 DEF Sound
    <3>2. CASE x # e
      BY <1>1, <2>2, <2>6, <3>2 DEF Sound
    <3> QED
      BY <3>1, <3>2
  <2>9. ASSUME NEW x \in Listed'
        PROVE  Still(disp'[x]) \/ (x \in Listed /\ disp'[x] = disp[x])
    <3>1. x \in Displays
      BY <2>1, <2>6, <2>9, <1>1 DEF Listed
    <3> QED
      BY <2>1, <2>2, <2>6, <2>9, <3>1
  <2> QED
    BY <1>2, <2>1, <2>2, <2>4, <2>7, <2>8, <2>9
<1> QED
  BY <1>3, <1>4 DEF Listing

\* A call of Seat's that may create a display is over.
LEMMA PopInv ==
    ASSUME SeatInv, NEW d, Replaced(d, <<>>), Top \in {"replace", "fallBack"}, Listing,
           first' \in BOOLEAN, UNCHANGED <<ttyFailures, expected>>,
           quit' \in {0, 12, 23}, quit # 0 => quit' # 0,
           displays' = <<>> => quit' # 0, Len(displays') <= expected
    PROVE  SeatInv'
<1>1. /\ TypeOK /\ StackInv /\ BlockedInv /\ ObjectInv /\ CountInv /\ TtyInv
      /\ stack # <<>> /\ Current = d /\ d \in Displays /\ <<>> \in Pushes
  BY DEF SeatInv, Replaced
<1>2. Len(<<>>) = 0
  OBVIOUS
<1>3. /\ Len(stack) \in Nat /\ Len(stack) >= 1
      /\ stack' \in Seq(CallType) /\ Len(stack') = 0 + Len(stack) - 1
      /\ \A k \in 1 .. Len(stack') :
           \/ k \in 1 .. 0
           \/ k - 0 + 1 \in 2 .. Len(stack) /\ stack'[k] = stack[k - 0 + 1]
  <2>1. Pushed(stack, stack', <<>>, d)
    BY <1>1, <1>2, ReplacedProperties
  <2> QED
    BY <1>2, <2>1 DEF Pushed
<1>4. stack' # <<>> => Current' = d /\ Top' \in Later
  BY <1>1, TopStep
<1>5. \A i \in 1 .. Len(stack) : stack[i].op # "removed"
  <2>1. SUFFICES ASSUME NEW i \in 1 .. Len(stack), stack[i].op = "removed" PROVE FALSE
    OBVIOUS
  <2>2. i # 1
    BY <2>1 DEF Top
  <2>3. 1 \in 1 .. i - 1
    BY <1>3, <2>2
  <2> QED
    BY <1>1, <2>1, <2>3 DEF BlockedInv, Top
<1>6. \A i \in 2 .. Len(stack) : stack[i].op # "fallBack"
  <2>1. SUFFICES ASSUME NEW i \in 2 .. Len(stack), stack[i].op = "fallBack" PROVE FALSE
    OBVIOUS
  <2>2. i \in 1 .. Len(stack) /\ i # 1 /\ i - 1 \in 1 .. Len(stack)
    BY <1>3
  <2>3. stack[i - 1].op = "removeDisplay"
    BY <1>1, <1>5, <2>1, <2>2 DEF StackInv
  <2>4. i - 1 # 1
    BY <2>3 DEF Top
  <2>5. i - 1 \in 2 .. Len(stack)
    BY <1>3, <2>4
  <2> QED
    BY <1>1, <2>3, <2>5 DEF StackInv, Later
<1>7. \A k \in 1 .. Len(stack') : stack'[k].op \notin {"removed", "fallBack"}
  <2>1. SUFFICES ASSUME NEW k \in 1 .. Len(stack')
                 PROVE  stack'[k].op \notin {"removed", "fallBack"}
    OBVIOUS
  <2>2. k + 1 \in 1 .. Len(stack) /\ k + 1 \in 2 .. Len(stack) /\ stack'[k] = stack[k + 1]
    BY <1>3
  <2> QED
    BY <1>5, <1>6, <2>2
<1>8. /\ disp' \in [Displays -> DisplayState]
      /\ displays' \in Seq(Displays) /\ Distinct(displays')
      /\ \A x \in Displays : disp[x].type # "none" => disp'[x] = disp[x]
      /\ \A x \in Displays : disp[x].type = "none" => ~ disp'[x].blocked
      /\ \A x \in Displays : Sound(x)'
      /\ \A x \in Listed' : Still(disp'[x]) \/ (x \in Listed /\ disp'[x] = disp[x])
  BY ListingProperties
<1>9. stack' # <<>> => disp[d].type # "none" /\ disp'[d] = disp[d]
  <2>1. SUFFICES ASSUME stack' # <<>> PROVE disp[d].type # "none"
    BY <1>1, <1>8
  <2>2. Len(stack) # 1
    BY <1>3, <2>1
  <2> QED
    BY <1>1, <2>2 DEF ObjectInv
<1>10. TypeOK'
  BY <1>1, <1>3, <1>8 DEF TypeOK
<1>11. StackInv'
  <2>1. <<>> # <<"stop", "removed">>
    OBVIOUS
  <2> QED
    BY <1>1, <2>1, StackStep
<1>12. BlockedInv'
  <2>1. \A x \in Displays : ~ disp[x].blocked
    BY <1>1, <1>5 DEF BlockedInv, Has
  <2>2. \A x \in Displays : ~ disp'[x].blocked
    BY <1>8, <2>1
  <2> QED
    BY <1>4, <1>7, <2>2 DEF BlockedInv, Later
<1>13. ObjectInv'
  <2>1. ASSUME NEW x \in Displays, x \in Listed' PROVE Still(disp'[x])
    <3>1. Still(disp'[x]) \/ (x \in Listed /\ disp'[x] = disp[x])
      BY <1>8, <2>1
    <3>2. x \in Listed => Still(disp[x])
      BY <1>1 DEF ObjectInv
    <3> QED
      BY <3>1, <3>2
  <2>2. stack' # <<>> => Top' # "fallBack"
    <3>1. stack' # <<>> => 1 \in 1 .. Len(stack')
      BY <1>3
    <3> QED
      BY <1>7, <3>1 DEF Top
  <2>3. Distinct(displays)'
    BY <1>8 DEF Distinct
  <2> QED
    BY <1>4, <1>8, <1>9, <2>1, <2>2, <2>3 DEF ObjectInv, Sound, Later
<1>14. CountInv'
  <2>1. ~ Has("fallBack")'
    BY <1>7 DEF Has
  <2> QED
    BY <1>1, <2>1 DEF CountInv
<1>15. TtyInv'
  BY <1>1, <1>4, <1>9 DEF TtyInv, Later
<1> QED
  BY <1>10, <1>11, <1>12, <1>13, <1>14, <1>15 DEF SeatInv

\* The end of displayStopped.
LEMMA ReplaceInv ==
    ASSUME SeatInv, NEW d \in Displays, Replace(d)
    PROVE  SeatInv'
<1>1. /\ TypeOK /\ CountInv /\ ObjectInv /\ NextCall("replace", d)
      /\ stack' = Tail(stack)
      /\ IF displays = <<>> THEN CreateDisplay(DefaultTypes)
         ELSE UNCHANGED <<disp, first, displays>>
      /\ UNCHANGED <<ttyFailures, quit, expected>>
  BY DEF SeatInv, Replace, Return
<1>2. stack # <<>> /\ Top = "replace" /\ Current = d /\ stack' = After(stack, <<>>, d)
  BY <1>1, TopCall
<1>3. Replaced(d, <<>>)
  BY <1>2 DEF Replaced, Pushes
<1>4. quit \in {0, 12, 23} /\ first \in BOOLEAN /\ expected \in Nat /\ expected >= 1
      /\ Len(displays) <= expected /\ displays \in Seq(Displays)
  BY <1>1 DEF TypeOK, CountInv
<1>5. Listing /\ first' \in BOOLEAN /\ displays' # <<>> /\ Len(displays') <= expected
  <2>1. CASE displays = <<>>
    <3>1. (\E e, r : Created(e, r)) /\ first' \in BOOLEAN
      BY <1>1, <2>1, CreateDisplayResult, DisplayAssumption
    <3>2. \E e : displays' = Append(<<>>, e)
      BY <2>1, <3>1 DEF Created
    <3>3. displays' # <<>> /\ Len(displays') = 1
      BY <3>2
    <3> QED
      BY <1>4, <3>1, <3>3 DEF Listing
  <2>2. CASE displays # <<>>
    BY <1>1, <1>4, <2>2 DEF Listing
  <2> QED
    BY <2>1, <2>2
<1> QED
  BY <1>1, <1>2, <1>3, <1>4, <1>5, PopInv

\* The end of the slot that createDisplay connects to displayServerFailed.
LEMMA FallBackInv ==
    ASSUME SeatInv, NEW d \in Displays, FallBack(d)
    PROVE  SeatInv'
<1>1. /\ TypeOK /\ CountInv /\ ObjectInv /\ NextCall("fallBack", d)
      /\ stack' = Tail(stack)
      /\ IF disp[d].type # "x11-user"
         THEN CreateDisplay({"x11-user"}) /\ UNCHANGED quit
         ELSE /\ quit' = IF displays = <<>> THEN 12 ELSE quit
              /\ UNCHANGED <<disp, first, displays>>
      /\ UNCHANGED <<ttyFailures, expected>>
  BY DEF SeatInv, FallBack, Return
<1>2. stack # <<>> /\ Top = "fallBack" /\ Current = d /\ stack' = After(stack, <<>>, d)
  BY <1>1, TopCall
<1>3. Replaced(d, <<>>)
  BY <1>2 DEF Replaced, Pushes
<1>4. quit \in {0, 12, 23} /\ first \in BOOLEAN /\ expected \in Nat
      /\ Len(displays) < expected /\ displays \in Seq(Displays)
  <2>1. d \notin Listed
    BY <1>1, <1>2 DEF ObjectInv
  <2>2. Has("fallBack")
    <3>1. stack \in Seq(CallType)
      BY <1>1 DEF TypeOK
    <3>2. 1 \in 1 .. Len(stack)
      BY <1>2, <3>1
    <3> QED
      BY <1>2, <3>2 DEF Has, Top
  <2> QED
    BY <1>1, <1>2, <2>1, <2>2 DEF TypeOK, CountInv
<1>5. /\ Listing /\ first' \in BOOLEAN /\ Len(displays') <= expected
      /\ quit' \in {0, 12, 23} /\ (quit # 0 => quit' # 0)
      /\ (displays' = <<>> => quit' # 0)
  <2>1. CASE disp[d].type # "x11-user"
    <3>1. (\E e, r : Created(e, r)) /\ first' \in BOOLEAN
      BY <1>1, <2>1, CreateDisplayResult
    <3>2. PICK e : e \in Displays /\ displays' = Append(displays, e)
      BY <3>1 DEF Created
    <3>3. displays' # <<>> /\ Len(displays') = Len(displays) + 1
      BY <1>4, <3>2
    <3> QED
      BY <1>1, <1>4, <2>1, <3>1, <3>3 DEF Listing
  <2>2. CASE disp[d].type = "x11-user"
    BY <1>1, <1>4, <2>2 DEF Listing
  <2> QED
    BY <2>1, <2>2
<1> QED
  BY <1>1, <1>2, <1>3, <1>4, <1>5, PopInv

-----------------------------------------------------------------------------
(***************************************************************************)
(* Events.                                                                 *)
(***************************************************************************)
\* What the invariant says in the event loop.
LEMMA IdleSeat ==
    ASSUME SeatInv, stack = <<>>
    PROVE  /\ \A op : ~ Has(op)
           /\ \A x \in Displays : ~ disp[x].blocked
           /\ \A x \in Displays : Sound(x)
           /\ \A x \in Listed : x \in Displays /\ Still(disp[x])
           /\ quit = 0 => displays # <<>> /\ ~ (ttyFailures > TtyLimit)
<1>1. /\ TypeOK /\ BlockedInv /\ ObjectInv /\ TtyInv
  BY DEF SeatInv
<1>2. \A op : ~ Has(op)
  BY DEF Has
<1>3. \A x \in Displays : ~ disp[x].blocked
  BY <1>1, <1>2 DEF BlockedInv
<1>4. \A x \in Listed : x \in Displays
  BY <1>1 DEF Listed, TypeOK
<1>5. \A x \in Displays : Sound(x)
  BY <1>1 DEF ObjectInv, Sound
<1>6. \A x \in Listed : Still(disp[x])
  BY <1>1, <1>4 DEF ObjectInv
<1>7. quit = 0 => displays # <<>> /\ ~ (ttyFailures > TtyLimit)
  BY <1>1, <1>2 DEF ObjectInv, TtyInv
<1> QED
  BY <1>2, <1>3, <1>4, <1>5, <1>6, <1>7

\* An event of the display d makes r of its object and calls ops.
EventOf(d, ops, r) ==
    /\ ops \in {<<>>, <<"stop">>, <<"ttyFailed">>, <<"displayServerFailed">>,
                <<"stopGreeter">>}
    /\ stack' = Calls(ops, d)
    /\ r \in DisplayState /\ SameObject(r, disp[d])
    /\ r.retry = disp[d].retry /\ r.tries = disp[d].tries /\ Still(r)
    /\ ops = <<"ttyFailed">> => r.greeter = "none"
    /\ disp' = [disp EXCEPT ![d] = r]
    /\ first' \in BOOLEAN

\* Every event is one of a listed display, and such a step.
LEMMA EventResult ==
    ASSUME SeatInv, NEW d \in Displays, Event(d)
    PROVE  /\ Alive(d) /\ d \in Listed
           /\ \E ops, r : EventOf(d, ops, r)
<1>1. /\ Idle /\ stack = <<>> /\ TypeOK
      /\ \/ ServerDies(d) \/ GreeterStarts(d) \/ GreeterDies(d)
         \/ HelperFailsToStart(d) \/ Login(d) \/ AutologinFails(d)
         \/ SessionStarts(d) \/ GreeterTimer(d) \/ HelperExits(d)
  BY DEF Event, Idle, SeatInv
<1>2. Alive(d)
  BY <1>1 DEF ServerDies, GreeterStarts, GreeterDies, HelperFailsToStart, Login,
              AutologinFails, SessionStarts, GreeterTimer, HelperExits
<1>3. d \in Listed /\ Still(disp[d])
  BY <1>1, <1>2, IdleSeat DEF Alive, Sound
<1>4. /\ disp \in [Displays -> DisplayState] /\ disp[d] \in DisplayState /\ first \in BOOLEAN
      /\ <<>> = Calls(<<>>, d) /\ \A a : <<Call(a, d)>> = Calls(<<a>>, d)
  BY <1>1, CallsOf DEF TypeOK
<1> DEFINE o == disp[d]
<1>5. CASE ServerDies(d)
  <2> DEFINE r == [o EXCEPT !.server = "off"]
  <2>1. /\ disp' = [disp EXCEPT ![d] = r] /\ stack' = <<Call("stop", d)>> /\ first' = first
    BY <1>5 DEF ServerDies
  <2>2. r \in DisplayState /\ SameObject(r, o) /\ r.retry = o.retry /\ r.tries = o.tries
        /\ Still(r)
    BY <1>3, <1>4 DEF DisplayState, SameObject, Still
  <2> HIDE DEF r
  <2>3. EventOf(d, <<"stop">>, r)
    BY <1>4, <2>1, <2>2 DEF EventOf
  <2> QED
    BY <1>2, <1>3, <2>3
<1>6. CASE GreeterStarts(d)
  <2> DEFINE r == [o EXCEPT !.greeter = "running"]
  <2>1. /\ disp' = [disp EXCEPT ![d] = r] /\ stack' = <<>> /\ first' = first
        /\ o.greeter = "starting"
    BY <1>1, <1>6 DEF GreeterStarts
  <2>2. r \in DisplayState /\ SameObject(r, o) /\ r.retry = o.retry /\ r.tries = o.tries
        /\ Still(r)
    BY <1>3, <1>4, <2>1 DEF DisplayState, SameObject, Still
  <2> HIDE DEF r
  <2>3. EventOf(d, <<>>, r)
    BY <1>4, <2>1, <2>2 DEF EventOf
  <2> QED
    BY <1>2, <1>3, <2>3
<1>7. CASE GreeterDies(d)
  <2>1. PICK ops \in GreeterEnd(o) :
          /\ disp' = [disp EXCEPT ![d].greeter = "none"]
          /\ stack' = [i \in 1 .. Len(ops) |-> Call(ops[i], d)] \o <<>>
          /\ UNCHANGED first
    BY <1>7 DEF GreeterDies, GreeterFinished
  <2> DEFINE r == [o EXCEPT !.greeter = "none"]
  <2>2. disp' = [disp EXCEPT ![d] = r]
    BY <2>1
  <2>3. r \in DisplayState /\ SameObject(r, o) /\ r.retry = o.retry /\ r.tries = o.tries
        /\ Still(r) /\ r.greeter = "none"
    BY <1>3, <1>4 DEF DisplayState, SameObject, Still
  <2>4. ops \in {<<>>, <<"stop">>, <<"ttyFailed">>, <<"displayServerFailed">>}
    BY DEF GreeterEnd
  <2>5. stack' = Calls(ops, d)
    <3>1. ops \in Seq(Ops)
      BY <2>4, PushesTypes DEF Pushes
    <3>2. Calls(ops, d) \in Seq(CallType)
      BY <3>1 DEF Calls, Call, CallType, Ops
    <3>3. Calls(ops, d) \o <<>> = Calls(ops, d)
      BY <3>2
    <3> QED
      BY <2>1, <3>3 DEF Calls
  <2> HIDE DEF r
  <2>6. EventOf(d, ops, r)
    BY <1>4, <2>1, <2>2, <2>3, <2>4, <2>5 DEF EventOf
  <2> QED
    BY <1>2, <1>3, <2>6
<1>8. CASE HelperFailsToStart(d)
  <2> DEFINE r == [o EXCEPT !.greeter = "none"]
             s == [o EXCEPT !.auth = "none"]
  <2>1. /\ stack' = <<>> /\ first' = first
        /\ disp' = [disp EXCEPT ![d] = r] \/ disp' = [disp EXCEPT ![d] = s]
    BY <1>1, <1>8 DEF HelperFailsToStart
  <2>2. r \in DisplayState /\ SameObject(r, o) /\ r.retry = o.retry /\ r.tries = o.tries
        /\ Still(r)
    BY <1>3, <1>4 DEF DisplayState, SameObject, Still
  <2>3. s \in DisplayState /\ SameObject(s, o) /\ s.retry = o.retry /\ s.tries = o.tries
        /\ Still(s)
    BY <1>3, <1>4 DEF DisplayState, SameObject, Still
  <2> HIDE DEF r, s
  <2>4. EventOf(d, <<>>, r) \/ EventOf(d, <<>>, s)
    BY <1>4, <2>1, <2>2, <2>3 DEF EventOf
  <2> QED
    BY <1>2, <1>3, <2>4
<1>9. CASE Login(d)
  <2> DEFINE r == [o EXCEPT !.auth = "auth"]
  <2>1. /\ disp' = [disp EXCEPT ![d] = r] /\ stack' = <<>> /\ first' = first /\ o.started
    BY <1>1, <1>9 DEF Login
  <2>2. r \in DisplayState /\ SameObject(r, o) /\ r.retry = o.retry /\ r.tries = o.tries
        /\ Still(r)
    BY <1>4, <2>1 DEF DisplayState, SameObject, Still
  <2> HIDE DEF r
  <2>3. EventOf(d, <<>>, r)
    BY <1>4, <2>1, <2>2 DEF EventOf
  <2> QED
    BY <1>2, <1>3, <2>3
<1>10. CASE AutologinFails(d)
  <2> DEFINE q == [o EXCEPT !.autologin = FALSE]
  <2>1. PICK r \in WithGreeter(q) : Becomes(d, r)
    BY <1>10 DEF AutologinFails
  <2>2. q \in DisplayState /\ SameObject(q, o) /\ q.retry = o.retry /\ q.tries = o.tries
        /\ Still(q)
    BY <1>3, <1>4 DEF DisplayState, SameObject, Still
  <2> HIDE DEF q
  <2>3. r \in DisplayState /\ SameObject(r, o) /\ r.retry = o.retry /\ r.tries = o.tries
        /\ Still(r)
    BY <2>2, GreeterResult DEF SameObject
  <2>4. /\ disp' = [disp EXCEPT ![d] = r] /\ stack' = <<>> /\ first' \in BOOLEAN
    BY <1>1, <1>4, <1>10, <2>1, <2>3 DEF AutologinFails, Becomes, DisplayState
  <2>5. EventOf(d, <<>>, r)
    BY <1>4, <2>3, <2>4 DEF EventOf
  <2> QED
    BY <1>2, <1>3, <2>5
<1>11. CASE SessionStarts(d)
  <2> DEFINE r == [o EXCEPT !.auth = "session", !.timer = TRUE]
  <2>1. /\ disp' = [disp EXCEPT ![d] = r] /\ stack' = <<>> /\ first' = first
        /\ o.auth = "auth"
    BY <1>1, <1>4, <1>11 DEF SessionStarts
  <2>2. r \in DisplayState /\ SameObject(r, o) /\ r.retry = o.retry /\ r.tries = o.tries
        /\ Still(r)
    BY <1>3, <1>4, <2>1 DEF DisplayState, SameObject, Still
  <2> HIDE DEF r
  <2>3. EventOf(d, <<>>, r)
    BY <1>4, <2>1, <2>2 DEF EventOf
  <2> QED
    BY <1>2, <1>3, <2>3
<1>12. CASE GreeterTimer(d)
  <2> DEFINE r == [o EXCEPT !.timer = FALSE]
  <2>1. /\ disp' = [disp EXCEPT ![d] = r] /\ stack' = <<Call("stopGreeter", d)>>
        /\ first' = first
    BY <1>12 DEF GreeterTimer
  <2>2. r \in DisplayState /\ SameObject(r, o) /\ r.retry = o.retry /\ r.tries = o.tries
        /\ Still(r)
    BY <1>3, <1>4 DEF DisplayState, SameObject, Still
  <2> HIDE DEF r
  <2>3. EventOf(d, <<"stopGreeter">>, r)
    BY <1>4, <2>1, <2>2 DEF EventOf
  <2> QED
    BY <1>2, <1>3, <2>3
<1>13. CASE HelperExits(d)
  <2>1. PICK authError \in BOOLEAN :
          /\ disp' = [disp EXCEPT ![d].auth = "none"]
          /\ stack' = (IF authError THEN <<>> ELSE <<Call("stop", d)>>) \o <<>>
          /\ UNCHANGED first
    BY <1>13 DEF HelperExits, HelperFinished
  <2> DEFINE r == [o EXCEPT !.auth = "none"]
             ops == IF authError THEN <<>> ELSE <<"stop">>
  <2>2. disp' = [disp EXCEPT ![d] = r]
    BY <2>1
  <2>3. r \in DisplayState /\ SameObject(r, o) /\ r.retry = o.retry /\ r.tries = o.tries
        /\ Still(r)
    BY <1>3, <1>4 DEF DisplayState, SameObject, Still
  <2>4. stack' = Calls(ops, d)
    <3>1. <<Call("stop", d)>> \o <<>> = <<Call("stop", d)>> /\ <<>> \o <<>> = <<>>
      OBVIOUS
    <3> QED
      BY <1>4, <2>1, <3>1
  <2>5. ops \in {<<>>, <<"stop">>} /\ ops # <<"ttyFailed">>
    OBVIOUS
  <2> HIDE DEF r, ops
  <2>6. EventOf(d, ops, r)
    BY <1>4, <2>1, <2>2, <2>3, <2>4, <2>5 DEF EventOf
  <2> QED
    BY <1>2, <1>3, <2>6
<1> QED
  BY <1>1, <1>5, <1>6, <1>7, <1>8, <1>9, <1>10, <1>11, <1>12, <1>13

\* Between two events, or with one call that an event makes.
LEMMA EventLevel ==
    ASSUME TypeOK', Len(stack') <= 1,
           stack' # <<>> =>
             /\ Current' \in Listed'
             /\ Top' \in {"stop", "ttyFailed", "displayServerFailed", "stopGreeter"}
             /\ Top' = "ttyFailed" => disp'[Current'].greeter # "running",
           \A x \in Displays : ~ disp'[x].blocked /\ Sound(x)',
           \A x \in Listed' : Still(disp'[x]),
           Distinct(displays'), displays' = <<>> => quit' # 0,
           expected' >= 1, Len(displays') <= expected',
           ttyFailures' > TtyLimit => quit' # 0 /\ stack' = <<>>
    PROVE  SeatInv'
<1>1. /\ stack' \in Seq(CallType) /\ Len(stack') \in Nat
      /\ displays' \in Seq(Displays)
  BY DEF TypeOK
<1>2. \A k \in 1 .. Len(stack') :
        /\ k = 1 /\ stack' # <<>>
        /\ stack'[k].op \in {"stop", "ttyFailed", "displayServerFailed", "stopGreeter"}
  <2>1. SUFFICES ASSUME NEW k \in 1 .. Len(stack')
                 PROVE  k = 1 /\ stack' # <<>>
    BY <2>1 DEF Top
  <2> QED
    BY <1>1
<1>3. StackInv'
  <2>1. \A k \in 2 .. Len(stack') : FALSE
    BY <1>1
  <2>2. \A k \in 1 .. Len(stack') : stack'[k].display = Current'
    BY <1>2 DEF Current
  <2> QED
    BY <1>2, <2>1, <2>2 DEF StackInv
<1>4. BlockedInv'
  BY <1>2 DEF BlockedInv
<1>5. ObjectInv'
  <2>1. Distinct(displays)'
    BY DEF Distinct
  <2>2. stack' # <<>> => Current' \in Displays
    BY <1>1 DEF Listed
  <2> QED
    BY <2>1, <2>2 DEF ObjectInv, Sound
<1>6. CountInv'
  BY DEF CountInv
<1>7. TtyInv'
  BY DEF TtyInv
<1> QED
  BY <1>3, <1>4, <1>5, <1>6, <1>7 DEF SeatInv

\* The events of a display keep the invariant.
LEMMA EventInv ==
    ASSUME SeatInv, NEW d \in Displays, Event(d)
    PROVE  SeatInv'
<1>1. /\ TypeOK /\ Idle /\ stack = <<>> /\ quit = 0 /\ expected' = Len(displays)
      /\ UNCHANGED <<displays, ttyFailures, quit>>
  BY DEF Event, Idle, SeatInv
<1>2. /\ \A x \in Displays : ~ disp[x].blocked
      /\ \A x \in Displays : Sound(x)
      /\ \A x \in Listed : x \in Displays /\ Still(disp[x])
      /\ displays # <<>> /\ ~ (ttyFailures > TtyLimit)
  BY <1>1, IdleSeat
<1>3. d \in Listed
  BY EventResult
<1>4. PICK ops, r : EventOf(d, ops, r)
  BY EventResult
<1>5. /\ ops \in {<<>>, <<"stop">>, <<"ttyFailed">>, <<"displayServerFailed">>,
                  <<"stopGreeter">>}
      /\ stack' = Calls(ops, d)
      /\ r \in DisplayState /\ SameObject(r, disp[d])
      /\ r.retry = disp[d].retry /\ r.tries = disp[d].tries /\ Still(r)
      /\ ops = <<"ttyFailed">> => r.greeter = "none"
      /\ disp' = [disp EXCEPT ![d] = r]
      /\ first' \in BOOLEAN
  BY <1>4 DEF EventOf
<1>6. \/ ops = <<>> /\ stack' = <<>>
      \/ \E a \in {"stop", "ttyFailed", "displayServerFailed", "stopGreeter"} :
            stack' = <<Call(a, d)>> /\ (a = "ttyFailed" => r.greeter = "none")
  BY <1>5, CallsOf
<1>7. /\ stack' \in Seq(CallType) /\ Len(stack') <= 1
      /\ stack' # <<>> =>
           /\ Current' = d
           /\ Top' \in {"stop", "ttyFailed", "displayServerFailed", "stopGreeter"}
           /\ Top' = "ttyFailed" => r.greeter # "running"
  <2>1. CASE stack' = <<>>
    BY <2>1
  <2>2. CASE \E a \in {"stop", "ttyFailed", "displayServerFailed", "stopGreeter"} :
               stack' = <<Call(a, d)>> /\ (a = "ttyFailed" => r.greeter = "none")
    <3>1. PICK a \in {"stop", "ttyFailed", "displayServerFailed", "stopGreeter"} :
            stack' = <<Call(a, d)>> /\ (a = "ttyFailed" => r.greeter = "none")
      BY <2>2
    <3>2. Call(a, d) \in CallType /\ Call(a, d).op = a /\ Call(a, d).display = d
      BY DEF Call, CallType
    <3>3. Len(stack') = 1 /\ stack'[1] = Call(a, d) /\ stack' \in Seq(CallType)
      BY <3>1, <3>2
    <3>4. Top' = a /\ Current' = d
      BY <3>2, <3>3 DEF Top, Current
    <3> QED
      BY <3>1, <3>3, <3>4
  <2> QED
    BY <1>6, <2>1, <2>2
<1>8. /\ disp \in [Displays -> DisplayState] /\ displays \in Seq(Displays)
      /\ Distinct(displays) /\ Listed' = Listed
  BY <1>1 DEF TypeOK, SeatInv, ObjectInv, Listed
<1>9. /\ disp' \in [Displays -> DisplayState] /\ disp'[d] = r
      /\ \A x \in Displays : x # d => disp'[x] = disp[x]
  BY <1>5, <1>8
<1>10. Len(displays) \in Nat /\ Len(displays) >= 1
  BY <1>2, <1>8
<1>11. ASSUME NEW x \in Displays PROVE ~ disp'[x].blocked /\ Sound(x)'
  <2>1. CASE x = d
    <3>1. /\ ~ disp[d].blocked /\ ~ disp[d].doomed /\ disp[d].type # "none"
          /\ disp[d].retry => disp[d].tries < 3
      BY <1>2, <1>3 DEF Sound
    <3> QED
      BY <1>3, <1>5, <1>8, <1>9, <2>1, <3>1 DEF Sound, SameObject
  <2>2. CASE x # d
    BY <1>2, <1>8, <1>9, <2>2 DEF Sound
  <2> QED
    BY <2>1, <2>2
<1>12. \A x \in Listed' : Still(disp'[x])
  BY <1>2, <1>5, <1>8, <1>9
<1>13. TypeOK'
  BY <1>1, <1>5, <1>7, <1>8, <1>9, <1>10 DEF TypeOK
<1> QED
  BY <1>1, <1>2, <1>3, <1>7, <1>8, <1>9, <1>10, <1>11, <1>12, <1>13, EventLevel

\* The next try of Seat::startDisplay keeps it.
LEMMA RetryInv ==
    ASSUME SeatInv, NEW d \in Displays, Retry(d)
    PROVE  SeatInv'
<1>1. /\ TypeOK /\ stack = <<>> /\ quit = 0 /\ expected' = Len(displays)
      /\ disp[d].retry /\ disp \in [Displays -> DisplayState]
      /\ displays \in Seq(Displays) /\ Distinct(displays)
      /\ UNCHANGED <<stack, displays, ttyFailures, quit>>
  BY DEF Retry, Idle, SeatInv, TypeOK, ObjectInv
<1>2. PICK r \in StartDisplay(disp[d]) : Becomes(d, r)
  BY DEF Retry
<1>3. /\ \A x \in Displays : ~ disp[x].blocked
      /\ \A x \in Displays : Sound(x)
      /\ \A x \in Listed : x \in Displays /\ Still(disp[x])
      /\ displays # <<>> /\ ~ (ttyFailures > TtyLimit)
  BY <1>1, IdleSeat
<1>4. disp[d].tries < 3 /\ disp[d].type # "none"
  BY <1>1, <1>3 DEF Sound, NoDisplay
<1>5. /\ r \in DisplayState /\ SameObject(r, disp[d])
      /\ r.retry => r.tries < 3
      /\ Still(disp[d]) => Still(r)
  BY <1>1, <1>2, <1>4, StartResult
<1>6. /\ disp' = [disp EXCEPT ![d] = r] /\ first' \in BOOLEAN
      /\ disp' \in [Displays -> DisplayState] /\ disp'[d] = r
      /\ \A x \in Displays : x # d => disp'[x] = disp[x]
  BY <1>1, <1>2, <1>5 DEF Becomes, TypeOK, DisplayState
<1>7. Listed' = Listed /\ Len(displays) \in Nat /\ Len(displays) >= 1
  BY <1>1, <1>3 DEF Listed
<1>8. d \in Listed \/ disp[d].doomed
  BY <1>3, <1>4 DEF Sound
<1>9. ASSUME NEW x \in Displays PROVE ~ disp'[x].blocked /\ Sound(x)'
  <2>1. CASE x = d
    <3>1. ~ disp[d].doomed
      BY DEF Retry, Idle
    <3> QED
      BY <1>3, <1>4, <1>5, <1>6, <1>7, <1>8, <2>1, <3>1 DEF Sound, SameObject
  <2>2. CASE x # d
    BY <1>3, <1>6, <1>7, <2>2 DEF Sound
  <2> QED
    BY <2>1, <2>2
<1>10. \A x \in Listed' : Still(disp'[x])
  BY <1>3, <1>5, <1>6, <1>7
<1>11. TypeOK'
  BY <1>1, <1>6, <1>7 DEF TypeOK
<1>12. Len(stack') <= 1
  BY <1>1
<1> QED
  BY <1>1, <1>3, <1>6, <1>7, <1>9, <1>10, <1>11, <1>12, EventLevel

\* So does SeatManager::switchToGreeter.
LEMMA SwitchToGreeterInv ==
    ASSUME SeatInv, SwitchToGreeter
    PROVE  SeatInv'
<1>1. /\ TypeOK /\ stack = <<>> /\ quit = 0 /\ expected' = Len(displays) + 1
      /\ CreateDisplay(DefaultTypes) /\ displays \in Seq(Displays)
      /\ UNCHANGED <<stack, ttyFailures, quit>>
  BY DEF SwitchToGreeter, Idle, SeatInv, TypeOK
<1>2. (\E e, r : Created(e, r)) /\ first' \in BOOLEAN
  BY <1>1, CreateDisplayResult, DisplayAssumption
<1>3. PICK e : displays' = Append(displays, e) /\ e \in Displays
  BY <1>2 DEF Created
<1>4. Len(displays') = Len(displays) + 1 /\ Len(displays) \in Nat /\ displays' # <<>>
  BY <1>1, <1>3
<1>5. /\ \A x \in Displays : ~ disp[x].blocked
      /\ \A x \in Listed : x \in Displays /\ Still(disp[x])
      /\ ~ (ttyFailures > TtyLimit)
  BY <1>1, IdleSeat
<1>6. /\ disp' \in [Displays -> DisplayState]
      /\ displays' \in Seq(Displays) /\ Distinct(displays')
      /\ \A x \in Displays : disp[x].type # "none" => disp'[x] = disp[x]
      /\ \A x \in Displays : disp[x].type = "none" => ~ disp'[x].blocked
      /\ \A x \in Displays : Sound(x)'
      /\ \A x \in Listed' : Still(disp'[x]) \/ (x \in Listed /\ disp'[x] = disp[x])
  BY <1>2, ListingProperties DEF Listing
<1>7. TypeOK'
  BY <1>1, <1>2, <1>4, <1>6 DEF TypeOK
<1>8. Len(stack') <= 1 /\ stack' = <<>>
  BY <1>1
<1>9. \A x \in Listed' : Still(disp'[x])
  BY <1>5, <1>6
<1>10. \A x \in Displays : ~ disp'[x].blocked
  BY <1>5, <1>6
<1> QED
  BY <1>1, <1>4, <1>5, <1>6, <1>7, <1>8, <1>9, <1>10, EventLevel

\* So does the deferred delete.
LEMMA DeleteInv ==
    ASSUME SeatInv, NEW d \in Displays, Delete(d)
    PROVE  SeatInv'
<1>1. /\ TypeOK /\ ObjectInv /\ CountInv /\ TtyInv /\ stack = <<>> /\ disp[d].doomed
      /\ disp' = [disp EXCEPT ![d] = NoDisplay]
      /\ UNCHANGED <<first, stack, displays, ttyFailures, quit, expected>>
  BY DEF Delete, DeleteDisplay, SeatInv, seatVars
<1>2. /\ \A op : ~ Has(op)
      /\ \A x \in Displays : ~ disp[x].blocked
      /\ \A x \in Displays : Sound(x)
      /\ \A x \in Listed : x \in Displays /\ Still(disp[x])
  BY <1>1, IdleSeat
<1>3. d \notin Listed /\ Listed' = Listed
  BY <1>1, <1>2 DEF Sound, Listed
<1>4. /\ NoDisplay \in DisplayState /\ ~ NoDisplay.blocked /\ ~ NoDisplay.doomed
      /\ NoDisplay.type = "none" /\ ~ NoDisplay.retry /\ ~ NoDisplay.started
  <2>1. 0 \in Tries
    BY DEF Tries
  <2> QED
    BY <2>1 DEF NoDisplay, DisplayState, DisplayType
<1>5. /\ disp' \in [Displays -> DisplayState] /\ disp'[d] = NoDisplay
      /\ \A x \in Displays : x # d => disp'[x] = disp[x]
  BY <1>1, <1>4 DEF TypeOK
<1>6. ASSUME NEW x \in Displays PROVE ~ disp'[x].blocked /\ Sound(x)'
  <2>1. CASE x = d
    BY <1>3, <1>4, <1>5, <2>1 DEF Sound
  <2>2. CASE x # d
    BY <1>2, <1>3, <1>5, <2>2 DEF Sound
  <2> QED
    BY <2>1, <2>2
<1>7. \A x \in Listed' : Still(disp'[x])
  BY <1>2, <1>3, <1>5
<1>8. TypeOK'
  BY <1>1, <1>5 DEF TypeOK
<1>9. displays' = <<>> => quit' # 0
  BY <1>1, <1>2 DEF ObjectInv
<1>10. /\ expected' >= 1 /\ Len(displays') <= expected' /\ Distinct(displays')
       /\ ttyFailures' > TtyLimit => quit' # 0 /\ stack' = <<>>
       /\ Len(stack') <= 1 /\ stack' = <<>>
  BY <1>1 DEF CountInv, TtyInv, ObjectInv
<1> QED
  BY <1>6, <1>7, <1>8, <1>9, <1>10, EventLevel

\* The invariant holds at first.
LEMMA InitInv ==
    ASSUME Init
    PROVE  SeatInv
<1>1. PICK d \in Displays : stack = <<Call("replace", d)>>
  BY DEF Init
<1>2. /\ disp = [e \in Displays |-> NoDisplay] /\ first \in BOOLEAN
      /\ displays = <<>> /\ ttyFailures = 0 /\ quit = 0 /\ expected = 1
  BY DEF Init
<1>3. /\ NoDisplay \in DisplayState /\ ~ NoDisplay.blocked /\ ~ NoDisplay.doomed
      /\ NoDisplay.type = "none" /\ ~ NoDisplay.retry
  <2>1. 0 \in Tries
    BY DEF Tries
  <2> QED
    BY <2>1 DEF NoDisplay, DisplayState, DisplayType
<1>4. /\ Call("replace", d) \in CallType
      /\ Call("replace", d).op = "replace" /\ Call("replace", d).display = d
  BY DEF Call, CallType
<1>5. /\ stack \in Seq(CallType) /\ Len(stack) = 1 /\ stack # <<>>
      /\ Top = "replace" /\ Current = d
      /\ \A i \in 1 .. Len(stack) : i = 1 /\ stack[i].op = "replace" /\ stack[i].display = d
      /\ 1 \in 1 .. Len(stack)
  BY <1>1, <1>4 DEF Top, Current
<1>6. Listed = {}
  BY <1>2 DEF Listed
<1>7. TypeOK
  BY <1>2, <1>3, <1>5, SeatAssumption DEF TypeOK
<1>8. StackInv
  BY <1>5 DEF StackInv
<1>9. BlockedInv
  BY <1>2, <1>3, <1>5 DEF BlockedInv
<1>10. ObjectInv
  <2>1. Distinct(displays)
    BY <1>2 DEF Distinct
  <2>2. Has("replace")
    BY <1>5 DEF Has
  <2> QED
    BY <1>2, <1>3, <1>5, <1>6, <2>1, <2>2 DEF ObjectInv
<1>11. CountInv
  <2>1. ~ Has("fallBack")
    BY <1>5 DEF Has
  <2> QED
    BY <1>2, <2>1 DEF CountInv
<1>12. TtyInv
  BY <1>2, <1>5, SeatAssumption DEF TtyInv
<1> QED
  BY <1>7, <1>8, <1>9, <1>10, <1>11, <1>12 DEF SeatInv

\* A step of something else keeps it.
LEMMA StutterInv ==
    ASSUME SeatInv, UNCHANGED vars
    PROVE  SeatInv'
BY DEF vars, displayVars, seatVars, SeatInv, TypeOK, StackInv, BlockedInv, ObjectInv,
       CountInv, TtyInv, Top, Current, Follows, Has, Listed, Distinct, Still

\* It is inductive.
LEMMA NextInv ==
    ASSUME SeatInv, [Next]_vars
    PROVE  SeatInv'
<1>1. TypeOK
  BY DEF SeatInv
<1>2. CASE SwitchToGreeter
  BY <1>2, SwitchToGreeterInv
<1>3. ASSUME NEW d \in Displays, Compute(d)
      PROVE  SeatInv'
  <2>1. CASE InnerNext(d)
    BY <1>1, <2>1, InnerSteps, InnerInv
  <2>2. CASE FallBack(d)
    BY <2>2, FallBackInv
  <2>3. CASE Replace(d)
    BY <2>3, ReplaceInv
  <2>4. CASE RemoveDisplay(d)
    BY <2>4, RemoveDisplayInv
  <2>5. CASE Removed(d)
    BY <2>5, RemovedInv
  <2> QED
    BY <1>3, <2>1, <2>2, <2>3, <2>4, <2>5 DEF Compute, InnerNext
<1>4. ASSUME NEW d \in Displays, Timeout(d) \/ Stops(d)
      PROVE  SeatInv'
  BY <1>1, <1>4, InnerSteps, InnerInv DEF InnerNext
<1>5. ASSUME NEW d \in Displays, Retry(d)
      PROVE  SeatInv'
  BY <1>5, RetryInv
<1>6. ASSUME NEW d \in Displays, Delete(d)
      PROVE  SeatInv'
  BY <1>6, DeleteInv
<1>7. ASSUME NEW d \in Displays, Event(d)
      PROVE  SeatInv'
  BY <1>7, EventInv
<1> QED
  BY <1>2, <1>3, <1>4, <1>5, <1>6, <1>7, StutterInv DEF Next, Daemon

\* It always holds.
LEMMA Invariance == Spec => []SeatInv
  BY InitInv, NextInv, PTL DEF Spec

\* In the event loop the objects are those of the listed displays.
LEMMA SeatInvNoLostDisplay ==
    ASSUME SeatInv
    PROVE  NoLostDisplay
<1>1. SUFFICES ASSUME Idle
               PROVE  /\ displays # <<>>
                      /\ Listed = {d \in Displays : disp[d].type # "none"}
                      /\ \A i, j \in 1 .. Len(displays) :
                            displays[i] = displays[j] => i = j
                      /\ \A d \in Displays :
                            /\ ~disp[d].blocked
                            /\ ~disp[d].started =>
                                  disp[d].greeter = "none" /\ disp[d].auth = "none"
  BY DEF NoLostDisplay
<1>2. /\ \A x \in Displays : ~ disp[x].blocked
      /\ \A x \in Displays : Sound(x)
      /\ \A x \in Listed : x \in Displays /\ Still(disp[x])
      /\ displays # <<>>
      /\ \A x \in Displays : ~ disp[x].doomed
  BY <1>1, IdleSeat DEF Idle
<1>3. Listed = {d \in Displays : disp[d].type # "none"}
  BY <1>2 DEF Sound
<1>4. \A i, j \in 1 .. Len(displays) : displays[i] = displays[j] => i = j
  BY DEF SeatInv, ObjectInv, Distinct
<1>5. ASSUME NEW d \in Displays, ~disp[d].started
      PROVE  disp[d].greeter = "none" /\ disp[d].auth = "none"
  <2>1. CASE disp[d].type = "none"
    BY <1>2, <2>1 DEF Sound, NoDisplay
  <2>2. CASE disp[d].type # "none"
    BY <1>2, <1>3, <1>5, <2>2 DEF Still
  <2> QED
    BY <2>1, <2>2
<1> QED
  BY <1>2, <1>3, <1>4, <1>5

-----------------------------------------------------------------------------
(***************************************************************************)
(* Theorems.                                                               *)
(***************************************************************************)
\* The objects, the list and the stack of calls keep their types.
THEOREM Types == Spec => []TypeOK
  BY Invariance, PTL DEF SeatInv

\* However Display::stop, displayStopped, removeDisplay and the fallback are
\* nested, a daemon back in its event loop has lost no display and left none deaf.
THEOREM KeepsDisplays == Spec => []NoLostDisplay
  BY Invariance, SeatInvNoLostDisplay, PTL

\* A display that stopped is replaced by one display and not by two.
THEOREM ReplacedOnce == Spec => []OneReplacement
<1>1. SeatInv => OneReplacement
  BY DEF SeatInv, CountInv, OneReplacement
<1> QED
  BY <1>1, Invariance, PTL
=============================================================================
