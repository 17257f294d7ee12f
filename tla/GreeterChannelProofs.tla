------------------------ MODULE GreeterChannelProofs ------------------------
(***************************************************************************)
(* What the daemon and the greeter make of each other's messages.          *)
(*                                                                         *)
(* A wire is looked at in two ways.  While no message was cut, what is on  *)
(* it is exactly the messages that were not read yet, one after the other  *)
(* (Aligned): so both sides read in order.  And cut or not, wherever       *)
(* reading goes on, a number that is Login with two texts after it is the  *)
(* begin of a Login that was written (Framed): so a login of which all     *)
(* four fields were there is one that the greeter asked for.               *)
(***************************************************************************)
EXTENDS GreeterChannel, WellFoundedInduction, SequenceTheorems, FiniteSetTheorems, TLAPS

-----------------------------------------------------------------------------
\* Of some natural numbers one is the least.
LEMMA Least ==
    ASSUME NEW T, T \subseteq Nat, T # {}
    PROVE  \E k \in T : \A j \in T : k <= j
<1>1. PICK k \in T : \A j \in T : ~ (<<j, k>> \in OpToRel(<, Nat))
  BY WFMin, NatLessThanWellFounded
<1>2. ASSUME NEW j \in T PROVE k <= j
  <2>1. j \in Nat /\ k \in Nat
    OBVIOUS
  <2>2. ~ (j < k)
    BY <1>1, <2>1 DEF OpToRel
  <2> QED
    BY <2>1, <2>2
<1> QED
  BY <1>2

-----------------------------------------------------------------------------
(***************************************************************************)
(* Fields.                                                                 *)
(***************************************************************************)
\* A field: a number, or one of the texts T.
Tok(T) == [number : Nat] \union [text : T]

\* What a field is shows.
LEMMA TokenKinds ==
    ASSUME NEW T, NEW t \in Tok(T)
    PROVE  /\ IsNumber(t) \in BOOLEAN
           /\ IsNumber(t) => t \in [number : Nat] /\ t.number \in Nat
           /\ ~IsNumber(t) => t \in [text : T] /\ t.text \in T
<1>1. CASE t \in [number : Nat]
  BY <1>1 DEF IsNumber
<1>2. CASE t \in [text : T]
  <2>1. DOMAIN t = {"text"}
    BY <1>2
  <2>2. ~IsNumber(t) /\ IsNumber(t) \in BOOLEAN
    BY <2>1 DEF IsNumber
  <2>3. t.text \in T
    BY <1>2
  <2> QED
    BY <1>2, <2>2, <2>3
<1> QED
  BY <1>1, <1>2 DEF Tok

\* A number is a number, and a text is none.
LEMMA NumberText ==
    /\ \A n : IsNumber(Number(n)) /\ Number(n).number = n
    /\ \A t : ~IsNumber(Text(t)) /\ Text(t).text = t
    /\ \A T, n : n \in Nat => Number(n) \in Tok(T)
    /\ \A T, t : t \in T => Text(t) \in Tok(T)
<1>1. ASSUME NEW n PROVE IsNumber(Number(n)) /\ Number(n).number = n
  BY DEF IsNumber, Number
<1>2. ASSUME NEW t PROVE ~IsNumber(Text(t)) /\ Text(t).text = t
  <2>1. DOMAIN Text(t) = {"text"}
    BY DEF Text
  <2> QED
    BY <2>1 DEF IsNumber, Text
<1>3. ASSUME NEW T, NEW n \in Nat PROVE Number(n) \in Tok(T)
  BY DEF Number, Tok
<1>4. ASSUME NEW T, NEW t \in T PROVE Text(t) \in Tok(T)
  BY DEF Text, Tok
<1> QED
  BY <1>1, <1>2, <1>3, <1>4

-----------------------------------------------------------------------------
(***************************************************************************)
(* Reading a message.                                                      *)
(***************************************************************************)
\* What reading a message with the fields of blank from q finds, and leaves.
Found(T, q, blank, r) ==
    /\ r.message \in Nat
    /\ IsNumber(q[1]) => r.message = q[1].number
    /\ ~IsNumber(q[1]) => r.message = Unknown
    /\ r.fields \in Seq(Tok(T)) /\ Len(r.fields) = Len(blank)
    /\ \A i \in 1 .. Len(blank) : IsNumber(r.fields[i]) = IsNumber(blank[i])
    /\ \A i \in 1 .. Len(blank) : r.fields[i] # blank[i] =>
          \A j \in 1 .. i : /\ j + 1 \in 1 .. Len(q)
                            /\ IsNumber(q[j + 1]) = IsNumber(blank[j])
                            /\ r.fields[j] = q[j + 1]

\* An end of q; when the message came in whole, all after it, and its fields
\* are the ones of q.
Left(q, blank, r) ==
    /\ r.whole \in BOOLEAN
    /\ \E k \in 1 .. Len(q) : r.rest = SubSeq(q, k + 1, Len(q))
    /\ r.whole => /\ Len(blank) + 1 <= Len(q)
                  /\ r.rest = SubSeq(q, Len(blank) + 2, Len(q))
                  /\ \A i \in 1 .. Len(blank) : r.fields[i] = q[i + 1]

\* What readyRead finds is a message, with a field for each it asks for; a field
\* that is not blank was there, with all before it.
LEMMA ReadFinds ==
    ASSUME NEW T, NEW q \in Seq(Tok(T)), q # <<>>, NEW blank \in Seq(Tok(T))
    PROVE  Found(T, q, blank, ReadMessage(q, blank))
<1> DEFINE there == Tail(q)
           fits(i) == i <= Len(there) /\ IsNumber(there[i]) = IsNumber(blank[i])
           r == ReadMessage(q, blank)
           N == Len(blank)
<1>1. /\ Len(q) \in Nat /\ Len(q) >= 1 /\ N \in Nat
      /\ there \in Seq(Tok(T)) /\ Len(there) = Len(q) - 1
      /\ \A i \in 1 .. Len(there) : there[i] = q[i + 1] /\ there[i] \in Tok(T)
      /\ q[1] \in Tok(T) /\ Head(q) = q[1]
  <2> HIDE DEF there
  <2>1. there \in Seq(Tok(T)) /\ Len(there) = Len(q) - 1
        /\ \A i \in 1 .. Len(q) - 1 : there[i] = q[i + 1]
    BY HeadTailProperties DEF there
  <2> QED
    BY <2>1, HeadTailProperties, ElementOfSeq
<1>2. /\ r.message = NextMessage(q)
      /\ r.fields = [i \in 1 .. N |-> IF \A j \in 1 .. i : fits(j) THEN there[i] ELSE blank[i]]
  BY DEF ReadMessage
<1>3. /\ r.message \in Nat /\ (IsNumber(q[1]) => r.message = q[1].number)
      /\ ~IsNumber(q[1]) => r.message = Unknown
  BY <1>1, <1>2, TokenKinds DEF NextMessage, Unknown
<1>4. ASSUME NEW i \in 1 .. N
      PROVE  r.fields[i] = IF \A j \in 1 .. i : fits(j) THEN there[i] ELSE blank[i]
  BY <1>2
<1>5. \A i \in 1 .. N : blank[i] \in Tok(T)
  BY ElementOfSeq
<1> HIDE DEF r
<1>6. ASSUME NEW i \in 1 .. N, \A j \in 1 .. i : fits(j)
      PROVE  \A j \in 1 .. i : /\ j + 1 \in 1 .. Len(q) /\ j \in 1 .. Len(there)
                               /\ IsNumber(q[j + 1]) = IsNumber(blank[j])
                               /\ r.fields[j] = q[j + 1]
  <2> TAKE j \in 1 .. i
  <2>1. i \in Nat /\ j \in 1 .. N /\ j \in Nat
    BY <1>1
  <2>2. fits(j)
    BY <1>6
  <2>3. j \in 1 .. Len(there) /\ j + 1 \in 1 .. Len(q)
    BY <1>1, <2>1, <2>2
  <2>4. \A k \in 1 .. j : k \in 1 .. i
    BY <2>1
  <2>5. r.fields[j] = there[j]
    BY <1>4, <1>6, <2>1, <2>4
  <2>6. there[j] = q[j + 1]
    BY <1>1, <2>3
  <2> QED
    BY <2>2, <2>3, <2>5, <2>6
<1>7. ASSUME NEW i \in 1 .. N
      PROVE  r.fields[i] \in Tok(T) /\ IsNumber(r.fields[i]) = IsNumber(blank[i])
  <2>1. CASE \A j \in 1 .. i : fits(j)
    <3>1. i \in 1 .. i
      BY <1>1
    <3>2. i + 1 \in 1 .. Len(q) /\ IsNumber(q[i + 1]) = IsNumber(blank[i])
          /\ r.fields[i] = q[i + 1]
      BY <1>6, <2>1, <3>1
    <3> QED
      BY <3>2, ElementOfSeq
  <2>2. CASE ~ \A j \in 1 .. i : fits(j)
    BY <1>4, <1>5, <2>2
  <2> QED
    BY <2>1, <2>2
<1>8. r.fields \in Seq(Tok(T)) /\ Len(r.fields) = N
  <2>1. r.fields = [i \in 1 .. N |-> r.fields[i]]
    BY <1>2
  <2>2. r.fields \in [1 .. N -> Tok(T)]
    BY <1>7, <2>1
  <2> DEFINE fields == r.fields
  <2>3. fields \in [1 .. N -> Tok(T)]
    BY <2>2
  <2> HIDE DEF fields
  <2>4. fields \in Seq(Tok(T))
    BY <1>1, <2>3, SeqDef
  <2>5. Len(fields) = N
    BY <1>1, <2>3, <2>4, LenProperties
  <2> QED
    BY <2>4, <2>5 DEF fields
<1>9. ASSUME NEW i \in 1 .. N, r.fields[i] # blank[i]
      PROVE  \A j \in 1 .. i : fits(j)
  BY <1>4, <1>9
<1> QED
  BY <1>3, <1>6, <1>7, <1>8, <1>9 DEF Found, r

\* It never leaves what was not there.
LEMMA ReadLeaves ==
    ASSUME NEW T, NEW q \in Seq(Tok(T)), q # <<>>, NEW blank \in Seq(Tok(T))
    PROVE  Left(q, blank, ReadMessage(q, blank))
<1> DEFINE there == Tail(q)
           fits(i) == i <= Len(there) /\ IsNumber(there[i]) = IsNumber(blank[i])
           misfit == \E i \in 1 .. Len(blank) : i <= Len(there) /\ ~fits(i)
           r == ReadMessage(q, blank)
           N == Len(blank)
<1>1. /\ Len(q) \in Nat /\ Len(q) >= 1 /\ N \in Nat
      /\ there \in Seq(Tok(T)) /\ Len(there) = Len(q) - 1
      /\ \A i \in 1 .. Len(there) : there[i] = q[i + 1]
  <2> HIDE DEF there
  <2>1. there \in Seq(Tok(T)) /\ Len(there) = Len(q) - 1
        /\ \A i \in 1 .. Len(q) - 1 : there[i] = q[i + 1]
    BY HeadTailProperties DEF there
  <2> QED
    BY <2>1, HeadTailProperties
<1>2. /\ r.fields = [i \in 1 .. N |-> IF \A j \in 1 .. i : fits(j) THEN there[i] ELSE blank[i]]
      /\ r.rest = IF misfit THEN <<>> ELSE SubSeq(there, N + 1, Len(there))
      /\ r.whole = (\A i \in 1 .. N : fits(i))
  BY DEF ReadMessage
<1>3. ASSUME NEW i \in 1 .. N
      PROVE  r.fields[i] = IF \A j \in 1 .. i : fits(j) THEN there[i] ELSE blank[i]
  BY <1>2
<1>4. SubSeq(there, N + 1, Len(there)) = SubSeq(q, N + 2, Len(q))
  <2> HIDE DEF there
  <2>1. /\ SubSeq(there, N + 1, Len(q) - 1)
             = [i \in 1 .. (Len(q) - 1) - (N + 1) + 1 |-> there[i + (N + 1) - 1]]
        /\ SubSeq(q, N + 2, Len(q)) = [i \in 1 .. Len(q) - (N + 2) + 1 |-> q[i + (N + 2) - 1]]
    BY <1>1
  <2>2. (Len(q) - 1) - (N + 1) + 1 = Len(q) - (N + 2) + 1
    BY <1>1
  <2>3. ASSUME NEW i \in 1 .. Len(q) - (N + 2) + 1
        PROVE  there[i + (N + 1) - 1] = q[i + (N + 2) - 1]
    <3>1. i + (N + 1) - 1 \in 1 .. Len(there) /\ (i + (N + 1) - 1) + 1 = i + (N + 2) - 1
      BY <1>1
    <3> QED
      BY <1>1, <3>1
  <2> QED
    BY <1>1, <2>1, <2>2, <2>3
<1>5. SubSeq(q, Len(q) + 1, Len(q)) = <<>>
  BY <1>1
<1> HIDE DEF r
<1>6. \E k \in 1 .. Len(q) : r.rest = SubSeq(q, k + 1, Len(q))
  <2>1. CASE misfit
    <3>1. r.rest = SubSeq(q, Len(q) + 1, Len(q))
      BY <1>2, <1>5, <2>1
    <3>2. Len(q) \in 1 .. Len(q)
      BY <1>1
    <3> QED
      BY <3>1, <3>2
  <2>2. CASE ~misfit /\ N + 1 <= Len(q)
    <3>1. r.rest = SubSeq(q, (N + 1) + 1, Len(q))
      <4>1. N + 2 = (N + 1) + 1
        BY <1>1
      <4> QED
        BY <1>2, <1>4, <2>2, <4>1
    <3>2. N + 1 \in 1 .. Len(q)
      BY <1>1, <2>2
    <3> QED
      BY <3>1, <3>2
  <2>3. CASE ~misfit /\ ~(N + 1 <= Len(q))
    <3>1. SubSeq(q, N + 2, Len(q)) = <<>>
      BY <1>1, <2>3
    <3>2. r.rest = SubSeq(q, Len(q) + 1, Len(q))
      BY <1>2, <1>4, <1>5, <2>3, <3>1
    <3>3. Len(q) \in 1 .. Len(q)
      BY <1>1
    <3> QED
      BY <3>2, <3>3
  <2> QED
    BY <2>1, <2>2, <2>3
<1>7. ASSUME r.whole
      PROVE  /\ N + 1 <= Len(q)
             /\ r.rest = SubSeq(q, N + 2, Len(q))
             /\ \A i \in 1 .. N : r.fields[i] = q[i + 1]
  <2>1. \A i \in 1 .. N : fits(i)
    BY <1>2, <1>7
  <2>2. N + 1 <= Len(q)
    <3>1. CASE N = 0
      BY <1>1, <3>1
    <3>2. CASE N # 0
      <4>1. fits(N)
        BY <1>1, <2>1, <3>2
      <4> QED
        BY <1>1, <4>1
    <3> QED
      BY <3>1, <3>2
  <2>3. ~misfit
    BY <2>1
  <2>4. ASSUME NEW i \in 1 .. N PROVE r.fields[i] = q[i + 1]
    <3>1. \A j \in 1 .. i : fits(j)
      BY <1>1, <2>1
    <3>2. i \in 1 .. Len(there)
      BY <1>1, <2>2
    <3> QED
      BY <1>1, <1>3, <3>1, <3>2
  <2> QED
    BY <1>2, <1>4, <2>2, <2>3, <2>4
<1>8. r.whole \in BOOLEAN
  BY <1>2
<1> QED
  BY <1>6, <1>7, <1>8 DEF Left, r

-----------------------------------------------------------------------------
(***************************************************************************)
(* Wires.                                                                  *)
(***************************************************************************)
\* The texts there are.
Texts == {"", User, Host} \union Passwords \union DOMAIN SessionFiles

\* The fields of the model.
LEMMA TokenIsTok == Token = Tok(Texts)
  BY DEF Token, Tok, Texts

\* What was written and is still to be read: q and what follows it.
LEMMA Delivered ==
    ASSUME NEW S, NEW wire \in Seq(S), NEW n \in 1 .. Len(wire)
    PROVE  /\ SubSeq(wire, 1, n) \in Seq(S)
           /\ SubSeq(wire, n + 1, Len(wire)) \in Seq(S)
           /\ SubSeq(wire, 1, n) \o SubSeq(wire, n + 1, Len(wire)) = wire
<1>1. /\ \A i \in 1 .. n : wire[i] \in S
      /\ \A i \in n + 1 .. Len(wire) : wire[i] \in S
      /\ n \in Int /\ n + 1 \in Int /\ Len(wire) \in Nat /\ n <= Len(wire)
  BY ElementOfSeq
<1> DEFINE a == SubSeq(wire, 1, n)
           b == SubSeq(wire, n + 1, Len(wire))
<1>2. /\ a \in Seq(S) /\ Len(a) = n
      /\ \A i \in 1 .. n : a[i] = wire[i]
  BY <1>1, SubSeqProperties
<1>3. /\ b \in Seq(S) /\ Len(b) = Len(wire) - n
      /\ \A i \in 1 .. Len(wire) - n : b[i] = wire[n + i]
  <2>1. /\ b \in Seq(S) /\ Len(b) = IF n + 1 <= Len(wire) THEN Len(wire) - (n + 1) + 1 ELSE 0
        /\ \A i \in 1 .. Len(wire) - (n + 1) + 1 : b[i] = wire[(n + 1) + i - 1]
    BY <1>1, SubSeqProperties
  <2> HIDE DEF b
  <2>2. Len(b) = Len(wire) - n /\ Len(wire) - (n + 1) + 1 = Len(wire) - n
    BY <1>1, <2>1
  <2>3. ASSUME NEW i \in 1 .. Len(wire) - n PROVE b[i] = wire[n + i]
    <3>1. (n + 1) + i - 1 = n + i
      BY <1>1
    <3> QED
      BY <2>1, <2>2, <3>1
  <2> QED
    BY <2>1, <2>2, <2>3
<1> HIDE DEF a, b
<1>4. /\ a \o b \in Seq(S) /\ Len(a \o b) = Len(wire)
      /\ \A i \in 1 .. Len(wire) : (a \o b)[i] = IF i <= n THEN a[i] ELSE b[i - n]
  <2>1. /\ a \o b \in Seq(S) /\ Len(a \o b) = Len(a) + Len(b)
        /\ \A i \in 1 .. Len(a) + Len(b) : (a \o b)[i] = IF i <= Len(a) THEN a[i] ELSE b[i - Len(a)]
    BY <1>2, <1>3, ConcatProperties
  <2>2. Len(a) + Len(b) = Len(wire)
    BY <1>1, <1>2, <1>3
  <2> QED
    BY <1>2, <2>1, <2>2
<1>5. ASSUME NEW i \in 1 .. Len(wire) PROVE (a \o b)[i] = wire[i]
  <2>1. CASE i <= n
    BY <1>1, <1>2, <1>4, <2>1
  <2>2. CASE ~(i <= n)
    <3>1. i - n \in 1 .. Len(wire) - n /\ n + (i - n) = i
      BY <1>1, <2>2
    <3> QED
      BY <1>3, <1>4, <2>2, <3>1
  <2> QED
    BY <2>1, <2>2
<1>6. a \o b = wire
  BY <1>4, <1>5, SeqEqual
<1> QED
  BY <1>2, <1>3, <1>6 DEF a, b

\* The end of a sequence.
LEMMA Suffix ==
    ASSUME NEW S, NEW q \in Seq(S), NEW k \in 1 .. Len(q)
    PROVE  /\ SubSeq(q, k + 1, Len(q)) \in Seq(S)
           /\ Len(SubSeq(q, k + 1, Len(q))) = Len(q) - k
           /\ \A i \in 1 .. Len(q) - k : SubSeq(q, k + 1, Len(q))[i] = q[k + i]
<1>1. /\ \A i \in k + 1 .. Len(q) : q[i] \in S
      /\ k \in Nat /\ k + 1 \in Int /\ Len(q) \in Nat /\ k <= Len(q)
  BY ElementOfSeq
<1> DEFINE b == SubSeq(q, k + 1, Len(q))
<1>2. /\ b \in Seq(S) /\ Len(b) = IF k + 1 <= Len(q) THEN Len(q) - (k + 1) + 1 ELSE 0
      /\ \A i \in 1 .. Len(q) - (k + 1) + 1 : b[i] = q[(k + 1) + i - 1]
  BY <1>1, SubSeqProperties
<1> HIDE DEF b
<1>3. Len(b) = Len(q) - k /\ Len(q) - (k + 1) + 1 = Len(q) - k
  BY <1>1, <1>2
<1>4. ASSUME NEW i \in 1 .. Len(q) - k PROVE b[i] = q[k + i]
  <2>1. (k + 1) + i - 1 = k + i
    BY <1>1
  <2> QED
    BY <1>2, <1>3, <2>1
<1> QED
  BY <1>2, <1>3, <1>4 DEF b

\* What is left of a buffer, and what comes after it.
LEMMA SuffixConcat ==
    ASSUME NEW S, NEW q \in Seq(S), NEW wire \in Seq(S), NEW k \in 1 .. Len(q)
    PROVE  /\ k \in 1 .. Len(q \o wire)
           /\ SubSeq(q, k + 1, Len(q)) \o wire = SubSeq(q \o wire, k + 1, Len(q \o wire))
<1> DEFINE a == SubSeq(q, k + 1, Len(q))
           all == q \o wire
           b == SubSeq(all, k + 1, Len(all))
<1>1. Len(q) \in Nat /\ Len(wire) \in Nat /\ k \in Nat /\ k <= Len(q) /\ k >= 1
  OBVIOUS
<1>2. /\ all \in Seq(S) /\ Len(all) = Len(q) + Len(wire)
      /\ \A i \in 1 .. Len(q) + Len(wire) : all[i] = IF i <= Len(q) THEN q[i] ELSE wire[i - Len(q)]
  BY ConcatProperties
<1> HIDE DEF all
<1>3. k \in 1 .. Len(all)
  BY <1>1, <1>2
<1>4. /\ a \in Seq(S) /\ Len(a) = Len(q) - k
      /\ \A i \in 1 .. Len(q) - k : a[i] = q[k + i]
  BY Suffix
<1>5. /\ b \in Seq(S) /\ Len(b) = Len(all) - k
      /\ \A i \in 1 .. Len(all) - k : b[i] = all[k + i]
  BY <1>2, <1>3, Suffix
<1> HIDE DEF a, b
<1>6. /\ a \o wire \in Seq(S) /\ Len(a \o wire) = Len(a) + Len(wire)
      /\ \A i \in 1 .. Len(a) + Len(wire) :
           (a \o wire)[i] = IF i <= Len(a) THEN a[i] ELSE wire[i - Len(a)]
  BY <1>4, ConcatProperties
<1>7. Len(a) + Len(wire) = Len(b)
  BY <1>1, <1>2, <1>4, <1>5
<1>8. ASSUME NEW i \in 1 .. Len(b) PROVE (a \o wire)[i] = b[i]
  <2>1. k + i \in 1 .. Len(all) /\ i \in 1 .. Len(all) - k /\ i \in Nat /\ i >= 1
    BY <1>1, <1>2, <1>5
  <2>2. b[i] = all[k + i]
    BY <1>5, <2>1
  <2>3. CASE i <= Len(a)
    <3>1. i \in 1 .. Len(q) - k /\ k + i <= Len(q)
      BY <1>1, <1>4, <2>1, <2>3
    <3> QED
      BY <1>2, <1>4, <1>6, <1>7, <2>1, <2>2, <2>3, <3>1
  <2>4. CASE ~(i <= Len(a))
    <3>1. ~(k + i <= Len(q)) /\ (k + i) - Len(q) = i - Len(a)
      BY <1>1, <1>4, <2>1, <2>4
    <3> QED
      BY <1>2, <1>6, <1>7, <2>1, <2>2, <2>4, <3>1
  <2> QED
    BY <2>3, <2>4
<1>9. a \o wire = b
  BY <1>5, <1>6, <1>7, <1>8, SeqEqual
<1> QED
  BY <1>3, <1>9 DEF a, b, all

\* A message on the wire.
LEMMA TokensProperties ==
    ASSUME NEW T, NEW w, w.message \in Nat, w.fields \in Seq(Tok(T))
    PROVE  /\ Tokens(w) \in Seq(Tok(T))
           /\ Len(Tokens(w)) = 1 + Len(w.fields)
           /\ Tokens(w)[1] = Number(w.message)
           /\ \A i \in 1 .. Len(w.fields) : Tokens(w)[1 + i] = w.fields[i]
<1> DEFINE h == <<Number(w.message)>>
           f == w.fields
<1>1. Number(w.message) \in Tok(T)
  BY NumberText
<1>2. h \in Seq(Tok(T)) /\ Len(h) = 1 /\ h[1] = Number(w.message)
  BY <1>1
<1>3. f \in Seq(Tok(T)) /\ Len(f) \in Nat
  OBVIOUS
<1> HIDE DEF h, f
<1>4. /\ h \o f \in Seq(Tok(T)) /\ Len(h \o f) = Len(h) + Len(f)
      /\ \A i \in 1 .. Len(h) + Len(f) : (h \o f)[i] = IF i <= Len(h) THEN h[i] ELSE f[i - Len(h)]
  BY <1>2, <1>3, ConcatProperties
<1>5. Tokens(w) = h \o f
  BY DEF Tokens, h, f
<1>6. (h \o f)[1] = Number(w.message)
  BY <1>2, <1>3, <1>4
<1>7. ASSUME NEW i \in 1 .. Len(f) PROVE (h \o f)[1 + i] = f[i]
  <2>1. 1 + i \in 1 .. Len(h) + Len(f) /\ ~(1 + i <= Len(h)) /\ (1 + i) - Len(h) = i
    BY <1>2, <1>3
  <2> QED
    BY <1>4, <2>1
<1> QED
  BY <1>2, <1>4, <1>5, <1>6, <1>7 DEF f

-----------------------------------------------------------------------------
(***************************************************************************)
(* Messages on a wire.                                                     *)
(***************************************************************************)
\* The message w is on the wire q after the first a fields, up to the b-th.
Stands(q, a, b, w) ==
    /\ b = a + 1 + Len(w.fields)
    /\ q[a + 1] = Number(w.message)
    /\ \A i \in 1 .. Len(w.fields) : q[a + 1 + i] = w.fields[i]

\* On q are the messages ms after the n-th, the k-th of them up to p[k].
Cuts(q, ms, n, p) ==
    /\ n \in 0 .. Len(ms)
    /\ p \in [n .. Len(ms) -> 0 .. Len(q)]
    /\ p[n] = 0 /\ p[Len(ms)] = Len(q)
    /\ \A j, k \in n .. Len(ms) : j <= k => p[j] <= p[k]
    /\ \A k \in n + 1 .. Len(ms) : Stands(q, p[k - 1], p[k], ms[k])

\* The messages ms after the n-th are on q, and nothing else.
Aligned(q, ms, n) == \E p : Cuts(q, ms, n, p)

\* A message as it may be written.
Writable(w) == w.message \in Nat /\ w.fields \in Seq(Token)

\* Messages are.
LEMMA AreWritable ==
    ASSUME NEW ms \in Seq(Message), NEW k \in 1 .. Len(ms)
    PROVE  Writable(ms[k]) /\ Len(ms[k].fields) \in Nat
<1>1. ms[k] \in Message
  BY ElementOfSeq
<1> DEFINE w == ms[k]
<1> HIDE DEF w
<1>2. w \in Message => w.message \in Nat /\ w.fields \in Seq(Token)
  BY DEF Message
<1>3. w.fields \in Seq(Token) => Len(w.fields) \in Nat
  BY LenProperties
<1> QED
  BY <1>1, <1>2, <1>3 DEF w, Writable

\* At first nothing is on the wire.
LEMMA NothingAligned == Aligned(<<>>, <<>>, 0)
<1> DEFINE p == [k \in 0 .. 0 |-> 0]
<1>1. Cuts(<<>>, <<>>, 0, p)
  BY DEF Cuts
<1> QED
  BY <1>1 DEF Aligned

\* When nothing is on the wire all was read.
LEMMA AllRead ==
    ASSUME NEW ms, NEW n, Aligned(<<>>, ms, n), Len(ms) \in Nat,
           \A k \in 1 .. Len(ms) : Writable(ms[k])
    PROVE  n = Len(ms)
<1>1. PICK p : Cuts(<<>>, ms, n, p)
  BY DEF Aligned
<1>2. n \in 0 .. Len(ms)
  BY <1>1 DEF Cuts
<1>3. SUFFICES ASSUME n < Len(ms) PROVE FALSE
  BY <1>2
<1>4. p[n] = 0 /\ p[n + 1] \in 0 .. 0
  BY <1>1, <1>2, <1>3 DEF Cuts
<1>5. n + 1 \in n + 1 .. Len(ms) /\ (n + 1) - 1 = n /\ n + 1 \in 1 .. Len(ms)
  BY <1>2, <1>3
<1>6. Stands(<<>>, p[n], p[n + 1], ms[n + 1])
  BY <1>1, <1>5 DEF Cuts
<1>7. Len(ms[n + 1].fields) \in Nat
  BY <1>5 DEF Writable
<1> QED
  BY <1>4, <1>6, <1>7 DEF Stands

\* A message that stands on a wire stays there when something comes after it.
LEMMA StandsStill ==
    ASSUME NEW q, NEW r, NEW d, NEW a, NEW b, NEW w, Stands(q, a, b, w), Writable(w),
           a \in Nat, d \in Nat, Len(q) \in Nat, b <= Len(q), a >= d,
           \A i \in 1 .. Len(q) : i > d => r[i - d] = q[i]
    PROVE  Stands(r, a - d, b - d, w)
<1>0. PICK L, N : L = Len(w.fields) /\ N = Len(q)
  OBVIOUS
<1>1. /\ L \in Nat /\ b = a + 1 + L /\ N \in Nat /\ b <= N
      /\ a \in Nat /\ d \in Nat /\ a >= d
  <2>1. w.fields \in Seq(Token)
    BY DEF Writable
  <2>2. L \in Nat
    BY <1>0, <2>1, LenProperties
  <2>3. b = a + 1 + L
    BY <1>0 DEF Stands
  <2> QED
    BY <1>0, <2>2, <2>3
<1>2. b - d = (a - d) + 1 + L
  BY <1>1
<1>3. r[(a - d) + 1] = Number(w.message)
  <2>1. a + 1 \in 1 .. N /\ a + 1 > d /\ (a + 1) - d = (a - d) + 1
    BY <1>1
  <2>2. r[(a + 1) - d] = q[a + 1]
    BY <1>0, <2>1
  <2> QED
    BY <2>1, <2>2 DEF Stands
<1>4. ASSUME NEW i \in 1 .. L PROVE r[(a - d) + 1 + i] = w.fields[i]
  <2>1. a + 1 + i \in 1 .. N /\ a + 1 + i > d /\ (a + 1 + i) - d = (a - d) + 1 + i
    BY <1>1
  <2>2. r[(a + 1 + i) - d] = q[a + 1 + i]
    BY <1>0, <2>1
  <2>3. q[a + 1 + i] = w.fields[i]
    BY <1>0 DEF Stands
  <2> QED
    BY <2>1, <2>2, <2>3
<1> QED
  BY <1>0, <1>2, <1>3, <1>4 DEF Stands

\* A message that is written comes last.
LEMMA WriteAligns ==
    ASSUME NEW q \in Seq(Token), NEW ms \in Seq(Message), NEW n, Aligned(q, ms, n),
           NEW w \in Message
    PROVE  Aligned(q \o Tokens(w), Append(ms, w), n)
<1>1. PICK p : Cuts(q, ms, n, p)
  BY DEF Aligned
<1>0. PICK L, M, N : L = Len(w.fields) /\ M = Len(ms) /\ N = Len(q)
  OBVIOUS
<1> DEFINE r == q \o Tokens(w)
           new == Append(ms, w)
           g == [k \in n .. M + 1 |-> IF k <= M THEN p[k] ELSE N + 1 + L]
<1>2. /\ w.message \in Nat /\ w.fields \in Seq(Token) /\ L \in Nat
      /\ M \in Nat /\ N \in Nat
  BY <1>0 DEF Message
<1>3. /\ Tokens(w) \in Seq(Token) /\ Len(Tokens(w)) = 1 + L
      /\ Tokens(w)[1] = Number(w.message)
      /\ \A i \in 1 .. L : Tokens(w)[1 + i] = w.fields[i]
  BY <1>0, <1>2, TokenIsTok, TokensProperties
<1>4. /\ Len(r) = N + 1 + L
      /\ \A i \in 1 .. N : r[i] = q[i]
      /\ \A i \in 1 .. 1 + L : r[N + i] = Tokens(w)[i]
  <2> DEFINE t == Tokens(w)
  <2>1. t \in Seq(Token) /\ Len(t) = 1 + L
    BY <1>3
  <2> HIDE DEF t
  <2>2. /\ Len(q \o t) = N + Len(t)
        /\ \A i \in 1 .. N + Len(t) : (q \o t)[i] = IF i <= N THEN q[i] ELSE t[i - N]
    <3>1. /\ Len(q \o t) = Len(q) + Len(t)
          /\ \A i \in 1 .. Len(q) + Len(t) :
               (q \o t)[i] = IF i <= Len(q) THEN q[i] ELSE t[i - Len(q)]
      BY <2>1, ConcatProperties
    <3> QED
      BY <1>0, <3>1
  <2>3. ASSUME NEW i \in 1 .. 1 + L PROVE (q \o t)[N + i] = t[i]
    <3>1. N + i \in 1 .. N + Len(t) /\ ~(N + i <= N) /\ (N + i) - N = i
      BY <1>2, <2>1
    <3> QED
      BY <2>2, <3>1
  <2>4. Len(q \o t) = N + 1 + L
    BY <1>2, <2>1, <2>2
  <2>5. ASSUME NEW i \in 1 .. N PROVE (q \o t)[i] = q[i]
    <3>1. i \in 1 .. N + Len(t) /\ i <= N
      BY <1>2, <2>1
    <3> QED
      BY <2>2, <3>1
  <2> QED
    BY <2>3, <2>4, <2>5 DEF t
<1>5. Len(new) = M + 1 /\ (\A k \in 1 .. M : new[k] = ms[k]) /\ new[M + 1] = w
  BY <1>0, AppendProperties
<1> HIDE DEF new, r
<1>6. /\ n \in 0 .. M /\ n \in Nat
      /\ p \in [n .. M -> 0 .. N] /\ p[n] = 0 /\ p[M] = N
  BY <1>0, <1>1, <1>2 DEF Cuts
<1>7. /\ \A k \in n .. M : g[k] = p[k] /\ p[k] \in 0 .. N
      /\ g[M + 1] = N + 1 + L
  BY <1>2, <1>6
<1>8. g \in [n .. M + 1 -> 0 .. Len(r)]
  <2>1. ASSUME NEW k \in n .. M + 1
        PROVE  (IF k <= M THEN p[k] ELSE N + 1 + L) \in 0 .. Len(r)
    <3>1. CASE k <= M
      <4>1. k \in n .. M
        BY <1>2, <1>6, <3>1
      <4>2. p[k] \in 0 .. N
        BY <1>7, <4>1
      <4> QED
        BY <1>2, <1>4, <3>1, <4>2
    <3>2. CASE ~(k <= M)
      BY <1>2, <1>4, <3>2
    <3> QED
      BY <3>1, <3>2
  <2> QED
    BY <2>1
<1> HIDE DEF g
<1>9. ASSUME NEW j \in n .. M + 1, NEW k \in n .. M + 1, j <= k
      PROVE  g[j] <= g[k]
  <2>1. CASE k <= M
    <3>1. j \in n .. M /\ k \in n .. M
      BY <1>2, <1>6, <1>9, <2>1
    <3>2. p[j] <= p[k]
      BY <1>0, <1>1, <1>9, <3>1 DEF Cuts
    <3> QED
      BY <1>7, <3>1, <3>2
  <2>2. CASE ~(k <= M)
    <3>1. k = M + 1
      BY <1>2, <2>2, <1>6
    <3>2. g[j] \in 0 .. N + 1 + L
      BY <1>4, <1>8
    <3> QED
      BY <1>2, <1>7, <3>1, <3>2
  <2> QED
    BY <2>1, <2>2
<1>10. ASSUME NEW k \in n + 1 .. M + 1
       PROVE  Stands(r, g[k - 1], g[k], new[k])
  <2>1. CASE k <= M
    <3>1. k \in n + 1 .. M /\ k - 1 \in n .. M /\ k \in n .. M /\ k \in 1 .. M
      BY <1>2, <1>6, <2>1
    <3>2. Stands(q, p[k - 1], p[k], ms[k])
      BY <1>0, <1>1, <3>1 DEF Cuts
    <3>3. Writable(ms[k])
      BY <1>0, <3>1, AreWritable
    <3>4. p[k - 1] \in Nat /\ p[k] \in 0 .. N
      BY <1>7, <3>1
    <3>5. ASSUME NEW i \in 1 .. Len(q) PROVE i > 0 => r[i - 0] = q[i]
      <4>1. i \in 1 .. N /\ i - 0 = i
        BY <1>0, <1>2
      <4> QED
        BY <1>4, <4>1
    <3>6. Stands(r, p[k - 1] - 0, p[k] - 0, ms[k])
      <4>1. /\ 0 \in Nat /\ Len(q) \in Nat /\ p[k] <= Len(q)
            /\ p[k - 1] \in Nat /\ p[k - 1] >= 0
        BY <1>0, <1>2, <3>4
      <4> QED
        BY <3>2, <3>3, <3>5, <4>1, StandsStill
    <3>7. p[k - 1] - 0 = p[k - 1] /\ p[k] - 0 = p[k]
      BY <3>4
    <3> QED
      BY <1>5, <1>7, <3>1, <3>6, <3>7
  <2>2. CASE ~(k <= M)
    <3>1. k = M + 1 /\ k - 1 = M /\ M \in n .. M
      BY <1>2, <1>6, <2>2
    <3>2. g[k - 1] = N /\ g[k] = N + 1 + L /\ new[k] = w
      BY <1>5, <1>6, <1>7, <3>1
    <3>3. r[N + 1] = Number(w.message)
      <4>1. 1 \in 1 .. 1 + L
        BY <1>2
      <4> QED
        BY <1>3, <1>4, <4>1
    <3>4. ASSUME NEW i \in 1 .. L PROVE r[N + 1 + i] = w.fields[i]
      <4>1. 1 + i \in 1 .. 1 + L /\ N + (1 + i) = N + 1 + i
        BY <1>2
      <4> QED
        BY <1>3, <1>4, <4>1
    <3> QED
      BY <1>0, <3>2, <3>3, <3>4 DEF Stands
  <2> QED
    BY <2>1, <2>2
<1>11. Cuts(r, new, n, g)
  <2>1. n \in 0 .. Len(new)
    BY <1>2, <1>5, <1>6
  <2>2. g[n] = 0 /\ g[Len(new)] = Len(r)
    <3>1. n \in n .. M
      BY <1>2, <1>6
    <3> QED
      BY <1>4, <1>5, <1>6, <1>7, <3>1
  <2> QED
    BY <1>5, <1>8, <1>9, <1>10, <2>1, <2>2 DEF Cuts
<1> QED
  BY <1>11 DEF Aligned, r, new

\* The message that is read next is the first, and what is left begins with the
\* one after it.
LEMMA ReadAligns ==
    ASSUME NEW q \in Seq(Token), NEW ms \in Seq(Message), NEW n, Aligned(q, ms, n),
           q # <<>>, NEW w, w = ms[n + 1]
    PROVE  /\ n + 1 \in 1 .. Len(ms)
           /\ q[1] = Number(w.message)
           /\ Len(w.fields) + 1 \in 1 .. Len(q)
           /\ \A i \in 1 .. Len(w.fields) : q[i + 1] = w.fields[i]
           /\ Aligned(SubSeq(q, Len(w.fields) + 2, Len(q)), ms, n + 1)
<1>1. PICK p : Cuts(q, ms, n, p)
  BY DEF Aligned
<1>0. PICK L, M, N : L = Len(w.fields) /\ M = Len(ms) /\ N = Len(q)
  OBVIOUS
<1> DEFINE d == L + 1
           r == SubSeq(q, d + 1, N)
           g == [k \in n + 1 .. M |-> p[k] - d]
<1>2. M \in Nat /\ N \in Nat /\ N > 0
  BY <1>0, EmptySeq
<1>3. /\ n \in 0 .. M /\ n \in Nat
      /\ p \in [n .. M -> 0 .. N] /\ p[n] = 0 /\ p[M] = N
  BY <1>0, <1>1, <1>2 DEF Cuts
<1>4. n < M
  BY <1>2, <1>3
<1>5. /\ n + 1 \in 1 .. M /\ n + 1 \in n + 1 .. M /\ (n + 1) - 1 = n
      /\ n + 1 \in n .. M /\ M \in n .. M
  BY <1>2, <1>3, <1>4
<1>6. Writable(w) /\ L \in Nat
  BY <1>0, <1>5, AreWritable
<1>7. Stands(q, p[n], p[n + 1], w)
  BY <1>0, <1>1, <1>5 DEF Cuts
<1>8. p[n + 1] = d /\ d \in 1 .. N /\ d \in Nat
  BY <1>0, <1>2, <1>3, <1>5, <1>6, <1>7 DEF Stands
<1>9. /\ q[1] = Number(w.message)
      /\ \A i \in 1 .. L : q[i + 1] = w.fields[i]
  <2>1. q[0 + 1] = Number(w.message)
    BY <1>3, <1>7 DEF Stands
  <2>2. ASSUME NEW i \in 1 .. L PROVE q[i + 1] = w.fields[i]
    <3>1. q[0 + 1 + i] = w.fields[i]
      BY <1>0, <1>3, <1>7 DEF Stands
    <3>2. 0 + 1 + i = i + 1
      BY <1>6
    <3> QED
      BY <3>1, <3>2
  <2> QED
    BY <2>1, <2>2
<1>10. /\ Len(r) = N - d
       /\ \A i \in 1 .. N - d : r[i] = q[d + i]
  <2> HIDE DEF d
  <2> QED
    BY <1>0, <1>8, Suffix
<1> HIDE DEF d, r
<1>11. \A k \in n + 1 .. M : p[k] \in d .. N
  <2> TAKE k \in n + 1 .. M
  <2>1. k \in n .. M /\ n + 1 <= k
    BY <1>2, <1>3
  <2>2. p[n + 1] <= p[k] /\ p[k] \in 0 .. N
    BY <1>0, <1>1, <1>5, <2>1 DEF Cuts
  <2> QED
    BY <1>2, <1>8, <2>2
<1>12. g \in [n + 1 .. M -> 0 .. Len(r)]
  <2>1. ASSUME NEW k \in n + 1 .. M PROVE p[k] - d \in 0 .. Len(r)
    <3>1. p[k] \in d .. N
      BY <1>11
    <3> QED
      BY <1>2, <1>8, <1>10, <3>1
  <2> QED
    BY <2>1
<1>13. \A k \in n + 1 .. M : g[k] = p[k] - d
  OBVIOUS
<1> HIDE DEF g
<1>14. ASSUME NEW j \in n + 1 .. M, NEW k \in n + 1 .. M, j <= k
       PROVE  g[j] <= g[k]
  <2>1. j \in n .. M /\ k \in n .. M
    BY <1>2, <1>3
  <2>2. p[j] <= p[k]
    BY <1>0, <1>1, <1>14, <2>1 DEF Cuts
  <2>3. p[j] \in d .. N /\ p[k] \in d .. N
    BY <1>11
  <2> QED
    BY <1>2, <1>8, <1>13, <2>2, <2>3
<1>15. ASSUME NEW k \in (n + 1) + 1 .. M
       PROVE  Stands(r, g[k - 1], g[k], ms[k])
  <2>1. k \in n + 1 .. M /\ k - 1 \in n + 1 .. M /\ k \in 1 .. M
    BY <1>2, <1>3
  <2>2. Stands(q, p[k - 1], p[k], ms[k])
    BY <1>0, <1>1, <2>1 DEF Cuts
  <2>3. Writable(ms[k])
    BY <1>0, <2>1, AreWritable
  <2>4. p[k - 1] \in d .. N /\ p[k] \in d .. N
    BY <1>11, <2>1
  <2>5. p[k - 1] \in Nat /\ p[k] <= N /\ p[k - 1] >= d
    BY <1>2, <1>8, <2>4
  <2>6. ASSUME NEW i \in 1 .. N, i > d PROVE r[i - d] = q[i]
    <3>1. i - d \in 1 .. N - d /\ d + (i - d) = i
      BY <1>2, <1>8, <2>6
    <3> QED
      BY <1>10, <3>1
  <2>7. Stands(r, p[k - 1] - d, p[k] - d, ms[k])
    BY <1>0, <1>2, <1>8, <2>2, <2>3, <2>5, <2>6, StandsStill
  <2> QED
    BY <1>13, <2>1, <2>7
<1>16. Cuts(r, ms, n + 1, g)
  <2>1. n + 1 \in 0 .. M
    BY <1>2, <1>5
  <2>2. g[n + 1] = 0
    BY <1>5, <1>8, <1>13
  <2>3. g[M] = Len(r)
    <3>1. M \in n + 1 .. M
      BY <1>2, <1>3, <1>4
    <3> QED
      BY <1>3, <1>10, <1>13, <3>1
  <2> QED
    BY <1>0, <1>12, <1>14, <1>15, <2>1, <2>2, <2>3 DEF Cuts
<1>17. SubSeq(q, Len(w.fields) + 2, Len(q)) = r
  <2>1. L + 2 = d + 1
    BY <1>6 DEF d
  <2> QED
    BY <1>0, <2>1 DEF r
<1> QED
  BY <1>0, <1>5, <1>8, <1>9, <1>16, <1>17 DEF Aligned, d

-----------------------------------------------------------------------------
(***************************************************************************)
(* What looks like a Login on a wire.                                      *)
(***************************************************************************)
\* The fields of w are those after the i-th on the wire.
Reads(q, i, w) ==
    /\ w.message = Login /\ Len(w.fields) = 4 /\ i + 4 <= Len(q)
    /\ \A k \in 1 .. 4 : w.fields[k] = q[i + k]

\* Where the wire looks like a Login that has two texts, there is one of ms.
Framed(q, ms) ==
    \A i \in 1 .. Len(q) :
        /\ IsNumber(q[i]) /\ q[i].number = Login /\ i + 2 <= Len(q)
        /\ ~IsNumber(q[i + 1]) /\ ~IsNumber(q[i + 2])
        => \E j \in 1 .. Len(ms) : Reads(q, i, ms[j])

\* The messages of the greeter: a Login is the one that has fields.
Fits(w) ==
    /\ w \in Message
    /\ w.message # Login => Len(w.fields) = 0
    /\ w.message = Login => /\ Len(w.fields) = 4
                            /\ ~IsNumber(w.fields[1]) /\ ~IsNumber(w.fields[2])
                            /\ ~IsNumber(w.fields[4])

\* Nothing looks like a Login.
LEMMA NothingFramed == \A ms : Framed(<<>>, ms)
  BY DEF Framed

\* Wherever reading goes on, what looks like a Login is one.
LEMMA SuffixFramed ==
    ASSUME NEW q \in Seq(Token), NEW ms, Framed(q, ms), NEW d \in 1 .. Len(q)
    PROVE  Framed(SubSeq(q, d + 1, Len(q)), ms)
<1>0. PICK N : N = Len(q) /\ N \in Nat
  OBVIOUS
<1> DEFINE r == SubSeq(q, d + 1, Len(q))
<1>1. Len(r) = N - d /\ \A i \in 1 .. N - d : r[i] = q[d + i]
  BY <1>0, Suffix
<1> HIDE DEF r
<1>2. d \in Nat /\ d >= 1 /\ d <= N
  BY <1>0
<1>3. ASSUME NEW i \in 1 .. Len(r), IsNumber(r[i]), r[i].number = Login, i + 2 <= Len(r),
             ~IsNumber(r[i + 1]), ~IsNumber(r[i + 2])
      PROVE  \E j \in 1 .. Len(ms) : Reads(r, i, ms[j])
  <2>0. i \in Nat /\ i >= 1 /\ i + 2 <= N - d
    BY <1>0, <1>1, <1>2, <1>3
  <2>1. r[i] = q[d + i] /\ r[i + 1] = q[(d + i) + 1] /\ r[i + 2] = q[(d + i) + 2]
    <3>1. i \in 1 .. N - d /\ i + 1 \in 1 .. N - d /\ i + 2 \in 1 .. N - d
      BY <1>0, <1>2, <2>0
    <3>2. d + (i + 1) = (d + i) + 1 /\ d + (i + 2) = (d + i) + 2
      BY <1>2, <2>0
    <3>3. r[i + 1] = q[d + (i + 1)] /\ r[i + 2] = q[d + (i + 2)]
      BY <1>1, <3>1
    <3> QED
      BY <1>1, <3>1, <3>2, <3>3
  <2>2. d + i \in 1 .. N /\ (d + i) + 2 <= N
    BY <1>0, <1>2, <2>0
  <2>3. PICK j \in 1 .. Len(ms) : Reads(q, d + i, ms[j])
    BY <1>0, <1>3, <2>1, <2>2 DEF Framed
  <2>4. i + 4 <= N - d
    BY <1>0, <1>2, <2>0, <2>3 DEF Reads
  <2>5. ASSUME NEW k \in 1 .. 4 PROVE ms[j].fields[k] = r[i + k]
    <3>1. i + k \in 1 .. N - d /\ d + (i + k) = (d + i) + k
      BY <1>0, <1>2, <2>0, <2>4
    <3>2. r[i + k] = q[d + (i + k)]
      BY <1>1, <3>1
    <3>3. ms[j].fields[k] = q[(d + i) + k]
      BY <2>3 DEF Reads
    <3> QED
      BY <3>1, <3>2, <3>3
  <2> QED
    BY <1>1, <2>3, <2>4, <2>5 DEF Reads
<1> QED
  BY <1>3 DEF Framed, r

\* A message that is written makes nothing else look like a Login: a Login
\* needs two texts after its number, and a message begins with a number.
LEMMA WriteFramed ==
    ASSUME NEW q \in Seq(Token), NEW ms \in Seq(Message), Framed(q, ms), NEW w, Fits(w)
    PROVE  Framed(q \o Tokens(w), Append(ms, w))
<1>0. PICK L, M, N : L = Len(w.fields) /\ M = Len(ms) /\ N = Len(q)
  OBVIOUS
<1> DEFINE r == q \o Tokens(w)
           t == Tokens(w)
           new == Append(ms, w)
<1>1. /\ w.message \in Nat /\ w.fields \in Seq(Token) /\ L \in Nat
      /\ M \in Nat /\ N \in Nat
  BY <1>0 DEF Message, Fits
<1>2. /\ t \in Seq(Token) /\ Len(t) = 1 + L
      /\ t[1] = Number(w.message)
      /\ \A i \in 1 .. L : t[1 + i] = w.fields[i]
  BY <1>0, <1>1, TokenIsTok, TokensProperties
<1> HIDE DEF t
<1>3. /\ Len(r) = N + 1 + L
      /\ \A i \in 1 .. N : r[i] = q[i]
      /\ \A i \in 1 .. 1 + L : r[N + i] = t[i]
  <2>2. /\ Len(q \o t) = N + Len(t)
        /\ \A i \in 1 .. N + Len(t) : (q \o t)[i] = IF i <= N THEN q[i] ELSE t[i - N]
    <3>1. /\ Len(q \o t) = Len(q) + Len(t)
          /\ \A i \in 1 .. Len(q) + Len(t) :
               (q \o t)[i] = IF i <= Len(q) THEN q[i] ELSE t[i - Len(q)]
      BY <1>2, ConcatProperties
    <3> QED
      BY <1>0, <3>1
  <2>3. ASSUME NEW i \in 1 .. 1 + L PROVE (q \o t)[N + i] = t[i]
    <3>1. N + i \in 1 .. N + Len(t) /\ ~(N + i <= N) /\ (N + i) - N = i
      BY <1>1, <1>2
    <3> QED
      BY <2>2, <3>1
  <2>4. Len(q \o t) = N + 1 + L
    BY <1>1, <1>2, <2>2
  <2>5. ASSUME NEW i \in 1 .. N PROVE (q \o t)[i] = q[i]
    <3>1. i \in 1 .. N + Len(t) /\ i <= N
      BY <1>1, <1>2
    <3> QED
      BY <2>2, <3>1
  <2> QED
    BY <2>3, <2>4, <2>5 DEF t
<1>4. Len(new) = M + 1 /\ (\A k \in 1 .. M : new[k] = ms[k]) /\ new[M + 1] = w
  BY <1>0, AppendProperties DEF Fits
<1>5. IsNumber(r[N + 1])
  <2>1. 1 \in 1 .. 1 + L
    BY <1>1
  <2>2. r[N + 1] = t[1]
    BY <1>3, <2>1
  <2> QED
    BY <1>2, <2>2, NumberText
<1> HIDE DEF new, r
<1>6. ASSUME NEW i \in 1 .. Len(r), IsNumber(r[i]), r[i].number = Login, i + 2 <= Len(r),
             ~IsNumber(r[i + 1]), ~IsNumber(r[i + 2])
      PROVE  \E j \in 1 .. Len(new) : Reads(r, i, new[j])
  <2>0. i \in Nat /\ i >= 1 /\ i <= N + 1 + L /\ i + 2 <= N + 1 + L
    BY <1>1, <1>3, <1>6
  <2>1. CASE i + 2 <= N
    <3>1. i \in 1 .. N /\ i + 1 \in 1 .. N /\ i + 2 \in 1 .. N
      BY <1>1, <2>0, <2>1
    <3>2. r[i] = q[i] /\ r[i + 1] = q[i + 1] /\ r[i + 2] = q[i + 2]
      BY <1>3, <3>1
    <3>3. PICK j \in 1 .. Len(ms) : Reads(q, i, ms[j])
      BY <1>0, <1>6, <2>1, <3>1, <3>2 DEF Framed
    <3>4. j \in 1 .. M /\ j \in 1 .. Len(new) /\ new[j] = ms[j]
      BY <1>0, <1>1, <1>4
    <3>5. i + 4 <= N
      BY <1>0, <3>3 DEF Reads
    <3>6. ASSUME NEW k \in 1 .. 4 PROVE ms[j].fields[k] = r[i + k]
      <4>1. i + k \in 1 .. N
        BY <1>1, <2>0, <3>5
      <4>2. r[i + k] = q[i + k]
        BY <1>3, <4>1
      <4>3. ms[j].fields[k] = q[i + k]
        BY <3>3 DEF Reads
      <4> QED
        BY <4>2, <4>3
    <3>7. i + 4 <= Len(r)
      BY <1>1, <1>3, <2>0, <3>5
    <3> QED
      BY <3>3, <3>4, <3>6, <3>7 DEF Reads
  <2>2. CASE i <= N /\ ~(i + 2 <= N)
    <3>1. i + 1 = N + 1 \/ i + 2 = N + 1
      BY <1>1, <2>0, <2>2
    <3> QED
      BY <1>5, <1>6, <3>1
  <2>3. CASE ~(i <= N)
    <3>1. PICK m \in 1 .. 1 + L : i = N + m
      <4>1. i - N \in 1 .. 1 + L /\ i = N + (i - N)
        BY <1>1, <2>0, <2>3
      <4> QED
        BY <4>1
    <3>2. r[i] = t[m]
      BY <1>3, <3>1
    <3>3. L # 0
      BY <1>1, <2>0, <3>1
    <3>4. w.message = Login /\ L = 4
      BY <1>0, <3>3 DEF Fits
    <3>5. m <= 3
      BY <1>1, <2>0, <3>1, <3>4
    <3>6. m = 1
      <4>1. m = 2 => t[m] = w.fields[1]
        <5>1. 1 \in 1 .. L
          BY <3>4
        <5>2. t[1 + 1] = w.fields[1]
          BY <1>2, <5>1
        <5> QED
          BY <5>2
      <4>2. m = 3 => t[m] = w.fields[2]
        <5>1. 2 \in 1 .. L
          BY <3>4
        <5>2. t[1 + 2] = w.fields[2]
          BY <1>2, <5>1
        <5> QED
          BY <5>2
      <4>3. m # 2 /\ m # 3
        BY <1>6, <3>2, <3>4, <4>1, <4>2 DEF Fits
      <4> QED
        BY <3>4, <3>5, <4>3
    <3>7. ASSUME NEW k \in 1 .. 4 PROVE w.fields[k] = r[i + k]
      <4>1. k \in 1 .. L /\ 1 + k \in 1 .. 1 + L /\ N + (1 + k) = i + k
        BY <1>1, <3>1, <3>4, <3>6
      <4>2. t[1 + k] = w.fields[k]
        BY <1>2, <4>1
      <4>3. r[N + (1 + k)] = t[1 + k]
        BY <1>3, <4>1
      <4> QED
        BY <4>1, <4>2, <4>3
    <3>8. i + 4 <= Len(r)
      BY <1>1, <1>3, <3>1, <3>4, <3>6
    <3>9. Reads(r, i, w)
      BY <1>0, <3>4, <3>7, <3>8 DEF Reads
    <3>10. M + 1 \in 1 .. Len(new)
      BY <1>1, <1>4
    <3> QED
      BY <1>4, <3>9, <3>10
  <2> QED
    BY <2>1, <2>2, <2>3
<1> QED
  BY <1>6 DEF Framed, r, new, t

\* A Login that startAuth goes on with was written: what is read of it is whole.
LEMMA UsableIsWritten ==
    ASSUME NEW buffer \in Seq(Token), buffer # <<>>, NEW wire \in Seq(Token),
           NEW ms \in Seq(Message), Framed(buffer \o wire, ms), NEW r,
           Found(Texts, buffer, LoginFields, r), r.message = Login, Usable(r.fields)
    PROVE  \E j \in 1 .. Len(ms) : ms[j] = Written(Login, r.fields)
<1>0. PICK f : f = r.fields
  OBVIOUS
<1> DEFINE q == buffer \o wire
<1>1. Len(LoginFields) = 4 /\ LoginFields[3] = Number(0) /\ LoginFields[4] = Text("")
      /\ LoginFields[1] = Text("") /\ LoginFields[2] = Text("")
  BY DEF LoginFields, UnknownSession
<1>2. /\ f \in Seq(Tok(Texts)) /\ Len(f) = 4
      /\ IsNumber(f[1]) = IsNumber(LoginFields[1])
      /\ IsNumber(f[2]) = IsNumber(LoginFields[2])
      /\ \A i \in 1 .. 4 : f[i] # LoginFields[i] =>
            \A j \in 1 .. i : j + 1 \in 1 .. Len(buffer) /\ f[j] = buffer[j + 1]
  <2> DEFINE blank == LoginFields
  <2>1. blank \in Seq(Tok(Texts)) /\ Len(blank) = 4
    <3>1. Text("") \in Tok(Texts) /\ Number(UnknownSession) \in Tok(Texts)
      BY NumberText DEF Texts, UnknownSession
    <3>2. \A S : \A a, b \in S : <<a, a, b, a>> \in Seq(S) /\ Len(<<a, a, b, a>>) = 4
      OBVIOUS
    <3>3. LoginFields \in Seq(Tok(Texts)) /\ Len(LoginFields) = 4
      BY <3>1, <3>2, Zenon DEF LoginFields
    <3> QED
      BY <3>3
  <2> HIDE DEF blank
  <2>2. /\ f \in Seq(Tok(Texts)) /\ Len(f) = Len(blank)
        /\ \A i \in 1 .. Len(blank) : IsNumber(f[i]) = IsNumber(blank[i])
        /\ \A i \in 1 .. Len(blank) : f[i] # blank[i] =>
              \A j \in 1 .. i : j + 1 \in 1 .. Len(buffer) /\ f[j] = buffer[j + 1]
    <3>1. Found(Texts, buffer, blank, r)
      BY DEF blank
    <3> QED
      BY <1>0, <3>1 DEF Found
  <2>3. /\ \A i \in 1 .. 4 : IsNumber(f[i]) = IsNumber(blank[i])
        /\ \A i \in 1 .. 4 : f[i] # blank[i] =>
              \A j \in 1 .. i : j + 1 \in 1 .. Len(buffer) /\ f[j] = buffer[j + 1]
    BY <2>1, <2>2
  <2>4. 1 \in 1 .. 4 /\ 2 \in 1 .. 4
    OBVIOUS
  <2>5. IsNumber(f[1]) = IsNumber(blank[1]) /\ IsNumber(f[2]) = IsNumber(blank[2])
    BY <2>3, <2>4
  <2>6. f \in Seq(Tok(Texts)) /\ Len(f) = 4
    BY <2>1, <2>2
  <2> QED
    BY <2>3, <2>5, <2>6 DEF blank
<1>3. ~IsNumber(f[1]) /\ ~IsNumber(f[2])
  BY <1>1, <1>2, NumberText
<1>4. f[4].text \in DOMAIN SessionFiles
  BY <1>0 DEF Usable
<1>5. f[4] # LoginFields[4]
  BY <1>1, <1>4, ChannelAssumption, NumberText
<1>6. \A j \in 1 .. 4 : j + 1 \in 1 .. Len(buffer) /\ f[j] = buffer[j + 1]
  <2>1. 4 \in 1 .. 4
    OBVIOUS
  <2> QED
    BY <1>2, <1>5, <2>1
<1>7. IsNumber(buffer[1]) /\ buffer[1].number = Login
  BY DEF Found, Unknown, Login
<1>8. /\ Len(buffer) \in Nat /\ Len(wire) \in Nat
      /\ Len(q) = Len(buffer) + Len(wire)
      /\ \A i \in 1 .. Len(buffer) : q[i] = buffer[i]
  <2>1. /\ Len(q) = Len(buffer) + Len(wire)
        /\ \A i \in 1 .. Len(buffer) + Len(wire) :
             q[i] = IF i <= Len(buffer) THEN buffer[i] ELSE wire[i - Len(buffer)]
    BY ConcatProperties
  <2> HIDE DEF q
  <2> QED
    BY <2>1
<1> HIDE DEF q
<1>9. 1 \in 1 .. Len(buffer) /\ 2 \in 1 .. Len(buffer) /\ 3 \in 1 .. Len(buffer)
  <2>1. 1 + 1 \in 1 .. Len(buffer) /\ 2 + 1 \in 1 .. Len(buffer)
    BY <1>6
  <2> QED
    BY <1>8, <2>1
<1>10. /\ q[1] = buffer[1] /\ q[1 + 1] = buffer[2] /\ q[1 + 2] = buffer[3]
       /\ f[1] = buffer[2] /\ f[2] = buffer[3]
  <2>1. f[1] = buffer[1 + 1] /\ f[2] = buffer[2 + 1]
    BY <1>6
  <2> QED
    BY <1>8, <1>9, <2>1
<1>11. 1 \in 1 .. Len(q) /\ 1 + 2 <= Len(q)
  BY <1>8, <1>9
<1>12. PICK j \in 1 .. Len(ms) : Reads(q, 1, ms[j])
  <2>1. Framed(q, ms)
    BY DEF q
  <2> QED
    BY <1>3, <1>7, <1>10, <1>11, <2>1 DEF Framed
<1>13. PICK w : w = ms[j]
  OBVIOUS
<1>14. w \in Message /\ w.message = Login /\ Len(w.fields) = 4
       /\ \A k \in 1 .. 4 : w.fields[k] = q[1 + k]
  BY <1>12, <1>13, ElementOfSeq DEF Reads
<1>15. ASSUME NEW k \in 1 .. 4 PROVE w.fields[k] = f[k]
  <2>1. k + 1 \in 1 .. Len(buffer) /\ f[k] = buffer[k + 1] /\ k + 1 = 1 + k
    BY <1>6
  <2> QED
    BY <1>8, <1>14, <2>1
<1>16. PICK g : g = w.fields
  OBVIOUS
<1>17. g \in Seq(Token) /\ f \in Seq(Token) /\ Len(g) = Len(f)
       /\ \A k \in 1 .. Len(g) : g[k] = f[k]
  BY <1>2, <1>14, <1>15, <1>16, TokenIsTok DEF Message
<1>18. g = f
  BY <1>17, SeqEqual
<1>19. w = [message |-> Login, fields |-> f]
  BY <1>14, <1>16, <1>18 DEF Message
<1> QED
  BY <1>0, <1>13, <1>19 DEF Written

-----------------------------------------------------------------------------
(***************************************************************************)
(* Types: what is written.                                                 *)
(***************************************************************************)
\* The texts that the daemon sends.
Names == {"", Host}

\* The types, part by part.
WiresTyped ==
    /\ daemonBuffer \in Seq(Token) /\ toDaemon \in Seq(Token)
    /\ greeterBuffer \in Seq(Tok(Names)) /\ toGreeter \in Seq(Tok(Names))

MessagesTyped ==
    /\ handled \in Seq(Message) /\ sent \in Seq(Message)
    /\ heard \in Seq(Message) /\ answers \in Seq(Message)

LoginsTyped == logins \in Seq(Seq(Token))

ActsTyped == acts \in Seq([operation : Operations, backend : {"login1", "ck2", "upower"}])

RestTyped ==
    /\ server \in {"up", "stopping", "gone"}
    /\ pending \in 0..1
    /\ informed \in 0..MaxInformation
    /\ greeter \in {"starting", "running", "ended"}
    /\ views \subseteq Screens
    /\ can \subseteq Operations
    /\ hostName \in Names
    /\ requests \in 0..MaxRequests
    /\ succeeded \in BOOLEAN /\ cut \in BOOLEAN
    /\ link \in {"none", "open", "hungup", "closed"}

\* The inductive invariant for the types.
TypeInv == WiresTyped /\ MessagesTyped /\ LoginsTyped /\ ActsTyped /\ RestTyped

\* What the daemon sends is made of fields.
LEMMA NamesAreTexts == Seq(Tok(Names)) \subseteq Seq(Token)
<1>1. Tok(Names) \subseteq Token
  BY TokenIsTok DEF Tok, Names, Texts
<1> QED
  BY <1>1, SeqMonotonic

\* The types follow.
LEMMA TypeInvImplies == TypeInv => TypeOK
<1> SUFFICES ASSUME TypeInv PROVE TypeOK
  OBVIOUS
<1>1. greeterBuffer \in Seq(Token) /\ toGreeter \in Seq(Token)
  BY NamesAreTexts DEF TypeInv, WiresTyped
<1>2. /\ {daemonBuffer, greeterBuffer, toDaemon, toGreeter} \subseteq Seq(Token)
      /\ {handled, heard, sent, answers} \subseteq Seq(Message)
  BY <1>1 DEF TypeInv, WiresTyped, MessagesTyped
<1> QED
  BY <1>2 DEF TypeInv, LoginsTyped, ActsTyped, RestTyped, Names, TypeOK

\* What is written, and what is recorded of it.
LEMMA WriteTypes ==
    ASSUME NEW T, NEW q \in Seq(Tok(T)), NEW w, w.message \in Nat, w.fields \in Seq(Tok(T))
    PROVE  Write(q, w) \in Seq(Tok(T))
<1>1. Tokens(w) \in Seq(Tok(T))
  BY TokensProperties
<1>2. q \o Tokens(w) \in Seq(Tok(T))
  <2> DEFINE t == Tokens(w)
  <2>1. t \in Seq(Tok(T))
    BY <1>1
  <2> HIDE DEF t
  <2>2. q \o t \in Seq(Tok(T))
    BY <2>1, ConcatProperties
  <2> QED
    BY <2>2 DEF t
<1> QED
  BY <1>2 DEF Write

\* The messages that were written.
LEMMA LogTypes ==
    ASSUME NEW S, NEW ms \in Seq(S), NEW w \in S
    PROVE  Log(ms, w) \in Seq(S)
<1>1. Append(ms, w) \in Seq(S)
  BY AppendProperties
<1> QED
  BY <1>1 DEF Log

\* A message and its parts.
LEMMA WrittenTypes ==
    ASSUME NEW m \in Nat, NEW f, f \in Seq(Token)
    PROVE  /\ Written(m, f) \in Message
           /\ Written(m, f).message = m /\ Written(m, f).fields = f
BY DEF Written, Message

\* A sequence of one field.
LEMMA OneField ==
    ASSUME NEW S, NEW a \in S
    PROVE  <<a>> \in Seq(S) /\ Len(<<a>>) = 1 /\ <<a>>[1] = a
OBVIOUS

\* A sequence of four fields,
LEMMA FourFields ==
    ASSUME NEW S, NEW a \in S, NEW b \in S, NEW c \in S, NEW d \in S
    PROVE  <<a, b, c, d>> \in Seq(S) /\ Len(<<a, b, c, d>>) = 4
OBVIOUS

\* and one of none.
LEMMA NoField == \A S : <<>> \in Seq(S)
OBVIOUS

\* What the greeter writes.
LEMMA PlainFits == ASSUME NEW m \in Nat, m # Login PROVE Fits(Written(m, <<>>))
<1>1. PICK w : w = Written(m, <<>>)
  OBVIOUS
<1>2. w \in Message /\ w.message = m /\ w.fields = <<>>
  BY <1>1, NoField, WrittenTypes
<1>3. Fits(w)
  BY <1>2 DEF Fits
<1> QED
  BY <1>1, <1>3

\* Connect,
LEMMA ConnectFits == Fits(Written(Connect, <<>>))
BY PlainFits DEF Connect, Login

\* the operations of the power manager,
LEMMA RequestFits == ASSUME NEW op \in Operations PROVE Fits(Written(op, <<>>))
BY PlainFits, PowerAssumption DEF Login, PowerOff, HybridSleep

\* the types of sessions,
LEMMA SessionNumber ==
    ASSUME NEW s \in DOMAIN SessionFiles \union {""}
    PROVE  (IF s = "" THEN UnknownSession ELSE SessionFiles[s]) \in Nat
<1>1. UnknownSession \in Nat /\ X11Session \in Nat /\ WaylandSession \in Nat
  BY DEF UnknownSession, X11Session, WaylandSession
<1>2. s # "" => SessionFiles[s] \in {X11Session, WaylandSession}
  BY ChannelAssumption
<1> QED
  BY <1>1, <1>2, Zenon

\* and a Login.
LEMMA LoginFits ==
    ASSUME NEW p \in Passwords, NEW s \in DOMAIN SessionFiles \union {""}
    PROVE  Fits(Written(Login,
              <<Text(User), Text(p),
                Number(IF s = "" THEN UnknownSession ELSE SessionFiles[s]), Text(s)>>))
<1> DEFINE n == IF s = "" THEN UnknownSession ELSE SessionFiles[s]
           f == <<Text(User), Text(p), Number(n), Text(s)>>
<1>1. n \in Nat
  BY SessionNumber
<1> HIDE DEF n
<1>2. Text(User) \in Token /\ Text(p) \in Token /\ Number(n) \in Token /\ Text(s) \in Token
  BY <1>1, NumberText, TokenIsTok DEF Texts
<1>3. /\ f \in Seq(Token) /\ Len(f) = 4
      /\ f[1] = Text(User) /\ f[2] = Text(p) /\ f[4] = Text(s)
  <2>1. f \in Seq(Token) /\ Len(f) = 4
    BY <1>2, FourFields
  <2>2. f[1] = Text(User) /\ f[2] = Text(p) /\ f[4] = Text(s)
    OBVIOUS
  <2> QED
    BY <2>1, <2>2
<1>4. ~IsNumber(f[1]) /\ ~IsNumber(f[2]) /\ ~IsNumber(f[4])
  BY <1>3, NumberText
<1> HIDE DEF f
<1>5. Login \in Nat
  BY DEF Login
<1>6. Fits(Written(Login, f))
  <2>1. PICK w : w = Written(Login, f)
    OBVIOUS
  <2>2. w \in Message /\ w.message = Login /\ w.fields = f
    BY <1>3, <1>5, <2>1, WrittenTypes
  <2> QED
    BY <1>3, <1>4, <2>1, <2>2 DEF Fits
<1> QED
  BY <1>6 DEF f, n

-----------------------------------------------------------------------------
(***************************************************************************)
(* Types: what is read and done.                                           *)
(***************************************************************************)
\* What SocketServer::readyRead finds, in one turn of its loop.
DaemonRead == ReadMessage(daemonBuffer, DaemonFields(NextMessage(daemonBuffer)))

\* The blank fields of the daemon.
LEMMA DaemonFieldsTyped ==
    ASSUME NEW m
    PROVE  /\ DaemonFields(m) \in Seq(Tok(Texts))
           /\ m # Login => DaemonFields(m) = <<>>
           /\ m = Login => DaemonFields(m) = LoginFields
<1>1. Text("") \in Tok(Texts) /\ Number(UnknownSession) \in Tok(Texts)
  BY NumberText DEF Texts, UnknownSession
<1>2. LoginFields \in Seq(Tok(Texts))
  BY <1>1, FourFields DEF LoginFields
<1> QED
  BY <1>2, NoField DEF DaemonFields

\* The message is the one that chooses the handler.
LEMMA ReadIsNext == \A q, blank : ReadMessage(q, blank).message = NextMessage(q)
BY DEF ReadMessage

\* It is a message of the right form.
LEMMA DaemonTurn ==
    ASSUME WiresTyped, daemonBuffer # <<>>, NEW r, r = DaemonRead
    PROVE  /\ Found(Texts, daemonBuffer, DaemonFields(r.message), r)
           /\ Left(daemonBuffer, DaemonFields(r.message), r)
           /\ Plain(r) \in Message
           /\ Plain(r).message = r.message /\ Plain(r).fields = r.fields
<1> DEFINE blank == DaemonFields(NextMessage(daemonBuffer))
<1>1. daemonBuffer \in Seq(Tok(Texts)) /\ blank \in Seq(Tok(Texts))
  BY TokenIsTok, DaemonFieldsTyped DEF WiresTyped
<1>2. r.message = NextMessage(daemonBuffer)
  BY ReadIsNext DEF DaemonRead
<1>3. Found(Texts, daemonBuffer, blank, r) /\ Left(daemonBuffer, blank, r)
  <2>1. r = ReadMessage(daemonBuffer, blank)
    BY DEF DaemonRead
  <2> HIDE DEF blank
  <2> QED
    BY <1>1, <2>1, ReadFinds, ReadLeaves
<1>4. r.message \in Nat /\ r.fields \in Seq(Token)
  BY <1>3, TokenIsTok DEF Found
<1> QED
  BY <1>2, <1>3, <1>4 DEF Plain, Message

\* What GreeterProxy::readyRead finds.
GreeterRead == ReadMessage(greeterBuffer, GreeterFields(NextMessage(greeterBuffer)))

\* The blank fields of the greeter.
LEMMA GreeterFieldsTyped ==
    ASSUME NEW m
    PROVE  /\ GreeterFields(m) \in Seq(Tok(Names))
           /\ m = CapabilitiesMessage =>
                Len(GreeterFields(m)) = 1 /\ GreeterFields(m)[1] = Number(0)
           /\ m \in {HostName, InformationMessage} =>
                Len(GreeterFields(m)) = 1 /\ GreeterFields(m)[1] = Text("")
           /\ m \notin {HostName, InformationMessage, CapabilitiesMessage} =>
                GreeterFields(m) = <<>>
<1>1. Text("") \in Tok(Names) /\ Number(0) \in Tok(Names)
  BY NumberText DEF Names
<1>2. /\ m = CapabilitiesMessage => GreeterFields(m) = <<Number(0)>>
      /\ m \in {HostName, InformationMessage} => GreeterFields(m) = <<Text("")>>
      /\ m \notin {HostName, InformationMessage, CapabilitiesMessage} =>
           GreeterFields(m) = <<>>
  <2>1. CapabilitiesMessage \notin {HostName, InformationMessage}
    BY DEF CapabilitiesMessage, HostName, InformationMessage
  <2>2. CASE m = CapabilitiesMessage
    BY <2>1, <2>2 DEF GreeterFields
  <2>3. CASE m \in {HostName, InformationMessage}
    BY <2>1, <2>3 DEF GreeterFields
  <2>4. CASE m \notin {HostName, InformationMessage, CapabilitiesMessage}
    BY <2>4 DEF GreeterFields
  <2> QED
    BY <2>1, <2>2, <2>3, <2>4
<1>3. CASE m = CapabilitiesMessage
  <2>1. m \notin {HostName, InformationMessage}
    BY <1>3 DEF CapabilitiesMessage, HostName, InformationMessage
  <2> QED
    BY <1>1, <1>2, <1>3, <2>1, OneField
<1>4. CASE m \in {HostName, InformationMessage}
  <2>1. m # CapabilitiesMessage
    BY <1>4 DEF CapabilitiesMessage, HostName, InformationMessage
  <2> QED
    BY <1>1, <1>2, <1>4, <2>1, OneField
<1>5. CASE m \notin {HostName, InformationMessage, CapabilitiesMessage}
  BY <1>2, <1>5, NoField
<1> QED
  BY <1>3, <1>4, <1>5

\* It is a message of the right form, of the texts of the daemon.
LEMMA GreeterTurn ==
    ASSUME WiresTyped, greeterBuffer # <<>>, NEW r, r = GreeterRead
    PROVE  /\ Found(Names, greeterBuffer, GreeterFields(r.message), r)
           /\ Left(greeterBuffer, GreeterFields(r.message), r)
           /\ Plain(r) \in Message
           /\ Plain(r).message = r.message /\ Plain(r).fields = r.fields
<1> DEFINE blank == GreeterFields(NextMessage(greeterBuffer))
<1>1. greeterBuffer \in Seq(Tok(Names)) /\ blank \in Seq(Tok(Names))
  BY GreeterFieldsTyped DEF WiresTyped
<1>2. r.message = NextMessage(greeterBuffer)
  BY ReadIsNext DEF GreeterRead
<1>3. Found(Names, greeterBuffer, blank, r) /\ Left(greeterBuffer, blank, r)
  <2>1. r = ReadMessage(greeterBuffer, blank)
    BY DEF GreeterRead
  <2> HIDE DEF blank
  <2> QED
    BY <1>1, <2>1, ReadFinds, ReadLeaves
<1>4. r.message \in Nat /\ r.fields \in Seq(Token)
  BY <1>3, NamesAreTexts DEF Found
<1> QED
  BY <1>2, <1>3, <1>4 DEF Plain, Message

\* What the daemon writes.
LEMMA FlagsAreNat == \A ops : Flags(ops) \in Nat
<1>1. ASSUME NEW ops, NEW op \in {PowerOff, Reboot, Suspend, Hibernate, HybridSleep}
      PROVE  (IF op \in ops THEN Capability(op) ELSE 0) \in Nat
  BY DEF Capability, PowerOff, Reboot, Suspend, Hibernate, HybridSleep
<1>2. \A a, b, c, d, e \in Nat : a + b + c + d + e \in Nat
  OBVIOUS
<1> QED
  BY <1>1, <1>2 DEF Flags

\* The fields of CapabilitiesMessage,
LEMMA OfferTypes ==
    ASSUME NEW n \in Nat
    PROVE  <<Number(n)>> \in Seq(Tok(Names)) /\ Len(<<Number(n)>>) = 1
           /\ <<Number(n)>>[1] = Number(n)
BY OneField, NumberText

\* and of HostName.
LEMMA NameTypes ==
    /\ <<Text(Host)>> \in Seq(Tok(Names)) /\ Len(<<Text(Host)>>) = 1
    /\ <<Text(Host)>>[1] = Text(Host)
<1>1. Text(Host) \in Tok(Names)
  BY NumberText DEF Names
<1> QED
  BY <1>1, OneField

\* Of the back ends that have an operation one is the first.
LEMMA ActIsOne ==
    ASSUME NEW op, NEW allowed \in Answers, Able(op, allowed) # {}
    PROVE  [operation |-> op, backend |-> Backends[Min(Able(op, allowed))]]
             \in [operation : Operations, backend : {"login1", "ck2", "upower"}]
<1> DEFINE able == Able(op, allowed)
<1>1. able \subseteq 1 .. Len(Backends) /\ Len(Backends) \in Nat
  BY PowerAssumption DEF Able
<1>2. op \in Operations
  <2>1. PICK i \in 1 .. Len(Backends) : op \in BackendCapabilities(i, allowed)
    BY DEF Able
  <2>2. allowed[i] \subseteq Operations
    BY DEF Answers
  <2> QED
    BY <2>1, <2>2 DEF BackendCapabilities
<1>3. able # {}
  OBVIOUS
<1> HIDE DEF able
<1>4. \E k \in able : \A j \in able : k <= j
  <2>1. able \subseteq Nat
    BY <1>1
  <2> QED
    BY <1>3, <2>1, Least
<1>5. Min(able) \in able
  BY <1>4 DEF Min
<1>6. Backends[Min(able)] \in {"login1", "ck2", "upower"}
  BY <1>1, <1>5, PowerAssumption, ElementOfSeq
<1> QED
  BY <1>2, <1>6 DEF able

\* What is done keeps its type.
LEMMA PerformTypes ==
    ASSUME NEW op, NEW allowed \in Answers, Perform(op, allowed), ActsTyped
    PROVE  ActsTyped'
<1>1. CASE Able(op, allowed) = {}
  BY <1>1 DEF Perform, ActsTyped
<1>2. CASE Able(op, allowed) # {}
  <2>1. acts' = Append(acts,
                  [operation |-> op, backend |-> Backends[Min(Able(op, allowed))]])
    BY <1>2 DEF Perform
  <2> QED
    BY <1>2, <2>1, ActIsOne, AppendProperties DEF ActsTyped
<1> QED
  BY <1>1, <1>2

-----------------------------------------------------------------------------
(***************************************************************************)
(* Types: the greeter.                                                     *)
(***************************************************************************)
\* The greeter says w: what ProxyLogin and ProxyPower have in common.
Says(w) ==
    /\ Idle /\ greeter = "running"
    /\ Fits(w) /\ Send(w)
    /\ requests < MaxRequests /\ requests' = requests + 1
    /\ UNCHANGED <<acts, daemonVars, greeter, can, hostName, greeterBuffer,
                   heard, succeeded, views, link, toGreeter, answers, cut>>

\* They have.
LEMMA ProxySays == ASSUME ProxyLogin \/ ProxyPower, RestTyped PROVE \E w : Says(w)
<1>1. ASSUME ProxyLogin PROVE \E w : Says(w)
  <2>1. PICK p \in Passwords, s \in DOMAIN SessionFiles \union {""} :
          Send(Written(Login,
            <<Text(User), Text(p),
              Number(IF s = "" THEN UnknownSession ELSE SessionFiles[s]), Text(s)>>))
    BY <1>1 DEF ProxyLogin
  <2>2. PICK w : w = Written(Login,
            <<Text(User), Text(p),
              Number(IF s = "" THEN UnknownSession ELSE SessionFiles[s]), Text(s)>>)
    OBVIOUS
  <2>3. Fits(w) /\ Send(w)
    BY <2>1, <2>2, LoginFits
  <2>4. Says(w)
    BY <1>1, <2>3 DEF ProxyLogin, Says
  <2> QED
    BY <2>4
<1>2. ASSUME ProxyPower PROVE \E w : Says(w)
  <2>1. PICK op \in can : Send(Written(op, <<>>))
    BY <1>2 DEF ProxyPower
  <2>2. PICK w : w = Written(op, <<>>)
    OBVIOUS
  <2>3. Fits(w) /\ Send(w)
    <3>1. op \in Operations
      BY DEF RestTyped
    <3> QED
      BY <2>1, <2>2, <3>1, RequestFits
  <2>4. Says(w)
    BY <1>2, <2>3 DEF ProxyPower, Says
  <2> QED
    BY <2>4
<1> QED
  BY <1>1, <1>2

\* A part of what is on the way.
LEMMA DeliverableIsPart ==
    ASSUME NEW S, NEW wire \in Seq(S), NEW n \in Deliverable(wire)
    PROVE  n \in 1 .. Len(wire)
<1>1. Len(wire) \in Nat
  OBVIOUS
<1> QED
  BY <1>1 DEF Deliverable

\* The types at first,
LEMMA InitTyped == Init => TypeInv
<1> SUFFICES ASSUME Init PROVE TypeInv
  OBVIOUS
<1>1. WiresTyped /\ MessagesTyped /\ LoginsTyped /\ ActsTyped
  BY NoField DEF Init, WiresTyped, MessagesTyped, LoginsTyped, ActsTyped
<1>2. RestTyped
  <2>0. MaxRequests \in Nat /\ MaxInformation \in Nat
    BY ChannelAssumption
  <2>1. 0 \in 0..MaxInformation /\ 0 \in 0..MaxRequests /\ 0 \in 0..1
    BY <2>0
  <2>2. pending \in 0..1 /\ informed \in 0..MaxInformation /\ requests \in 0..MaxRequests
    BY <2>1 DEF Init
  <2> QED
    BY <2>2 DEF Init, RestTyped, Names
<1> QED
  BY <1>1, <1>2 DEF TypeInv

\* when the greeter asks for something,
LEMMA SaysTyped == ASSUME TypeInv, NEW w, Says(w) PROVE TypeInv'
<1> USE DEF TypeInv
<1>1. w \in Message /\ w.message \in Nat /\ w.fields \in Seq(Token)
  BY DEF Says, Fits, Message
<1>2. toDaemon' \in Seq(Token)
  <2>1. toDaemon' = Write(toDaemon, w)
    BY DEF Says, Send
  <2> QED
    BY <1>1, <2>1, TokenIsTok, WriteTypes DEF WiresTyped
<1>3. sent' \in Seq(Message)
  <2>1. sent' = Log(sent, w)
    BY DEF Says, Send
  <2> QED
    BY <1>1, <2>1, LogTypes DEF MessagesTyped
<1>4. WiresTyped' /\ MessagesTyped' /\ LoginsTyped' /\ ActsTyped'
  BY <1>2, <1>3 DEF Says, WiresTyped, MessagesTyped, LoginsTyped, ActsTyped, daemonVars
<1>5. requests' \in 0..MaxRequests
  <2>1. requests \in 0..MaxRequests /\ requests < MaxRequests /\ requests' = requests + 1
    BY DEF Says, RestTyped
  <2>2. MaxRequests \in Nat
    BY ChannelAssumption
  <2> QED
    BY <2>1, <2>2
<1>6. RestTyped'
  BY <1>5 DEF Says, RestTyped, daemonVars
<1> QED
  BY <1>4, <1>6

\* when it starts,
LEMMA StartupTyped == ASSUME TypeInv, Startup PROVE TypeInv'
<1> USE DEF TypeInv
<1>1. PICK w : w = Written(Connect, <<>>)
  OBVIOUS
<1>2. w \in Message /\ w.message \in Nat /\ w.fields \in Seq(Token)
  BY <1>1, ConnectFits DEF Fits, Message
<1>3. Tokens(w) \in Seq(Token)
  BY <1>2, TokensProperties, TokenIsTok
<1>4. <<w>> \in Seq(Message)
  BY <1>2, OneField
<1>5. toDaemon' \in Seq(Token) /\ sent' \in Seq(Message)
  BY <1>1, <1>3, <1>4 DEF Startup, WiresTyped, MessagesTyped
<1>6. WiresTyped' /\ MessagesTyped' /\ LoginsTyped' /\ ActsTyped'
  BY <1>5 DEF Startup, WiresTyped, MessagesTyped, LoginsTyped, ActsTyped, daemonVars
<1>7. RestTyped'
  BY DEF Startup, RestTyped, daemonVars
<1> QED
  BY <1>6, <1>7

\* when the daemon receives,
LEMMA DeliverToDaemonTyped == ASSUME TypeInv, DeliverToDaemon PROVE TypeInv'
<1> USE DEF TypeInv
<1>1. PICK n \in 1 .. Len(toDaemon) :
        /\ daemonBuffer' = SubSeq(toDaemon, 1, n)
        /\ toDaemon' = SubSeq(toDaemon, n + 1, Len(toDaemon))
  BY DeliverableIsPart DEF DeliverToDaemon, WiresTyped
<1>2. daemonBuffer' \in Seq(Token) /\ toDaemon' \in Seq(Token)
  BY <1>1, Delivered DEF WiresTyped
<1>3. WiresTyped' /\ MessagesTyped' /\ LoginsTyped' /\ ActsTyped'
  BY <1>2 DEF DeliverToDaemon, WiresTyped, MessagesTyped, LoginsTyped, ActsTyped, greeterVars
<1>4. RestTyped'
  BY DEF DeliverToDaemon, RestTyped, greeterVars
<1> QED
  BY <1>3, <1>4

\* when the greeter receives.
LEMMA DeliverToGreeterTyped == ASSUME TypeInv, DeliverToGreeter PROVE TypeInv'
<1> USE DEF TypeInv
<1>1. PICK n \in 1 .. Len(toGreeter) :
        /\ greeterBuffer' = SubSeq(toGreeter, 1, n)
        /\ toGreeter' = SubSeq(toGreeter, n + 1, Len(toGreeter))
  BY DeliverableIsPart DEF DeliverToGreeter, WiresTyped
<1>2. greeterBuffer' \in Seq(Tok(Names)) /\ toGreeter' \in Seq(Tok(Names))
  BY <1>1, Delivered DEF WiresTyped
<1>3. WiresTyped' /\ MessagesTyped' /\ LoginsTyped' /\ ActsTyped'
  BY <1>2 DEF DeliverToGreeter, WiresTyped, MessagesTyped, LoginsTyped, ActsTyped, daemonVars
<1>4. RestTyped'
  BY DEF DeliverToGreeter, RestTyped, daemonVars
<1> QED
  BY <1>3, <1>4

-----------------------------------------------------------------------------
(***************************************************************************)
(* Types: the daemon, and the rest.                                        *)
(***************************************************************************)
\* The answer to Connect.
LEMMA WelcomeTypes ==
    ASSUME WiresTyped, MessagesTyped, NEW allowed, Welcome(allowed)
    PROVE  toGreeter' \in Seq(Tok(Names)) /\ answers' \in Seq(Message)
<1>1. PICK n : n = Flags(Capabilities(allowed))
  OBVIOUS
<1>2. n \in Nat
  BY <1>1, FlagsAreNat
<1>3. PICK offer, name : /\ offer = Written(CapabilitiesMessage, <<Number(n)>>)
                         /\ name = Written(HostName, <<Text(Host)>>)
  OBVIOUS
<1>4. /\ <<Number(n)>> \in Seq(Tok(Names)) /\ <<Number(n)>> \in Seq(Token)
      /\ <<Text(Host)>> \in Seq(Tok(Names)) /\ <<Text(Host)>> \in Seq(Token)
  BY <1>2, OfferTypes, NameTypes, NamesAreTexts
<1>5. CapabilitiesMessage \in Nat /\ HostName \in Nat
  BY DEF CapabilitiesMessage, HostName
<1>6. /\ offer \in Message /\ offer.message \in Nat /\ offer.fields \in Seq(Tok(Names))
      /\ name \in Message /\ name.message \in Nat /\ name.fields \in Seq(Tok(Names))
  BY <1>3, <1>4, <1>5, WrittenTypes
<1>7. toGreeter' = Write(Write(toGreeter, offer), name) /\ answers' = Log(Log(answers, offer), name)
  BY <1>1, <1>3 DEF Welcome
<1>8. Write(toGreeter, offer) \in Seq(Tok(Names)) /\ Log(answers, offer) \in Seq(Message)
  BY <1>6, WriteTypes, LogTypes DEF WiresTyped, MessagesTyped
<1> QED
  BY <1>6, <1>7, <1>8, WriteTypes, LogTypes

\* Any other answer.
LEMMA AnswerTypes ==
    ASSUME WiresTyped, MessagesTyped, NEW w, Answer(w), w.message \in Nat,
           w.fields \in Seq(Tok(Names)), w \in Message
    PROVE  toGreeter' \in Seq(Tok(Names)) /\ answers' \in Seq(Message)
BY WriteTypes, LogTypes DEF Answer, WiresTyped, MessagesTyped

\* The types when Display answers,
LEMMA DisplayAnswersTyped == ASSUME TypeInv, DisplayAnswers PROVE TypeInv'
<1> USE DEF TypeInv
<1>1. PICK w : /\ Answer(w) /\ w \in Message /\ w.message \in Nat
               /\ w.fields \in Seq(Tok(Names))
  <2>1. LoginSucceeded \in Nat /\ LoginFailed \in Nat /\ InformationMessage \in Nat
    BY DEF LoginSucceeded, LoginFailed, InformationMessage
  <2>2. <<>> \in Seq(Tok(Names)) /\ <<>> \in Seq(Token)
        /\ <<Text(Host)>> \in Seq(Tok(Names)) /\ <<Text(Host)>> \in Seq(Token)
    BY NoField, NameTypes, NamesAreTexts
  <2>3. CASE \E m \in {LoginSucceeded, LoginFailed} : Answer(Written(m, <<>>))
    BY <2>1, <2>2, <2>3, WrittenTypes
  <2>4. CASE Answer(Written(InformationMessage, <<Text(Host)>>))
    <3>1. PICK w : w = Written(InformationMessage, <<Text(Host)>>)
      OBVIOUS
    <3>2. w \in Message /\ w.message \in Nat /\ w.fields \in Seq(Tok(Names))
      BY <2>1, <2>2, <3>1, WrittenTypes
    <3> QED
      BY <2>4, <3>1, <3>2
  <2> QED
    BY <2>3, <2>4 DEF DisplayAnswers
<1>2. toGreeter' \in Seq(Tok(Names)) /\ answers' \in Seq(Message)
  BY <1>1, AnswerTypes
<1>3. WiresTyped' /\ MessagesTyped' /\ LoginsTyped' /\ ActsTyped'
  BY <1>2 DEF DisplayAnswers, WiresTyped, MessagesTyped, LoginsTyped, ActsTyped, greeterVars
<1>4. pending' \in 0..1 /\ informed' \in 0..MaxInformation
  <2>1. /\ pending \in 0..1 /\ informed \in 0..MaxInformation /\ pending > 0
        /\ \/ pending' = pending - 1 /\ informed' = informed
           \/ informed < MaxInformation /\ informed' = informed + 1 /\ pending' = pending
    BY DEF DisplayAnswers, RestTyped
  <2>2. MaxInformation \in Nat
    BY ChannelAssumption
  <2> QED
    BY <2>1, <2>2
<1>5. RestTyped'
  BY <1>4 DEF DisplayAnswers, RestTyped, greeterVars
<1> QED
  BY <1>3, <1>5

\* when the daemon reads,
LEMMA DaemonReadsTyped == ASSUME TypeInv, DaemonReads PROVE TypeInv'
<1> USE DEF TypeInv
<1>1. PICK r : r = DaemonRead
  OBVIOUS
<1>2. /\ daemonBuffer # <<>> /\ HandleMessage(r.message, r.fields)
      /\ handled' = Append(handled, Plain(r))
      /\ daemonBuffer' = r.rest
      /\ cut' = (cut \/ ~r.whole)
      /\ UNCHANGED <<server, informed, greeterVars, link, toDaemon, sent>>
  BY <1>1 DEF DaemonReads, DaemonRead
<1>3. /\ Found(Texts, daemonBuffer, DaemonFields(r.message), r)
      /\ Left(daemonBuffer, DaemonFields(r.message), r)
      /\ Plain(r) \in Message
  BY <1>1, <1>2, DaemonTurn
<1>4. r.message \in Nat /\ r.fields \in Seq(Token)
  BY <1>3, TokenIsTok DEF Found
<1>5. daemonBuffer' \in Seq(Token) /\ cut' \in BOOLEAN
  <2>1. PICK k \in 1 .. Len(daemonBuffer) : r.rest = SubSeq(daemonBuffer, k + 1, Len(daemonBuffer))
    BY <1>3 DEF Left
  <2> QED
    BY <1>2, <1>3, <2>1, Suffix DEF WiresTyped, Left, RestTyped
<1>6. handled' \in Seq(Message)
  BY <1>2, <1>3, AppendProperties DEF MessagesTyped
<1>7. /\ LoginsTyped' /\ ActsTyped' /\ pending' \in 0..1
      /\ toGreeter' \in Seq(Tok(Names)) /\ answers' \in Seq(Message)
  <2>1. CASE /\ \E allowed \in Answers : Welcome(allowed)
             /\ UNCHANGED <<logins, pending, acts>>
    BY <2>1, WelcomeTypes DEF LoginsTyped, ActsTyped, RestTyped
  <2>2. CASE StartAuth(r.fields) /\ UNCHANGED <<acts, toGreeter, answers>>
    <3>1. CASE UNCHANGED <<logins, pending>>
      BY <2>2, <3>1 DEF LoginsTyped, ActsTyped, RestTyped, WiresTyped, MessagesTyped
    <3>2. CASE pending = 0 /\ logins' = Append(logins, r.fields) /\ pending' = pending + 1
      <4>1. logins' \in Seq(Seq(Token))
        BY <1>4, <3>2, AppendProperties DEF LoginsTyped
      <4>2. pending' \in 0..1
        BY <3>2
      <4> QED
        BY <2>2, <4>1, <4>2 DEF LoginsTyped, ActsTyped, WiresTyped, MessagesTyped
    <3> QED
      BY <2>2, <3>1, <3>2 DEF StartAuth
  <2>3. CASE /\ \E allowed \in Answers : Perform(r.message, allowed)
             /\ UNCHANGED <<logins, pending, toGreeter, answers>>
    BY <2>3, PerformTypes DEF LoginsTyped, RestTyped, WiresTyped, MessagesTyped
  <2>4. CASE UNCHANGED <<logins, pending, acts, toGreeter, answers>>
    BY <2>4 DEF LoginsTyped, ActsTyped, RestTyped, WiresTyped, MessagesTyped
  <2> QED
    BY <1>2, <2>1, <2>2, <2>3, <2>4 DEF HandleMessage
<1>8. WiresTyped' /\ MessagesTyped'
  BY <1>2, <1>5, <1>6, <1>7 DEF WiresTyped, MessagesTyped, greeterVars
<1>9. RestTyped'
  BY <1>2, <1>5, <1>7 DEF RestTyped, greeterVars
<1> QED
  BY <1>7, <1>8, <1>9

\* when the greeter reads.
LEMMA GreeterReadsTyped == ASSUME TypeInv, GreeterReads PROVE TypeInv'
<1> USE DEF TypeInv
<1>1. PICK r : r = GreeterRead
  OBVIOUS
<1>2. /\ greeterBuffer # <<>> /\ Hear(r.message, r.fields)
      /\ heard' = Append(heard, Plain(r))
      /\ greeterBuffer' = r.rest
      /\ cut' = (cut \/ ~r.whole)
      /\ HangUp(greeter' = "ended")
      /\ UNCHANGED <<acts, daemonVars, requests, toDaemon, toGreeter, sent, answers>>
  BY <1>1 DEF GreeterReads, GreeterRead
<1>3. /\ Found(Names, greeterBuffer, GreeterFields(r.message), r)
      /\ Left(greeterBuffer, GreeterFields(r.message), r)
      /\ Plain(r) \in Message
  BY <1>1, <1>2, GreeterTurn
<1>4. greeterBuffer' \in Seq(Tok(Names)) /\ cut' \in BOOLEAN
  <2>1. PICK k \in 1 .. Len(greeterBuffer) :
          r.rest = SubSeq(greeterBuffer, k + 1, Len(greeterBuffer))
    BY <1>3 DEF Left
  <2> QED
    BY <1>2, <1>3, <2>1, Suffix DEF WiresTyped, Left, RestTyped
<1>5. heard' \in Seq(Message)
  BY <1>2, <1>3, AppendProperties DEF MessagesTyped
<1>6. /\ hostName' \in Names /\ can' \subseteq Operations /\ views' \subseteq Screens
      /\ succeeded' \in BOOLEAN /\ greeter' \in {"starting", "running", "ended"}
  <2>1. CASE r.message = CapabilitiesMessage /\ can' = FlagsOf(r.fields[1].number)
             /\ UNCHANGED <<hostName, views, succeeded, greeter>>
    BY <2>1 DEF FlagsOf, RestTyped
  <2>2. CASE r.message = HostName /\ hostName' = r.fields[1].text
             /\ UNCHANGED <<can, views, succeeded, greeter>>
    <3>1. PICK f, blank : f = r.fields /\ blank = GreeterFields(r.message)
      OBVIOUS
    <3>2. Len(blank) = 1 /\ blank[1] = Text("")
      BY <2>2, <3>1, GreeterFieldsTyped
    <3>3. f \in Seq(Tok(Names)) /\ Len(f) = 1 /\ IsNumber(f[1]) = IsNumber(blank[1])
      <4>1. /\ f \in Seq(Tok(Names)) /\ Len(f) = Len(blank)
            /\ \A i \in 1 .. Len(blank) : IsNumber(f[i]) = IsNumber(blank[i])
        BY <1>3, <3>1 DEF Found
      <4>2. 1 \in 1 .. Len(blank)
        <5>1. Len(blank) = 1
          BY <3>2
        <5> QED
          BY <5>1
      <4> QED
        BY <3>2, <4>1, <4>2
    <3>4. f[1] \in Tok(Names)
      BY <3>3, ElementOfSeq
    <3>5. f[1].text \in Names
      BY <3>2, <3>3, <3>4, NumberText, TokenKinds
    <3> QED
      BY <2>2, <3>1, <3>5 DEF RestTyped
  <2>3. CASE CloseViews /\ UNCHANGED <<can, hostName>>
    BY <2>3 DEF CloseViews, RestTyped
  <2>4. CASE UNCHANGED <<hostName, can, views, succeeded, greeter>>
    BY <2>4 DEF RestTyped
  <2> QED
    BY <1>2, <2>1, <2>2, <2>3, <2>4 DEF Hear
<1>7. link' \in {"none", "open", "hungup", "closed"}
  BY <1>2 DEF HangUp, RestTyped
<1>8. WiresTyped' /\ MessagesTyped' /\ LoginsTyped' /\ ActsTyped'
  BY <1>2, <1>4, <1>5 DEF WiresTyped, MessagesTyped, LoginsTyped, ActsTyped, daemonVars
<1>9. RestTyped'
  BY <1>2, <1>4, <1>6, <1>7 DEF RestTyped, daemonVars
<1> QED
  BY <1>8, <1>9

\* The actions that leave the messages alone.
Quiet == ScreenChanges \/ Stop \/ DeleteServer \/ Disconnected \/ GreeterDies
         \/ SocketDisconnected

\* They keep the types.
LEMMA QuietTyped == ASSUME TypeInv, Quiet PROVE TypeInv'
<1> USE DEF TypeInv
<1>1. /\ UNCHANGED <<acts, daemonBuffer, handled, logins, pending, informed, can, hostName,
                     greeterBuffer, heard, requests, succeeded, toGreeter, sent, answers, cut>>
      /\ toDaemon' \in {<<>>, toDaemon}
  BY DEF Quiet, ScreenChanges, Stop, DeleteServer, Disconnected, GreeterDies,
         SocketDisconnected, daemonVars, greeterVars
<1>2. /\ views' \subseteq Screens
      /\ server' \in {"up", "stopping", "gone"}
      /\ greeter' \in {"starting", "running", "ended"}
      /\ link' \in {"none", "open", "hungup", "closed"}
  BY DEF Quiet, ScreenChanges, Stop, DeleteServer, Disconnected, GreeterDies, HangUp,
         SocketDisconnected, daemonVars, greeterVars, RestTyped
<1>3. WiresTyped' /\ MessagesTyped' /\ LoginsTyped' /\ ActsTyped'
  BY <1>1, NoField DEF WiresTyped, MessagesTyped, LoginsTyped, ActsTyped
<1>4. RestTyped'
  BY <1>1, <1>2 DEF RestTyped
<1> QED
  BY <1>3, <1>4

\* Every step keeps the types.
LEMMA StepTyped == TypeInv /\ [Next]_vars => TypeInv'
<1> SUFFICES ASSUME TypeInv, [Next]_vars PROVE TypeInv'
  OBVIOUS
<1>1. CASE ProxyLogin \/ ProxyPower
  BY <1>1, ProxySays, SaysTyped DEF TypeInv
<1>2. CASE UNCHANGED vars
  BY <1>2 DEF TypeInv, WiresTyped, MessagesTyped, LoginsTyped, ActsTyped, RestTyped,
              vars, daemonVars, greeterVars
<1> QED
  BY <1>1, <1>2, StartupTyped, DeliverToDaemonTyped, DeliverToGreeterTyped,
     DisplayAnswersTyped, DaemonReadsTyped, GreeterReadsTyped, QuietTyped
     DEF Next, Reading, Daemon, Greeter, Environment, Quiet

\* Whatever is delivered, cut or read as noise, what both sides take for
\* messages, fields, capabilities and sessions has its type.
THEOREM Types == Spec => []TypeOK
<1>1. Spec => []TypeInv
  BY InitTyped, StepTyped, PTL DEF Spec
<1> QED
  BY <1>1, TypeInvImplies, PTL

-----------------------------------------------------------------------------
(***************************************************************************)
(* Logins are genuine.                                                     *)
(***************************************************************************)
\* Of each login of ls there is a Login among ms.
WereWritten(ls, ms) ==
    \A i \in 1 .. Len(ls) : \E j \in 1 .. Len(ms) : ms[j] = Written(Login, ls[i])

\* One more message,
LEMMA MoreMessages ==
    ASSUME NEW ls, NEW ms \in Seq(Message), NEW w \in Message, WereWritten(ls, ms)
    PROVE  WereWritten(ls, Append(ms, w))
<1>0. PICK new : new = Append(ms, w)
  OBVIOUS
<1>1. Len(new) = Len(ms) + 1 /\ Len(ms) \in Nat /\ \A j \in 1 .. Len(ms) : new[j] = ms[j]
  BY <1>0, AppendProperties
<1>2. ASSUME NEW i \in 1 .. Len(ls) PROVE \E j \in 1 .. Len(new) : new[j] = Written(Login, ls[i])
  <2>1. PICK j \in 1 .. Len(ms) : ms[j] = Written(Login, ls[i])
    BY DEF WereWritten
  <2>2. j \in 1 .. Len(new) /\ new[j] = ms[j]
    BY <1>1
  <2> QED
    BY <2>1, <2>2
<1> QED
  BY <1>0, <1>2 DEF WereWritten

\* and one more login.
LEMMA MoreLogins ==
    ASSUME NEW ls \in Seq(Seq(Token)), NEW ms, NEW f \in Seq(Token), WereWritten(ls, ms),
           \E j \in 1 .. Len(ms) : ms[j] = Written(Login, f)
    PROVE  WereWritten(Append(ls, f), ms)
<1>0. PICK new : new = Append(ls, f)
  OBVIOUS
<1>1. /\ Len(new) = Len(ls) + 1 /\ Len(ls) \in Nat /\ new[Len(ls) + 1] = f
      /\ \A j \in 1 .. Len(ls) : new[j] = ls[j]
  BY <1>0, AppendProperties
<1>2. ASSUME NEW i \in 1 .. Len(new) PROVE \E j \in 1 .. Len(ms) : ms[j] = Written(Login, new[i])
  <2>1. CASE i = Len(ls) + 1
    BY <1>1, <2>1
  <2>2. CASE i # Len(ls) + 1
    <3>1. i \in 1 .. Len(ls) /\ new[i] = ls[i]
      BY <1>1, <2>2
    <3> QED
      BY <3>1 DEF WereWritten
  <2> QED
    BY <2>1, <2>2
<1> QED
  BY <1>0, <1>2 DEF WereWritten

\* Before the greeter has started there is nothing.
Fresh ==
    greeter = "starting" =>
        /\ link = "none"
        /\ sent = <<>> /\ toDaemon = <<>> /\ daemonBuffer = <<>>
        /\ logins = <<>> /\ handled = <<>>

\* The inductive invariant: also of what is still to be read, whatever looks
\* like a Login is one that was written.
Genuine ==
    /\ Framed(daemonBuffer \o toDaemon, sent)
    /\ WereWritten(logins, sent)
    /\ Fresh

\* It says what it is for.
LEMMA GenuineImplies == Genuine => LoginsAreGenuine
BY DEF Genuine, WereWritten, LoginsAreGenuine

\* Nothing, and a sequence after it.
LEMMA NothingBefore ==
    ASSUME NEW S, NEW q \in Seq(S) PROVE <<>> \o q = q
BY ConcatEmptySeq

\* It holds at first,
LEMMA InitGenuine == Init => Genuine
<1> SUFFICES ASSUME Init PROVE Genuine
  OBVIOUS
<1>1. daemonBuffer = <<>> /\ toDaemon = <<>> /\ <<>> \o <<>> = <<>>
  BY NoField, NothingBefore DEF Init
<1>2. Framed(daemonBuffer \o toDaemon, sent)
  BY <1>1, NothingFramed
<1>3. WereWritten(logins, sent)
  <2>1. logins = <<>>
    BY DEF Init
  <2> QED
    BY <2>1 DEF WereWritten
<1>4. Fresh
  BY DEF Init, Fresh
<1> QED
  BY <1>2, <1>3, <1>4 DEF Genuine

\* when the greeter asks for something,
LEMMA SaysGenuine == ASSUME TypeInv, Genuine, NEW w, Says(w) PROVE Genuine'
<1>1. toDaemon' = Write(toDaemon, w) /\ sent' = Log(sent, w) /\ Fits(w) /\ w \in Message
      /\ daemonBuffer = <<>> /\ daemonBuffer' = <<>> /\ logins' = logins /\ greeter' = "running"
  BY DEF Says, Send, Fits, Idle, daemonVars
<1>2. toDaemon \in Seq(Token) /\ toDaemon' \in Seq(Token) /\ sent \in Seq(Message)
  BY SaysTyped DEF TypeInv, WiresTyped, MessagesTyped
<1>3. daemonBuffer \o toDaemon = toDaemon /\ daemonBuffer' \o toDaemon' = toDaemon'
  BY <1>1, <1>2, NothingBefore
<1>4. Framed(toDaemon, sent) /\ WereWritten(logins, sent)
  BY <1>3 DEF Genuine
<1>5. Framed(toDaemon', sent') /\ WereWritten(logins, sent')
  <2>1. CASE link = "open"
    <3>1. toDaemon' = toDaemon \o Tokens(w) /\ sent' = Append(sent, w)
      BY <1>1, <2>1 DEF Write, Log
    <3> QED
      BY <1>1, <1>2, <1>4, <3>1, WriteFramed, MoreMessages
  <2>2. CASE link # "open"
    BY <1>1, <1>4, <2>2 DEF Write, Log
  <2> QED
    BY <2>1, <2>2
<1>6. Fresh'
  BY <1>1 DEF Fresh
<1> QED
  BY <1>1, <1>3, <1>5, <1>6 DEF Genuine

\* when it starts,
LEMMA StartupGenuine == ASSUME TypeInv, Genuine, Startup PROVE Genuine'
<1>1. CASE server # "up"
  BY <1>1 DEF Startup, Genuine, Fresh, daemonVars
<1>2. CASE server = "up"
  <2>1. PICK w : w = Written(Connect, <<>>)
    OBVIOUS
  <2>2. Fits(w) /\ w \in Message /\ w.message \in Nat /\ w.fields \in Seq(Token)
    BY <2>1, ConnectFits DEF Fits, Message
  <2>3. /\ sent = <<>> /\ toDaemon = <<>> /\ daemonBuffer = <<>> /\ logins = <<>>
        /\ toDaemon' = Tokens(w) /\ sent' = <<w>> /\ greeter' = "running"
        /\ daemonBuffer' = <<>> /\ logins' = <<>>
    BY <1>2, <2>1 DEF Startup, Genuine, Fresh, daemonVars
  <2>4. Tokens(w) \in Seq(Token)
    BY <2>2, TokensProperties, TokenIsTok
  <2>5. <<>> \o Tokens(w) = Tokens(w) /\ Append(<<>>, w) = <<w>>
    BY <2>4, NothingBefore
  <2>6. Framed(<<>> \o Tokens(w), Append(<<>>, w))
    BY <2>2, NoField, NothingFramed, WriteFramed
  <2>7. Framed(daemonBuffer' \o toDaemon', sent')
    BY <2>3, <2>5, <2>6
  <2>8. WereWritten(logins', sent')
    BY <2>3 DEF WereWritten
  <2>9. Fresh'
    BY <2>3 DEF Fresh
  <2> QED
    BY <2>7, <2>8, <2>9 DEF Genuine
<1> QED
  BY <1>1, <1>2

\* when the daemon receives,
LEMMA DeliverToDaemonGenuine == ASSUME TypeInv, Genuine, DeliverToDaemon PROVE Genuine'
<1>1. PICK n \in 1 .. Len(toDaemon) :
        /\ daemonBuffer' = SubSeq(toDaemon, 1, n)
        /\ toDaemon' = SubSeq(toDaemon, n + 1, Len(toDaemon))
  BY DeliverableIsPart DEF DeliverToDaemon, TypeInv, WiresTyped
<1>2. toDaemon \in Seq(Token) /\ daemonBuffer = <<>>
  BY DEF TypeInv, WiresTyped, DeliverToDaemon, Idle
<1>3. daemonBuffer' \o toDaemon' = daemonBuffer \o toDaemon
  BY <1>1, <1>2, Delivered, NothingBefore
<1>4. Fresh'
  BY DEF DeliverToDaemon, Genuine, Fresh, greeterVars
<1> QED
  BY <1>3, <1>4 DEF Genuine, DeliverToDaemon, greeterVars

\* What was not read yet is a suffix of what was.
LEMMA RestOfDaemon ==
    ASSUME NEW S, NEW q \in Seq(S), NEW wire \in Seq(S), NEW blank, NEW r, Left(q, blank, r)
    PROVE  \E k \in 1 .. Len(q \o wire) :
             r.rest \o wire = SubSeq(q \o wire, k + 1, Len(q \o wire))
<1>1. PICK k \in 1 .. Len(q) : r.rest = SubSeq(q, k + 1, Len(q))
  BY DEF Left
<1>2. /\ k \in 1 .. Len(q \o wire)
      /\ SubSeq(q, k + 1, Len(q)) \o wire = SubSeq(q \o wire, k + 1, Len(q \o wire))
  BY SuffixConcat
<1> QED
  BY <1>1, <1>2

\* and when it reads: it goes on with a Login only when the session is usable,
\* and then the Login was read in whole.
LEMMA DaemonReadsGenuine == ASSUME TypeInv, Genuine, DaemonReads PROVE Genuine'
<1> USE DEF TypeInv
<1>1. PICK r : r = DaemonRead
  OBVIOUS
<1>2. /\ daemonBuffer # <<>> /\ HandleMessage(r.message, r.fields)
      /\ daemonBuffer' = r.rest
      /\ UNCHANGED <<greeterVars, link, toDaemon, sent>>
  BY <1>1 DEF DaemonReads, DaemonRead
<1>3. /\ Found(Texts, daemonBuffer, DaemonFields(r.message), r)
      /\ Left(daemonBuffer, DaemonFields(r.message), r)
  BY <1>1, <1>2, DaemonTurn
<1>4. daemonBuffer \in Seq(Token) /\ toDaemon \in Seq(Token) /\ sent \in Seq(Message)
      /\ daemonBuffer \o toDaemon \in Seq(Token) /\ logins \in Seq(Seq(Token))
      /\ r.fields \in Seq(Token)
  BY <1>3, TokenIsTok, ConcatProperties DEF WiresTyped, MessagesTyped, LoginsTyped, Found
<1>5. Framed(daemonBuffer' \o toDaemon', sent')
  <2>1. PICK k \in 1 .. Len(daemonBuffer \o toDaemon) :
          r.rest \o toDaemon
            = SubSeq(daemonBuffer \o toDaemon, k + 1, Len(daemonBuffer \o toDaemon))
    BY <1>3, <1>4, RestOfDaemon
  <2>2. Framed(r.rest \o toDaemon, sent)
    BY <1>4, <2>1, SuffixFramed DEF Genuine
  <2> QED
    BY <1>2, <2>2
<1>6. WereWritten(logins', sent)
  <2>1. CASE logins' = logins
    BY <2>1 DEF Genuine
  <2>2. CASE r.message = Login /\ Usable(r.fields) /\ logins' = Append(logins, r.fields)
    <3>1. Found(Texts, daemonBuffer, LoginFields, r)
      BY <1>3, <2>2, DaemonFieldsTyped
    <3>2. \E j \in 1 .. Len(sent) : sent[j] = Written(Login, r.fields)
      BY <1>2, <1>4, <2>2, <3>1, UsableIsWritten DEF Genuine
    <3> QED
      BY <1>4, <2>2, <3>2, MoreLogins DEF Genuine
  <2> QED
    BY <1>2, <2>1, <2>2 DEF HandleMessage, StartAuth
<1>7. greeter # "starting"
  BY <1>2 DEF Genuine, Fresh
<1>8. Fresh'
  BY <1>2, <1>7 DEF Fresh, greeterVars
<1> QED
  BY <1>2, <1>5, <1>6, <1>8 DEF Genuine

\* The other steps write nothing to the daemon and take nothing from it.
LEMMA OthersGenuine ==
    ASSUME TypeInv, Genuine, DeliverToGreeter \/ DisplayAnswers \/ GreeterReads \/ Quiet
    PROVE  Genuine'
<1>1. /\ UNCHANGED <<daemonBuffer, logins, sent, handled>>
      /\ greeter' = "starting" => greeter = "starting"
  <2>1. ASSUME GreeterReads PROVE greeter' = "starting" => greeter = "starting"
    BY <2>1 DEF GreeterReads, Hear, CloseViews
  <2>2. ASSUME GreeterReads PROVE UNCHANGED <<daemonBuffer, logins, sent, handled>>
    BY <2>2 DEF GreeterReads, daemonVars
  <2>3. ASSUME DeliverToGreeter \/ DisplayAnswers
        PROVE  UNCHANGED <<daemonBuffer, logins, sent, handled, greeter>>
    BY <2>3 DEF DeliverToGreeter, DisplayAnswers, daemonVars, greeterVars
  <2>4. ASSUME Quiet
        PROVE  /\ UNCHANGED <<daemonBuffer, logins, sent, handled>>
               /\ greeter' = "starting" => greeter = "starting"
    BY <2>4 DEF Quiet, ScreenChanges, Stop, DeleteServer, Disconnected, GreeterDies,
         SocketDisconnected, daemonVars, greeterVars
  <2> QED
    BY <2>1, <2>2, <2>3, <2>4
<1>2. \/ toDaemon' = toDaemon
      \/ DeleteServer
  BY DEF DeliverToGreeter, DisplayAnswers, GreeterReads, Quiet, ScreenChanges, Stop,
         Disconnected, GreeterDies, SocketDisconnected
<1>3. Framed(daemonBuffer' \o toDaemon', sent')
  <2>1. CASE toDaemon' = toDaemon
    BY <1>1, <2>1 DEF Genuine
  <2>2. CASE DeleteServer
    <3>1. daemonBuffer' = <<>> /\ toDaemon' = <<>>
      BY <2>2 DEF DeleteServer, Idle
    <3>2. <<>> \o <<>> = <<>>
      BY NoField, NothingBefore
    <3> QED
      BY <3>1, <3>2, NothingFramed
  <2> QED
    BY <1>2, <2>1, <2>2
<1>4. greeter = "starting" /\ greeter' = "starting" => link' = "none" /\ toDaemon' = <<>>
  <2>1. greeter = "starting" => link = "none" /\ toDaemon = <<>>
    BY DEF Genuine, Fresh
  <2>2. ASSUME greeter = "starting" PROVE link' = "none" \/ greeter' # "starting"
    BY <2>1, <2>2 DEF DeliverToGreeter, DisplayAnswers, GreeterReads, HangUp, Quiet,
         ScreenChanges, Stop, DeleteServer, Disconnected, GreeterDies, SocketDisconnected
  <2>3. DeleteServer => toDaemon' = <<>>
    BY DEF DeleteServer
  <2> QED
    BY <1>2, <2>1, <2>2, <2>3
<1>5. Fresh'
  BY <1>1, <1>4 DEF Genuine, Fresh
<1> QED
  BY <1>1, <1>3, <1>5 DEF Genuine

\* It is inductive.
LEMMA StepGenuine == TypeInv /\ Genuine /\ [Next]_vars => Genuine'
<1> SUFFICES ASSUME TypeInv, Genuine, [Next]_vars PROVE Genuine'
  OBVIOUS
<1>1. CASE ProxyLogin \/ ProxyPower
  BY <1>1, ProxySays, SaysGenuine DEF TypeInv
<1>2. CASE UNCHANGED vars
  BY <1>2 DEF Genuine, Fresh, vars, daemonVars, greeterVars
<1> QED
  BY <1>1, <1>2, StartupGenuine, DeliverToDaemonGenuine, DaemonReadsGenuine, OthersGenuine
     DEF Next, Reading, Daemon, Greeter, Environment, Quiet

\* However the messages of the greeter are delivered and cut, a login that
\* startAuth goes on with is one that the greeter asked for, with its user, its
\* password and its session.
THEOREM GenuineLogins == Spec => []LoginsAreGenuine
<1>1. Spec => [](TypeInv /\ Genuine)
  BY InitTyped, StepTyped, InitGenuine, StepGenuine, PTL DEF Spec
<1> QED
  BY <1>1, GenuineImplies, PTL

-----------------------------------------------------------------------------
(***************************************************************************)
(* In order: a list, one that it begins with, and the wire.                *)
(***************************************************************************)
\* The one list begins with the other.
LEMMA PrefixMeans ==
    ASSUME NEW S, NEW a \in Seq(S), NEW b \in Seq(S)
    PROVE  IsPrefix(a, b) <=> Len(a) <= Len(b) /\ \A i \in 1 .. Len(a) : a[i] = b[i]
<1>0. PICK L, M : L = Len(a) /\ M = Len(b) /\ L \in Nat /\ M \in Nat
  BY LenProperties
<1>1. CASE ~(L <= M)
  BY <1>0, <1>1 DEF IsPrefix
<1>2. CASE L <= M
  <2>1. (\A i \in 1 .. L : a[i] \in S) /\ \A i \in 1 .. L : b[i] \in S
    <3>1. ASSUME NEW i \in 1 .. L PROVE a[i] \in S /\ b[i] \in S
      <4>1. i \in 1 .. Len(a) /\ i \in 1 .. Len(b)
        BY <1>0, <1>2
      <4> QED
        BY <4>1, ElementOfSeq
    <3> QED
      BY <3>1
  <2>2. PICK p, q : p = SubSeq(a, 1, L) /\ q = SubSeq(b, 1, L)
    OBVIOUS
  <2>3. /\ p \in Seq(S) /\ Len(p) = L /\ \A i \in 1 .. L : p[i] = a[i]
        /\ q \in Seq(S) /\ Len(q) = L /\ \A i \in 1 .. L : q[i] = b[i]
    <3>1. 1 \in Int /\ L \in Int
      BY <1>0
    <3>2. /\ p \in Seq(S) /\ Len(p) = IF 1 <= L THEN L - 1 + 1 ELSE 0
          /\ \A i \in 1 .. L - 1 + 1 : p[i] = a[1 + i - 1]
      BY <2>1, <2>2, <3>1, SubSeqProperties
    <3>3. /\ q \in Seq(S) /\ Len(q) = IF 1 <= L THEN L - 1 + 1 ELSE 0
          /\ \A i \in 1 .. L - 1 + 1 : q[i] = b[1 + i - 1]
      BY <2>1, <2>2, <3>1, SubSeqProperties
    <3> QED
      BY <1>0, <3>2, <3>3
  <2>4. p = q <=> \A i \in 1 .. L : a[i] = b[i]
    <3>1. ASSUME p = q PROVE \A i \in 1 .. L : a[i] = b[i]
      BY <2>3, <3>1
    <3>2. ASSUME \A i \in 1 .. L : a[i] = b[i] PROVE p = q
      <4>1. \A i \in 1 .. Len(p) : p[i] = q[i]
        BY <2>3, <3>2
      <4> QED
        BY <2>3, <4>1, SeqEqual
    <3> QED
      BY <3>1, <3>2
  <2> QED
    BY <1>0, <1>2, <2>2, <2>4 DEF IsPrefix
<1> QED
  BY <1>1, <1>2

\* It still does when the other gets longer,
LEMMA PrefixOfMore ==
    ASSUME NEW S, NEW a \in Seq(S), NEW b \in Seq(S), NEW w \in S, IsPrefix(a, b)
    PROVE  IsPrefix(a, Append(b, w))
<1>1. PICK new : new = Append(b, w) /\ new \in Seq(S)
  BY AppendProperties
<1>2. Len(new) = Len(b) + 1 /\ \A i \in 1 .. Len(b) : new[i] = b[i]
  BY <1>1, AppendProperties
<1>3. Len(a) <= Len(b) /\ \A i \in 1 .. Len(a) : a[i] = b[i]
  BY PrefixMeans
<1>4. Len(a) <= Len(new) /\ \A i \in 1 .. Len(a) : a[i] = new[i]
  BY <1>2, <1>3
<1> QED
  BY <1>1, <1>4, PrefixMeans

\* and when the one gets the next of the other.
LEMMA MoreOfPrefix ==
    ASSUME NEW S, NEW a \in Seq(S), NEW b \in Seq(S), IsPrefix(a, b),
           Len(a) + 1 \in 1 .. Len(b)
    PROVE  IsPrefix(Append(a, b[Len(a) + 1]), b)
<1>0. b[Len(a) + 1] \in S
  BY ElementOfSeq
<1>1. PICK new : new = Append(a, b[Len(a) + 1]) /\ new \in Seq(S)
  BY <1>0, AppendProperties
<1>2. /\ Len(new) = Len(a) + 1 /\ \A i \in 1 .. Len(a) : new[i] = a[i]
      /\ new[Len(a) + 1] = b[Len(a) + 1]
  BY <1>0, <1>1, AppendProperties
<1>3. Len(a) <= Len(b) /\ \A i \in 1 .. Len(a) : a[i] = b[i]
  BY PrefixMeans
<1>4. Len(new) <= Len(b) /\ \A i \in 1 .. Len(new) : new[i] = b[i]
  BY <1>2, <1>3
<1> QED
  BY <1>1, <1>4, PrefixMeans

\* When they are as long as each other they are the same.
LEMMA WholePrefix ==
    ASSUME NEW S, NEW a \in Seq(S), NEW b \in Seq(S), IsPrefix(a, b), Len(a) = Len(b)
    PROVE  a = b
<1>1. \A i \in 1 .. Len(a) : a[i] = b[i]
  BY PrefixMeans
<1> QED
  BY <1>1, SeqEqual

\* The end of one side: the messages written to it, those that it has read, and
\* what lies between.
InStep(read, written, q) == IsPrefix(read, written) /\ Aligned(q, written, Len(read))

\* At first there is nothing.
LEMMA InStepAtFirst == InStep(<<>>, <<>>, <<>>)
<1>1. <<>> \in Seq(Message) /\ Len(<<>>) = 0
  OBVIOUS
<1>2. IsPrefix(<<>>, <<>>)
  BY DEF IsPrefix
<1> QED
  BY <1>1, <1>2, NothingAligned DEF InStep

\* A message is written.
LEMMA InStepWrite ==
    ASSUME NEW read \in Seq(Message), NEW written \in Seq(Message), NEW q \in Seq(Token),
           InStep(read, written, q), NEW w \in Message
    PROVE  InStep(read, Append(written, w), q \o Tokens(w))
BY PrefixOfMore, WriteAligns DEF InStep

\* With nothing in between all was read.
LEMMA InStepAll ==
    ASSUME NEW read \in Seq(Message), NEW written \in Seq(Message),
           InStep(read, written, <<>>)
    PROVE  read = written
<1>1. Len(written) \in Nat /\ \A k \in 1 .. Len(written) : Writable(written[k])
  BY AreWritable
<1>2. Len(read) = Len(written)
  BY <1>1, AllRead DEF InStep
<1> QED
  BY <1>2, WholePrefix DEF InStep

\* A message that was read in whole is the next one.
LEMMA InStepRead ==
    ASSUME NEW T, NEW buffer \in Seq(Token), buffer # <<>>, NEW wire \in Seq(Token),
           NEW read \in Seq(Message), NEW written \in Seq(Message),
           InStep(read, written, buffer \o wire),
           NEW blank, NEW r, Found(T, buffer, blank, r), Left(buffer, blank, r), r.whole,
           \A w : w \in Message /\ w.message = r.message
                  /\ (\E j \in 1 .. Len(written) : w = written[j])
                    => Len(blank) = Len(w.fields),
           Plain(r) \in Message
    PROVE  InStep(Append(read, Plain(r)), written, r.rest \o wire)
<1> DEFINE q == buffer \o wire
           n == Len(read)
<1>1. /\ q \in Seq(Token) /\ Len(q) = Len(buffer) + Len(wire)
      /\ \A i \in 1 .. Len(buffer) : q[i] = buffer[i]
      /\ Len(buffer) \in Nat /\ Len(wire) \in Nat /\ Len(buffer) >= 1
      /\ n \in Nat
  <2>1. /\ q \in Seq(Token) /\ Len(q) = Len(buffer) + Len(wire)
        /\ \A i \in 1 .. Len(buffer) + Len(wire) :
             q[i] = IF i <= Len(buffer) THEN buffer[i] ELSE wire[i - Len(buffer)]
    BY ConcatProperties
  <2>2. Len(buffer) \in Nat /\ Len(wire) \in Nat /\ Len(read) \in Nat
    BY LenProperties
  <2>3. Len(buffer) # 0
    BY EmptySeq
  <2> HIDE DEF q
  <2>4. \A i \in 1 .. Len(buffer) : q[i] = buffer[i]
    BY <2>1, <2>2
  <2> QED
    BY <2>1, <2>2, <2>3, <2>4
<1>2. Aligned(q, written, n) /\ IsPrefix(read, written)
  BY DEF InStep
<1> HIDE DEF q, n
<1>3. PICK w : w = written[n + 1]
  OBVIOUS
<1>4. q # <<>>
  BY <1>1
<1>5. /\ n + 1 \in 1 .. Len(written)
      /\ q[1] = Number(w.message)
      /\ Len(w.fields) + 1 \in 1 .. Len(q)
      /\ \A i \in 1 .. Len(w.fields) : q[i + 1] = w.fields[i]
      /\ Aligned(SubSeq(q, Len(w.fields) + 2, Len(q)), written, n + 1)
  <2>1. q \in Seq(Token) /\ Aligned(q, written, n)
    BY <1>1, <1>2
  <2> QED
    BY <1>3, <1>4, <2>1, ReadAligns
<1>6. w \in Message /\ w.message \in Nat /\ w.fields \in Seq(Token)
  <2>1. w \in Message
    BY <1>3, <1>5, ElementOfSeq
  <2> QED
    BY <2>1 DEF Message
<1>7. r.message = w.message
  <2>1. buffer[1] = Number(w.message)
    BY <1>1, <1>5
  <2> QED
    BY <2>1, NumberText DEF Found
<1>8. Len(blank) = Len(w.fields)
  BY <1>3, <1>5, <1>6, <1>7
<1>9. PICK f, L : f = r.fields /\ L = Len(w.fields)
  OBVIOUS
<1>10. /\ L \in Nat /\ L + 1 <= Len(buffer) /\ Len(f) = L
       /\ r.rest = SubSeq(buffer, L + 2, Len(buffer))
       /\ \A i \in 1 .. L : f[i] = buffer[i + 1]
  <2>1. L \in Nat
    BY <1>6, <1>9, LenProperties
  <2>2. Len(f) = L
    BY <1>8, <1>9 DEF Found
  <2> QED
    BY <1>8, <1>9, <2>1, <2>2 DEF Left
<1>11. PICK g : g = w.fields
  OBVIOUS
<1>12. f = g
  <2>1. Plain(r).fields = f
    BY <1>9 DEF Plain
  <2>2. f \in Seq(Token) /\ g \in Seq(Token)
    BY <1>6, <1>11, <2>1 DEF Message
  <2>3. Len(f) = Len(g)
    BY <1>9, <1>10, <1>11
  <2>4. ASSUME NEW i \in 1 .. Len(f) PROVE f[i] = g[i]
    <3>1. i \in 1 .. L /\ i + 1 \in 1 .. Len(buffer)
      BY <1>1, <1>10
    <3>2. q[i + 1] = g[i]
      BY <1>5, <1>9, <1>11, <3>1
    <3> QED
      BY <1>1, <1>10, <3>1, <3>2
  <2> QED
    BY <2>2, <2>3, <2>4, SeqEqual
<1>13. Plain(r) = w
  BY <1>6, <1>7, <1>9, <1>11, <1>12 DEF Plain, Message
<1>14. r.rest \o wire = SubSeq(q, L + 2, Len(q))
  <2>1. L + 1 \in 1 .. Len(buffer) /\ (L + 1) + 1 = L + 2
    BY <1>1, <1>10
  <2>2. SubSeq(buffer, (L + 1) + 1, Len(buffer)) \o wire
          = SubSeq(buffer \o wire, (L + 1) + 1, Len(buffer \o wire))
    BY <2>1, SuffixConcat
  <2> QED
    BY <1>10, <2>1, <2>2 DEF q
<1>15. Len(Append(read, Plain(r))) = n + 1
  BY AppendProperties DEF n
<1>16. IsPrefix(Append(read, Plain(r)), written)
  BY <1>2, <1>3, <1>5, <1>13, MoreOfPrefix DEF n
<1> QED
  BY <1>5, <1>9, <1>14, <1>15, <1>16 DEF InStep

-----------------------------------------------------------------------------
(***************************************************************************)
(* In order: the invariant.                                                *)
(***************************************************************************)
\* A message is written while the other side is there, or else it is not.
LEMMA InStepSend ==
    ASSUME NEW read \in Seq(Message), NEW written \in Seq(Message),
           NEW buffer \in Seq(Token), NEW wire \in Seq(Token),
           InStep(read, written, buffer \o wire), NEW w \in Message
    PROVE  InStep(read, Log(written, w), buffer \o Write(wire, w))
<1>1. CASE link = "open"
  <2>1. PICK t : t = Tokens(w) /\ t \in Seq(Token)
    BY TokensProperties, TokenIsTok DEF Message
  <2>2. (buffer \o wire) \o t = buffer \o (wire \o t)
    BY <2>1, ConcatAssociative
  <2>3. PICK q : q = buffer \o wire /\ q \in Seq(Token)
    BY ConcatProperties
  <2>4. InStep(read, Append(written, w), q \o Tokens(w))
    BY <2>3, InStepWrite
  <2>5. Log(written, w) = Append(written, w) /\ Write(wire, w) = wire \o t
    BY <1>1, <2>1 DEF Log, Write
  <2> QED
    BY <2>1, <2>2, <2>3, <2>4, <2>5
<1>2. CASE link # "open"
  BY <1>2 DEF Log, Write
<1> QED
  BY <1>1, <1>2

\* What the daemon reads of a message is what there is of it.
Complete(w) == Len(w.fields) = Len(DaemonFields(w.message))

\* The messages of the greeter have the fields that the daemon reads.
LEMMA FitsComplete == ASSUME NEW w, Fits(w) PROVE w \in Message /\ Complete(w)
<1>1. Len(LoginFields) = 4 /\ Len(<<>>) = 0
  BY DEF LoginFields
<1>2. /\ w.message = Login => DaemonFields(w.message) = LoginFields /\ Len(w.fields) = 4
      /\ w.message # Login => DaemonFields(w.message) = <<>> /\ Len(w.fields) = 0
      /\ w \in Message
  BY DaemonFieldsTyped DEF Fits
<1> QED
  BY <1>1, <1>2 DEF Complete

\* And the greeter.
Full(w) == Len(w.fields) = Len(GreeterFields(w.message))

\* What holds of all messages and of one more holds of all.
LEMMA LogAll ==
    ASSUME NEW P, NEW ms \in Seq(Message), \A j \in 1 .. Len(ms) : ms[j] \in P,
           NEW w \in Message, w \in P
    PROVE  \A j \in 1 .. Len(Log(ms, w)) : Log(ms, w)[j] \in P
<1>1. PICK new : new = Append(ms, w)
  OBVIOUS
<1>2. /\ Len(new) = Len(ms) + 1 /\ Len(ms) \in Nat /\ new[Len(ms) + 1] = w
      /\ \A j \in 1 .. Len(ms) : new[j] = ms[j]
  BY <1>1, AppendProperties
<1>3. ASSUME NEW j \in 1 .. Len(new) PROVE new[j] \in P
  <2>1. CASE j = Len(ms) + 1
    BY <1>2, <2>1
  <2>2. CASE j # Len(ms) + 1
    <3>1. j \in 1 .. Len(ms)
      BY <1>2, <2>2
    <3> QED
      BY <1>2, <3>1
  <2> QED
    BY <2>1, <2>2
<1> QED
  BY <1>1, <1>3 DEF Log

\* So it is with all that was written.
SentComplete == \A j \in 1 .. Len(sent) : sent[j] \in {w \in Message : Complete(w)}
AnswersFull == \A j \in 1 .. Len(answers) : answers[j] \in {w \in Message : Full(w)}

\* Without the server nothing is on the way to it.
Gone == server = "gone" => /\ daemonBuffer = <<>> /\ toDaemon = <<>>
                           /\ link \notin {"open", "hungup"}

\* The daemon's side of the order, and the greeter's.
DaemonInOrder ==
    /\ SentComplete /\ Gone
    /\ ~cut => /\ IsPrefix(handled, sent)
               /\ server # "gone" => InStep(handled, sent, daemonBuffer \o toDaemon)

GreeterInOrder ==
    /\ AnswersFull
    /\ ~cut => InStep(heard, answers, greeterBuffer \o toGreeter)

\* The two halves of the invariant say that both sides read in order.
LEMMA InOrderImplies == TypeInv /\ DaemonInOrder /\ GreeterInOrder => InOrder
<1> SUFFICES ASSUME TypeInv, DaemonInOrder, GreeterInOrder, ~cut PROVE InOrder
  BY DEF InOrder
<1>1. /\ handled \in Seq(Message) /\ sent \in Seq(Message)
      /\ heard \in Seq(Message) /\ answers \in Seq(Message)
  BY DEF TypeInv, MessagesTyped
<1>2. IsPrefix(handled, sent) /\ IsPrefix(heard, answers)
  BY DEF DaemonInOrder, GreeterInOrder, InStep
<1>3. <<>> \o <<>> = <<>>
  BY NoField, NothingBefore
<1>4. ASSUME Idle, server = "up", toDaemon = <<>> PROVE handled = sent
  <2>1. InStep(handled, sent, <<>>)
    BY <1>3, <1>4 DEF DaemonInOrder, Idle
  <2> QED
    BY <1>1, <2>1, InStepAll
<1>5. ASSUME Idle, toGreeter = <<>> PROVE heard = answers
  <2>1. InStep(heard, answers, <<>>)
    BY <1>3, <1>5 DEF GreeterInOrder, Idle
  <2> QED
    BY <1>1, <2>1, InStepAll
<1> QED
  BY <1>2, <1>4, <1>5 DEF InOrder

\* They hold at first.
LEMMA InitInOrder == Init => DaemonInOrder /\ GreeterInOrder
<1> SUFFICES ASSUME Init PROVE DaemonInOrder /\ GreeterInOrder
  OBVIOUS
<1>1. <<>> \o <<>> = <<>>
  BY NoField, NothingBefore
<1>2. /\ sent = <<>> /\ handled = <<>> /\ answers = <<>> /\ heard = <<>> /\ server = "up"
      /\ daemonBuffer = <<>> /\ toDaemon = <<>> /\ greeterBuffer = <<>> /\ toGreeter = <<>>
  BY DEF Init
<1>3. SentComplete /\ AnswersFull /\ Gone
  BY <1>2 DEF SentComplete, AnswersFull, Gone
<1>4. IsPrefix(<<>>, <<>>)
  BY InStepAtFirst DEF InStep
<1> QED
  BY <1>1, <1>2, <1>3, <1>4, InStepAtFirst DEF DaemonInOrder, GreeterInOrder

-----------------------------------------------------------------------------
(***************************************************************************)
(* In order: what the daemon reads.                                        *)
(***************************************************************************)
\* The daemon's side when the greeter asks for something,
LEMMA SaysInOrder ==
    ASSUME TypeInv, DaemonInOrder, NEW w, Says(w)
    PROVE  DaemonInOrder'
<1>1. /\ toDaemon' = Write(toDaemon, w) /\ sent' = Log(sent, w) /\ Fits(w)
      /\ daemonBuffer' = daemonBuffer /\ handled' = handled /\ server' = server
      /\ link' = link /\ cut' = cut
  BY DEF Says, Send, daemonVars
<1>2. w \in Message /\ Complete(w)
  BY <1>1, FitsComplete
<1>3. /\ toDaemon \in Seq(Token) /\ daemonBuffer \in Seq(Token)
      /\ sent \in Seq(Message) /\ handled \in Seq(Message)
  BY DEF TypeInv, WiresTyped, MessagesTyped
<1>4. SentComplete'
  <2> DEFINE P == {x \in Message : Complete(x)}
  <2>1. (\A j \in 1 .. Len(sent) : sent[j] \in P) /\ w \in P
    BY <1>2 DEF DaemonInOrder, SentComplete
  <2> HIDE DEF P
  <2>2. \A j \in 1 .. Len(sent') : sent'[j] \in P
    BY <1>1, <1>2, <1>3, <2>1, LogAll
  <2> QED
    BY <2>2 DEF SentComplete, P
<1>5. Gone'
  BY <1>1 DEF DaemonInOrder, Gone, Write
<1>6. ASSUME ~cut', server' # "gone" PROVE InStep(handled', sent', daemonBuffer' \o toDaemon')
  BY <1>1, <1>2, <1>3, <1>6, InStepSend DEF DaemonInOrder
<1>7. ASSUME ~cut' PROVE IsPrefix(handled', sent')
  <2>1. IsPrefix(handled, sent)
    BY <1>1, <1>7 DEF DaemonInOrder
  <2>2. IsPrefix(handled, Append(sent, w))
    BY <1>2, <1>3, <2>1, PrefixOfMore
  <2> QED
    BY <1>1, <2>1, <2>2 DEF Log
<1> QED
  BY <1>4, <1>5, <1>6, <1>7 DEF DaemonInOrder

\* when it starts,
LEMMA StartupInOrder ==
    ASSUME TypeInv, Genuine, DaemonInOrder, Startup
    PROVE  DaemonInOrder'
<1>1. CASE server # "up"
  BY <1>1 DEF Startup, DaemonInOrder, SentComplete, Gone, daemonVars
<1>2. CASE server = "up"
  <2>1. PICK w : w = Written(Connect, <<>>)
    OBVIOUS
  <2>2. Fits(w) /\ w \in Message /\ Complete(w) /\ w.message \in Nat /\ w.fields \in Seq(Token)
    BY <2>1, ConnectFits, FitsComplete DEF Message
  <2>3. /\ sent = <<>> /\ toDaemon = <<>> /\ daemonBuffer = <<>> /\ handled = <<>>
        /\ toDaemon' = Tokens(w) /\ sent' = <<w>> /\ server' = "up"
        /\ daemonBuffer' = <<>> /\ handled' = <<>>
    BY <1>2, <2>1 DEF Startup, Genuine, Fresh, daemonVars
  <2>4. Tokens(w) \in Seq(Token)
    BY <2>2, TokensProperties, TokenIsTok
  <2>5. <<>> \o Tokens(w) = Tokens(w) /\ Append(<<>>, w) = <<w>>
    BY <2>4, NothingBefore
  <2>6. InStep(<<>>, Append(<<>>, w), <<>> \o Tokens(w))
    <3>1. <<>> \in Seq(Message) /\ <<>> \in Seq(Token)
      BY NoField
    <3> QED
      BY <2>2, <3>1, InStepAtFirst, InStepWrite
  <2>7. InStep(handled', sent', daemonBuffer' \o toDaemon')
    BY <2>3, <2>5, <2>6
  <2>8. SentComplete'
    BY <2>2, <2>3 DEF SentComplete
  <2>9. Gone'
    BY <2>3 DEF Gone
  <2> QED
    BY <2>7, <2>8, <2>9 DEF DaemonInOrder, InStep
<1> QED
  BY <1>1, <1>2

\* when the daemon receives,
LEMMA DeliverToDaemonInOrder ==
    ASSUME TypeInv, DaemonInOrder, DeliverToDaemon
    PROVE  DaemonInOrder'
<1>1. PICK n \in 1 .. Len(toDaemon) :
        /\ daemonBuffer' = SubSeq(toDaemon, 1, n)
        /\ toDaemon' = SubSeq(toDaemon, n + 1, Len(toDaemon))
  BY DeliverableIsPart DEF DeliverToDaemon, TypeInv, WiresTyped
<1>2. toDaemon \in Seq(Token) /\ daemonBuffer = <<>>
  BY DEF TypeInv, WiresTyped, DeliverToDaemon, Idle
<1>3. daemonBuffer' \o toDaemon' = daemonBuffer \o toDaemon
  BY <1>1, <1>2, Delivered, NothingBefore
<1>4. /\ server # "gone"
      /\ UNCHANGED <<server, handled, sent, cut, link>>
  BY DEF DeliverToDaemon, DaemonInOrder, Gone
<1> QED
  BY <1>3, <1>4 DEF DaemonInOrder, SentComplete, Gone

\* and when it reads.
LEMMA DaemonReadsInOrder ==
    ASSUME TypeInv, DaemonInOrder, DaemonReads
    PROVE  DaemonInOrder'
<1>1. PICK r : r = DaemonRead
  OBVIOUS
<1>2. /\ daemonBuffer # <<>>
      /\ handled' = Append(handled, Plain(r))
      /\ daemonBuffer' = r.rest
      /\ cut' = (cut \/ ~r.whole)
      /\ UNCHANGED <<server, link, toDaemon, sent>>
  BY <1>1 DEF DaemonReads, DaemonRead
<1>3. /\ Found(Texts, daemonBuffer, DaemonFields(r.message), r)
      /\ Left(daemonBuffer, DaemonFields(r.message), r)
      /\ Plain(r) \in Message
  BY <1>1, <1>2, DaemonTurn DEF TypeInv
<1>4. /\ daemonBuffer \in Seq(Token) /\ toDaemon \in Seq(Token)
      /\ sent \in Seq(Message) /\ handled \in Seq(Message)
  BY DEF TypeInv, WiresTyped, MessagesTyped
<1>5. server # "gone"
  BY <1>2 DEF DaemonInOrder, Gone
<1>6. ASSUME ~cut' PROVE InStep(handled', sent', daemonBuffer' \o toDaemon')
  <2>1. InStep(handled, sent, daemonBuffer \o toDaemon) /\ r.whole
    BY <1>2, <1>3, <1>5, <1>6 DEF DaemonInOrder, Left
  <2>2. PICK blank : blank = DaemonFields(r.message)
    OBVIOUS
  <2>3. \A w : w \in Message /\ w.message = r.message
               /\ (\E j \in 1 .. Len(sent) : w = sent[j])
                 => Len(blank) = Len(w.fields)
    BY <2>2 DEF DaemonInOrder, SentComplete, Complete
  <2>4. InStep(Append(handled, Plain(r)), sent, r.rest \o toDaemon)
    BY <1>2, <1>3, <1>4, <2>1, <2>2, <2>3, InStepRead
  <2> QED
    BY <1>2, <2>4
<1> QED
  BY <1>2, <1>5, <1>6 DEF DaemonInOrder, SentComplete, Gone, InStep

\* The other steps leave the daemon what it was sent.
LEMMA OthersDaemonInOrder ==
    ASSUME TypeInv, DaemonInOrder, DeliverToGreeter \/ DisplayAnswers \/ GreeterReads \/ Quiet
    PROVE  DaemonInOrder'
<1>1. UNCHANGED <<daemonBuffer, sent, handled>> /\ (cut => cut')
  <2>1. ASSUME GreeterReads PROVE UNCHANGED <<daemonBuffer, sent, handled>> /\ (cut => cut')
    BY <2>1 DEF GreeterReads, daemonVars
  <2>2. ASSUME DeliverToGreeter \/ DisplayAnswers
        PROVE  UNCHANGED <<daemonBuffer, sent, handled, cut>>
    BY <2>2 DEF DeliverToGreeter, DisplayAnswers, daemonVars
  <2>3. ASSUME Quiet PROVE UNCHANGED <<daemonBuffer, sent, handled, cut>>
    BY <2>3 DEF Quiet, ScreenChanges, Stop, DeleteServer, Disconnected, GreeterDies,
         SocketDisconnected, daemonVars
  <2> QED
    BY <2>1, <2>2, <2>3
<1>2. CASE DeleteServer
  <2>1. /\ server' = "gone" /\ daemonBuffer' = <<>> /\ toDaemon' = <<>>
        /\ link' \in {"none", "closed"}
    BY <1>2 DEF DeleteServer, Idle
  <2>2. Gone'
    BY <2>1 DEF Gone
  <2> QED
    BY <1>1, <2>1, <2>2 DEF DaemonInOrder, SentComplete
<1>3. CASE ~DeleteServer
  <2>1. toDaemon' = toDaemon
    BY <1>3 DEF DeliverToGreeter, DisplayAnswers, GreeterReads, Quiet, ScreenChanges, Stop,
         Disconnected, GreeterDies, SocketDisconnected
  <2>2. server' = server \/ (server = "up" /\ server' = "stopping")
    BY <1>3 DEF DeliverToGreeter, DisplayAnswers, GreeterReads, Quiet, ScreenChanges, Stop,
         Disconnected, GreeterDies, SocketDisconnected, daemonVars
  <2>3. link' = link \/ (link = "open" /\ link' = "hungup") \/ link' = "closed"
    BY <1>3 DEF DeliverToGreeter, DisplayAnswers, GreeterReads, HangUp, Quiet, ScreenChanges,
         Stop, Disconnected, GreeterDies, SocketDisconnected
  <2>4. Gone'
    BY <1>1, <2>1, <2>2, <2>3 DEF DaemonInOrder, Gone
  <2> QED
    BY <1>1, <2>1, <2>2, <2>4 DEF DaemonInOrder, SentComplete
<1> QED
  BY <1>2, <1>3

\* The daemon's side is inductive.
LEMMA StepDaemonInOrder == TypeInv /\ Genuine /\ DaemonInOrder /\ [Next]_vars => DaemonInOrder'
<1> SUFFICES ASSUME TypeInv, Genuine, DaemonInOrder, [Next]_vars PROVE DaemonInOrder'
  OBVIOUS
<1>1. CASE ProxyLogin \/ ProxyPower
  BY <1>1, ProxySays, SaysInOrder DEF TypeInv
<1>2. CASE UNCHANGED vars
  BY <1>2 DEF DaemonInOrder, SentComplete, Gone, vars, daemonVars, greeterVars
<1> QED
  BY <1>1, <1>2, StartupInOrder, DeliverToDaemonInOrder, DaemonReadsInOrder,
     OthersDaemonInOrder DEF Next, Reading, Daemon, Greeter, Environment, Quiet

-----------------------------------------------------------------------------
(***************************************************************************)
(* In order: what the greeter reads.                                       *)
(***************************************************************************)
\* One more message to the greeter.
LEMMA GreeterSend ==
    ASSUME TypeInv, NEW wire \in Seq(Token), NEW ms \in Seq(Message), NEW w \in Message, Full(w),
           \A j \in 1 .. Len(ms) : ms[j] \in {x \in Message : Full(x)},
           ~cut => InStep(heard, ms, greeterBuffer \o wire)
    PROVE  /\ \A j \in 1 .. Len(Log(ms, w)) : Log(ms, w)[j] \in {x \in Message : Full(x)}
           /\ ~cut => InStep(heard, Log(ms, w), greeterBuffer \o Write(wire, w))
           /\ Write(wire, w) \in Seq(Token) /\ Log(ms, w) \in Seq(Message)
<1> DEFINE P == {x \in Message : Full(x)}
<1>1. (\A j \in 1 .. Len(ms) : ms[j] \in P) /\ w \in P
  OBVIOUS
<1> HIDE DEF P
<1>2. \A j \in 1 .. Len(Log(ms, w)) : Log(ms, w)[j] \in P
  BY <1>1, LogAll
<1>3. heard \in Seq(Message) /\ greeterBuffer \in Seq(Token)
  BY NamesAreTexts DEF TypeInv, WiresTyped, MessagesTyped
<1>4. ~cut => InStep(heard, Log(ms, w), greeterBuffer \o Write(wire, w))
  BY <1>3, InStepSend
<1>5. Write(wire, w) \in Seq(Token) /\ Log(ms, w) \in Seq(Message)
  BY TokenIsTok, WriteTypes, LogTypes DEF Message
<1> QED
  BY <1>2, <1>4, <1>5 DEF P

\* Of what the daemon writes no message is short of a field.
LEMMA AllFull ==
    /\ \A n \in Nat : LET w == Written(CapabilitiesMessage, <<Number(n)>>)
                      IN  w \in Message /\ Full(w)
    /\ LET w == Written(HostName, <<Text(Host)>>) IN w \in Message /\ Full(w)
    /\ LET w == Written(InformationMessage, <<Text(Host)>>) IN w \in Message /\ Full(w)
    /\ \A m \in {LoginSucceeded, LoginFailed} :
         LET w == Written(m, <<>>) IN w \in Message /\ Full(w)
<1>1. ASSUME NEW m \in Nat, NEW f \in Seq(Token), Len(f) = Len(GreeterFields(m)),
             NEW w, w = Written(m, f)
      PROVE  w \in Message /\ Full(w)
  <2>1. w \in Message /\ w.message = m /\ w.fields = f
    BY <1>1, WrittenTypes
  <2> QED
    BY <1>1, <2>1 DEF Full
<1>2. /\ CapabilitiesMessage \in Nat /\ HostName \in Nat /\ InformationMessage \in Nat
      /\ LoginSucceeded \in Nat /\ LoginFailed \in Nat
      /\ LoginSucceeded \notin {HostName, InformationMessage, CapabilitiesMessage}
      /\ LoginFailed \notin {HostName, InformationMessage, CapabilitiesMessage}
  BY DEF CapabilitiesMessage, HostName, InformationMessage, LoginSucceeded, LoginFailed
<1>3. <<Text(Host)>> \in Seq(Token) /\ Len(<<Text(Host)>>) = 1
  BY NameTypes, NamesAreTexts
<1>4. ASSUME NEW n \in Nat, NEW w, w = Written(CapabilitiesMessage, <<Number(n)>>)
      PROVE  w \in Message /\ Full(w)
  <2>1. <<Number(n)>> \in Seq(Token) /\ Len(<<Number(n)>>) = 1
    BY OfferTypes, NamesAreTexts
  <2>2. Len(GreeterFields(CapabilitiesMessage)) = 1
    BY GreeterFieldsTyped
  <2> QED
    BY <1>1, <1>2, <1>4, <2>1, <2>2
<1>5. ASSUME NEW m \in {HostName, InformationMessage}, NEW w, w = Written(m, <<Text(Host)>>)
      PROVE  w \in Message /\ Full(w)
  <2>1. Len(GreeterFields(m)) = 1 /\ m \in Nat
    BY <1>2, GreeterFieldsTyped
  <2> QED
    BY <1>1, <1>3, <1>5, <2>1
<1>6. ASSUME NEW m \in {LoginSucceeded, LoginFailed}, NEW w, w = Written(m, <<>>)
      PROVE  w \in Message /\ Full(w)
  <2>1. GreeterFields(m) = <<>> /\ m \in Nat
    BY <1>2, GreeterFieldsTyped
  <2>2. <<>> \in Seq(Token)
    BY NoField
  <2> QED
    BY <1>1, <1>6, <2>1, <2>2
<1> QED
  BY <1>4, <1>5, <1>6

\* The greeter's side when Display answers,
LEMMA AnswerInOrder ==
    ASSUME TypeInv, GreeterInOrder, NEW w \in Message, Full(w), Answer(w),
           UNCHANGED <<heard, greeterBuffer, cut>>
    PROVE  GreeterInOrder'
<1>1. toGreeter \in Seq(Token) /\ answers \in Seq(Message)
  BY NamesAreTexts DEF TypeInv, WiresTyped, MessagesTyped
<1>2. /\ toGreeter' = Write(toGreeter, w) /\ answers' = Log(answers, w)
      /\ heard' = heard /\ greeterBuffer' = greeterBuffer /\ cut' = cut
  BY DEF Answer
<1>3. /\ \A j \in 1 .. Len(Log(answers, w)) : Log(answers, w)[j] \in {x \in Message : Full(x)}
      /\ ~cut => InStep(heard, Log(answers, w), greeterBuffer \o Write(toGreeter, w))
  BY <1>1, GreeterSend DEF GreeterInOrder, AnswersFull
<1> QED
  BY <1>2, <1>3 DEF GreeterInOrder, AnswersFull

\* when the daemon answers Connect,
LEMMA WelcomeInOrder ==
    ASSUME TypeInv, GreeterInOrder, NEW allowed, Welcome(allowed),
           UNCHANGED <<heard, greeterBuffer>>, cut => cut'
    PROVE  GreeterInOrder'
<1>1. toGreeter \in Seq(Token) /\ answers \in Seq(Message)
  BY NamesAreTexts DEF TypeInv, WiresTyped, MessagesTyped
<1>2. PICK offer, name :
        /\ offer = Written(CapabilitiesMessage, <<Number(Flags(Capabilities(allowed)))>>)
        /\ name = Written(HostName, <<Text(Host)>>)
  OBVIOUS
<1>3. offer \in Message /\ Full(offer) /\ name \in Message /\ Full(name)
  BY <1>2, FlagsAreNat, AllFull
<1>4. /\ toGreeter' = Write(Write(toGreeter, offer), name)
      /\ answers' = Log(Log(answers, offer), name)
  BY <1>2 DEF Welcome
<1>5. PICK wire, ms : wire = Write(toGreeter, offer) /\ ms = Log(answers, offer)
  OBVIOUS
<1>6. /\ \A j \in 1 .. Len(ms) : ms[j] \in {x \in Message : Full(x)}
      /\ ~cut => InStep(heard, ms, greeterBuffer \o wire)
      /\ wire \in Seq(Token) /\ ms \in Seq(Message)
  BY <1>1, <1>3, <1>5, GreeterSend DEF GreeterInOrder, AnswersFull
<1>7. /\ \A j \in 1 .. Len(Log(ms, name)) : Log(ms, name)[j] \in {x \in Message : Full(x)}
      /\ ~cut => InStep(heard, Log(ms, name), greeterBuffer \o Write(wire, name))
  BY <1>3, <1>6, GreeterSend
<1> QED
  BY <1>4, <1>5, <1>7 DEF GreeterInOrder, AnswersFull

\* when the greeter receives,
LEMMA DeliverToGreeterInOrder ==
    ASSUME TypeInv, GreeterInOrder, DeliverToGreeter
    PROVE  GreeterInOrder'
<1>1. PICK n \in 1 .. Len(toGreeter) :
        /\ greeterBuffer' = SubSeq(toGreeter, 1, n)
        /\ toGreeter' = SubSeq(toGreeter, n + 1, Len(toGreeter))
  BY DeliverableIsPart DEF DeliverToGreeter, TypeInv, WiresTyped
<1>2. toGreeter \in Seq(Token) /\ greeterBuffer = <<>>
  BY NamesAreTexts DEF TypeInv, WiresTyped, DeliverToGreeter, Idle
<1>3. greeterBuffer' \o toGreeter' = greeterBuffer \o toGreeter
  BY <1>1, <1>2, Delivered, NothingBefore
<1> QED
  BY <1>3 DEF DeliverToGreeter, GreeterInOrder, AnswersFull

\* when it reads,
LEMMA GreeterReadsInOrder ==
    ASSUME TypeInv, GreeterInOrder, GreeterReads
    PROVE  GreeterInOrder'
<1>1. PICK r : r = GreeterRead
  OBVIOUS
<1>2. /\ greeterBuffer # <<>>
      /\ heard' = Append(heard, Plain(r))
      /\ greeterBuffer' = r.rest
      /\ cut' = (cut \/ ~r.whole)
      /\ UNCHANGED <<toGreeter, answers>>
  BY <1>1 DEF GreeterReads, GreeterRead
<1>3. /\ Found(Names, greeterBuffer, GreeterFields(r.message), r)
      /\ Left(greeterBuffer, GreeterFields(r.message), r)
      /\ Plain(r) \in Message
  BY <1>1, <1>2, GreeterTurn DEF TypeInv
<1>4. /\ greeterBuffer \in Seq(Token) /\ toGreeter \in Seq(Token)
      /\ answers \in Seq(Message) /\ heard \in Seq(Message)
  BY NamesAreTexts DEF TypeInv, WiresTyped, MessagesTyped
<1>6. ASSUME ~cut' PROVE InStep(heard', answers', greeterBuffer' \o toGreeter')
  <2>1. InStep(heard, answers, greeterBuffer \o toGreeter) /\ r.whole
    BY <1>2, <1>3, <1>6 DEF GreeterInOrder, Left
  <2>2. PICK blank : blank = GreeterFields(r.message)
    OBVIOUS
  <2>3. \A w : w \in Message /\ w.message = r.message
               /\ (\E j \in 1 .. Len(answers) : w = answers[j])
                 => Len(blank) = Len(w.fields)
    BY <2>2 DEF GreeterInOrder, AnswersFull, Full
  <2>4. InStep(Append(heard, Plain(r)), answers, r.rest \o toGreeter)
    BY <1>2, <1>3, <1>4, <2>1, <2>2, <2>3, InStepRead
  <2> QED
    BY <1>2, <2>4
<1> QED
  BY <1>2, <1>6 DEF GreeterInOrder, AnswersFull

\* when the daemon reads,
LEMMA DaemonReadsGreeterInOrder ==
    ASSUME TypeInv, GreeterInOrder, DaemonReads
    PROVE  GreeterInOrder'
<1>1. PICK m, f : HandleMessage(m, f)
  BY DEF DaemonReads
<1>2. UNCHANGED <<heard, greeterBuffer>> /\ (cut => cut')
  BY DEF DaemonReads, greeterVars
<1>3. CASE \E allowed \in Answers : Welcome(allowed)
  BY <1>2, <1>3, WelcomeInOrder
<1>4. CASE UNCHANGED <<toGreeter, answers>>
  BY <1>2, <1>4 DEF GreeterInOrder, AnswersFull
<1> QED
  BY <1>1, <1>3, <1>4 DEF HandleMessage

\* and when Display answers.
LEMMA DisplayAnswersInOrder ==
    ASSUME TypeInv, GreeterInOrder, DisplayAnswers
    PROVE  GreeterInOrder'
<1>1. UNCHANGED <<heard, greeterBuffer, cut>>
  BY DEF DisplayAnswers, greeterVars
<1>2. CASE \E m \in {LoginSucceeded, LoginFailed} : Answer(Written(m, <<>>))
  BY <1>1, <1>2, AllFull, AnswerInOrder
<1>3. CASE Answer(Written(InformationMessage, <<Text(Host)>>))
  BY <1>1, <1>3, AllFull, AnswerInOrder
<1> QED
  BY <1>2, <1>3 DEF DisplayAnswers

\* The greeter's side is inductive.
LEMMA StepGreeterInOrder == TypeInv /\ GreeterInOrder /\ [Next]_vars => GreeterInOrder'
<1> SUFFICES ASSUME TypeInv, GreeterInOrder, [Next]_vars PROVE GreeterInOrder'
  OBVIOUS
<1>1. CASE ProxyLogin \/ ProxyPower \/ Startup \/ DeliverToDaemon \/ Quiet \/ UNCHANGED vars
  <2>1. UNCHANGED <<heard, answers, greeterBuffer, toGreeter, cut>>
    BY <1>1 DEF ProxyLogin, ProxyPower, Startup, DeliverToDaemon, Quiet, ScreenChanges, Stop,
       DeleteServer, Disconnected, GreeterDies, SocketDisconnected, vars, greeterVars
  <2> QED
    BY <2>1 DEF GreeterInOrder, AnswersFull
<1> QED
  BY <1>1, DeliverToGreeterInOrder, GreeterReadsInOrder, DaemonReadsGreeterInOrder,
     DisplayAnswersInOrder DEF Next, Reading, Daemon, Greeter, Environment, Quiet

\* Unless a message was cut, either side reads what the other wrote, in this
\* order and with these fields, however many messages come in one readyRead; and
\* all of it, when it has read all that was delivered.
THEOREM Order == Spec => []InOrder
<1> DEFINE Inv == TypeInv /\ Genuine /\ DaemonInOrder /\ GreeterInOrder
<1>1. Init => Inv
  BY InitTyped, InitGenuine, InitInOrder
<1>2. Inv /\ [Next]_vars => Inv'
  BY StepTyped, StepGenuine, StepDaemonInOrder, StepGreeterInOrder
<1>3. Inv => InOrder
  BY InOrderImplies
<1> QED
  BY <1>1, <1>2, <1>3, PTL DEF Spec

-----------------------------------------------------------------------------
(***************************************************************************)
(* What is done is asked for.                                              *)
(***************************************************************************)
\* How many of a list are in T.
CountIn(s, T) == Cardinality({i \in 1 .. Len(s) : s[i] \in T})

\* One more at the end of a list is one more of those in T, or none.
LEMMA OneMore ==
    ASSUME NEW S, NEW s \in Seq(S), NEW e \in S, NEW T
    PROVE  /\ CountIn(s, T) \in Nat
           /\ CountIn(Append(s, e), T) = CountIn(s, T) + (IF e \in T THEN 1 ELSE 0)
<1>1. PICK new, L : new = Append(s, e) /\ L = Len(s) /\ L \in Nat
  BY LenProperties
<1>2. Len(new) = L + 1 /\ new[L + 1] = e /\ \A i \in 1 .. L : new[i] = s[i]
  BY <1>1, AppendProperties
<1> DEFINE old == {i \in 1 .. L : s[i] \in T}
           all == {i \in 1 .. Len(new) : new[i] \in T}
<1>3. IsFiniteSet(old)
  <2>1. IsFiniteSet(1 .. L)
    BY <1>1, FS_Interval
  <2>2. old \subseteq 1 .. L
    OBVIOUS
  <2> HIDE DEF old
  <2> QED
    BY <2>1, <2>2, FS_Subset
<1>4. Cardinality(old) \in Nat
  <2> HIDE DEF old
  <2> QED
    BY <1>3, FS_CardinalityType
<1>5. CASE e \in T
  <2>1. all = old \union {L + 1}
    BY <1>1, <1>2, <1>5
  <2>2. L + 1 \notin old
    BY <1>1
  <2> HIDE DEF old, all
  <2>3. Cardinality(all) = Cardinality(old) + 1
    BY <1>3, <2>1, <2>2, FS_AddElement
  <2> QED
    BY <1>1, <1>4, <1>5, <2>3 DEF old, all, CountIn
<1>6. CASE e \notin T
  <2>1. all = old
    BY <1>1, <1>2, <1>6
  <2>2. Cardinality(all) = Cardinality(old) + 0
    <3> HIDE DEF old, all
    <3> QED
      BY <1>4, <2>1
  <2> QED
    BY <1>1, <1>4, <1>6, <2>2 DEF old, all, CountIn
<1> QED
  BY <1>5, <1>6

\* What is done, and what is asked for, of an operation.
Acts == [operation : Operations, backend : {"login1", "ck2", "upower"}]
Done(s, op) == Cardinality({i \in 1 .. Len(s) : s[i].operation = op})
Wanted(ms, op) == Cardinality({i \in 1 .. Len(ms) : ms[i].message = op})

\* One more is done,
LEMMA OneDone ==
    ASSUME NEW s \in Seq(Acts), NEW e \in Acts, NEW op
    PROVE  /\ Done(s, op) \in Nat
           /\ Done(Append(s, e), op) = Done(s, op) + (IF e.operation = op THEN 1 ELSE 0)
<1> DEFINE T == {x \in Acts : x.operation = op}
<1>1. ASSUME NEW q \in Seq(Acts)
      PROVE  {i \in 1 .. Len(q) : q[i].operation = op} = {i \in 1 .. Len(q) : q[i] \in T}
  BY ElementOfSeq
<1>2. Append(s, e) \in Seq(Acts)
  BY AppendProperties
<1>3. e \in T <=> e.operation = op
  OBVIOUS
<1> HIDE DEF T
<1>4. /\ CountIn(s, T) \in Nat
      /\ CountIn(Append(s, e), T) = CountIn(s, T) + (IF e \in T THEN 1 ELSE 0)
  BY OneMore
<1> QED
  BY <1>1, <1>2, <1>3, <1>4 DEF Done, CountIn

\* a number in any case,
LEMMA DoneIsNat == ASSUME NEW s \in Seq(Acts), NEW op PROVE Done(s, op) \in Nat
<1> DEFINE some == {i \in 1 .. Len(s) : s[i].operation = op}
<1>1. IsFiniteSet(1 .. Len(s))
  BY LenProperties, FS_Interval
<1>2. some \subseteq 1 .. Len(s)
  OBVIOUS
<1> HIDE DEF some
<1>3. Cardinality(some) \in Nat
  BY <1>1, <1>2, FS_Subset, FS_CardinalityType
<1> QED
  BY <1>3 DEF some, Done

\* and one more is asked for.
LEMMA OneWanted ==
    ASSUME NEW ms \in Seq(Message), NEW w \in Message, NEW op
    PROVE  /\ Wanted(ms, op) \in Nat
           /\ Wanted(Append(ms, w), op) = Wanted(ms, op) + (IF w.message = op THEN 1 ELSE 0)
<1> DEFINE T == {x \in Message : x.message = op}
<1>1. ASSUME NEW q \in Seq(Message)
      PROVE  {i \in 1 .. Len(q) : q[i].message = op} = {i \in 1 .. Len(q) : q[i] \in T}
  BY ElementOfSeq
<1>2. Append(ms, w) \in Seq(Message)
  BY AppendProperties
<1>3. w \in T <=> w.message = op
  OBVIOUS
<1> HIDE DEF T
<1>4. /\ CountIn(ms, T) \in Nat
      /\ CountIn(Append(ms, w), T) = CountIn(ms, T) + (IF w \in T THEN 1 ELSE 0)
  BY OneMore
<1> QED
  BY <1>1, <1>2, <1>3, <1>4 DEF Wanted, CountIn

\* A message is performed at most once.
LEMMA PerformedOnce ==
    ASSUME ActsTyped, NEW m, NEW allowed \in Answers, Perform(m, allowed)
    PROVE  acts' = acts \/ \E e \in Acts : e.operation = m /\ acts' = Append(acts, e)
<1>1. CASE Able(m, allowed) = {}
  BY <1>1 DEF Perform
<1>2. CASE Able(m, allowed) # {}
  <2>1. PICK e : e = [operation |-> m, backend |-> Backends[Min(Able(m, allowed))]]
    OBVIOUS
  <2>2. acts' = Append(acts, e)
    BY <1>2, <2>1 DEF Perform
  <2>3. e \in Acts
    BY <1>2, <2>1, ActIsOne DEF Acts
  <2> QED
    BY <2>1, <2>2, <2>3
<1> QED
  BY <1>1, <1>2

\* So each is done no more often than it is asked for.
LEMMA ReadsOnce ==
    ASSUME TypeInv, ActsOnceAsked, DaemonReads
    PROVE  ActsOnceAsked'
<1>1. PICK r : r = DaemonRead
  OBVIOUS
<1>2. /\ daemonBuffer # <<>> /\ HandleMessage(r.message, r.fields)
      /\ handled' = Append(handled, Plain(r))
  BY <1>1 DEF DaemonReads, DaemonRead
<1>3. Plain(r) \in Message /\ Plain(r).message = r.message
  BY <1>1, <1>2, DaemonTurn DEF TypeInv
<1>4. handled \in Seq(Message) /\ acts \in Seq(Acts)
  BY DEF TypeInv, MessagesTyped, ActsTyped, Acts
<1>5. acts' = acts \/ \E e \in Acts : e.operation = r.message /\ acts' = Append(acts, e)
  BY <1>2, PerformedOnce DEF HandleMessage, TypeInv
<1>6. ASSUME NEW op \in Operations PROVE Done(acts', op) <= Wanted(handled', op)
  <2>1. Done(acts, op) <= Wanted(handled, op)
    BY DEF ActsOnceAsked, Done, Wanted
  <2>2. /\ Wanted(handled, op) \in Nat
        /\ Wanted(handled', op) = Wanted(handled, op) + (IF r.message = op THEN 1 ELSE 0)
    BY <1>2, <1>3, <1>4, OneWanted
  <2>3. CASE acts' = acts
    <3>1. Done(acts, op) \in Nat
      BY <1>4, DoneIsNat
    <3> QED
      BY <2>1, <2>2, <2>3, <3>1
  <2>4. CASE \E e \in Acts : e.operation = r.message /\ acts' = Append(acts, e)
    <3>1. PICK e \in Acts : e.operation = r.message /\ acts' = Append(acts, e)
      BY <2>4
    <3>2. /\ Done(acts, op) \in Nat
          /\ Done(acts', op) = Done(acts, op) + (IF r.message = op THEN 1 ELSE 0)
      BY <1>4, <3>1, OneDone
    <3> QED
      BY <2>1, <2>2, <3>2
  <2> QED
    BY <1>5, <2>3, <2>4
<1> QED
  BY <1>6 DEF ActsOnceAsked, Done, Wanted

\* However many back ends have an operation, it is done at most once for each
\* message that asks for it.
THEOREM ActOnce == Spec => []ActsOnceAsked
<1>1. Init => ActsOnceAsked
  <2> SUFFICES ASSUME Init, NEW op \in Operations
               PROVE  Done(acts, op) <= Wanted(handled, op)
    BY DEF ActsOnceAsked, Done, Wanted
  <2>1. acts = <<>> /\ handled = <<>>
    BY DEF Init
  <2>2. {i \in 1 .. Len(<<>>) : <<>>[i].operation = op} = {}
        /\ {i \in 1 .. Len(<<>>) : <<>>[i].message = op} = {}
    OBVIOUS
  <2>3. Cardinality({}) = 0
    BY FS_EmptySet
  <2> QED
    BY <2>1, <2>2, <2>3 DEF Done, Wanted
<1>2. TypeInv /\ ActsOnceAsked /\ [Next]_vars => ActsOnceAsked'
  <2> SUFFICES ASSUME TypeInv, ActsOnceAsked, [Next]_vars PROVE ActsOnceAsked'
    OBVIOUS
  <2>1. CASE DaemonReads
    BY <2>1, ReadsOnce
  <2>2. CASE UNCHANGED <<acts, handled>>
    BY <2>2 DEF ActsOnceAsked
  <2>3. DaemonReads \/ UNCHANGED <<acts, handled>>
    BY DEF Next, Reading, Daemon, Greeter, Environment, ProxyLogin, ProxyPower, Startup,
       DeliverToDaemon, DeliverToGreeter, DisplayAnswers, GreeterReads, ScreenChanges, Stop,
       DeleteServer, Disconnected, GreeterDies, SocketDisconnected, vars, daemonVars
  <2> QED
    BY <2>1, <2>2, <2>3
<1> QED
  BY <1>1, <1>2, InitTyped, StepTyped, PTL DEF Spec
=============================================================================
