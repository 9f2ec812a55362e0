-------------------------- MODULE PipeFraming_proofs --------------------------
(***************************************************************************)
(* Proofs about PipeFraming for any messages, sizes and bounds: the types  *)
(* hold always, and as long as no message has the delimiter in it and      *)
(* MaxBacklog messages fit the pipe and the buffer, the reader survives    *)
(* and the pipe is a Channel.                                              *)
(***************************************************************************)
EXTENDS PipeFraming, NumberInduction, TLAPS

\* No message is empty or has the delimiter in its text.
PlainText ==
    \A m \in Messages : Len(m) > 0 /\ \A i \in 1..Len(m) : m[i] # Delimiter

\* The pipe and the buffer take MaxBacklog messages of width w.
FitsIn(w) ==
    /\ \A m \in Messages : Len(m) + 1 <= w
    /\ MaxBacklog * w <= Capacity /\ MaxBacklog * w <= Buffer

Fits == \E w \in Nat : FitsIn(w)

Width == CHOOSE w \in Nat : FitsIn(w)

\* p is made of the messages ms, each with a delimiter behind it; the i-th one
\* ends at cut[i].
CutsAt(p, ms, cut) ==
    /\ cut \in [0..Len(ms) -> Nat] /\ cut[0] = 0 /\ cut[Len(ms)] = Len(p)
    /\ \A i \in 1..Len(ms) :
         /\ cut[i] = cut[i - 1] + Len(ms[i]) + 1 /\ cut[i] <= Len(p)
         /\ \A j \in 1..Len(ms[i]) : p[cut[i - 1] + j] = ms[i][j]
         /\ p[cut[i]] = Delimiter

FramedAs(p, ms) == \E cut : CutsAt(p, ms, cut)
-----------------------------------------------------------------------------
(* The pieces of a buffer *)

Empty == <<>>
One == <<Empty>>

Body(data, f, n) ==
    IF n = 0 THEN One
    ELSE IF data[n] = Delimiter THEN Append(f[n - 1], Empty)
    ELSE [f[n - 1] EXCEPT ![Len(f[n - 1])] = Append(@, data[n])]

\* The recursive function of Pieces exists.
LEMMA PiecesUnfold ==
    ASSUME NEW C, NEW data \in Seq(C)
    PROVE  \E f : /\ Pieces(data) = f[Len(data)]
                  /\ \A n \in 0..Len(data) : f[n] = Body(data, f, n)
<1> DEFINE len == Len(data)
           IsUpTo(f, m) == f = [n \in 0..m |-> Body(data, f, n)]
           upTo == CHOOSE f : IsUpTo(f, len)
<1>1. len \in Nat
  OBVIOUS
<1>2. \E f : IsUpTo(f, len)
  <2> DEFINE T == {m \in Nat : \E f : IsUpTo(f, m)}
  <2>1. 0 \in T
    <3>1. IsUpTo([n \in 0..0 |-> One], 0)
      BY DEF Body
    <3> QED BY <3>1
  <2>2. ASSUME NEW k \in 0..(len - 1), k \in T PROVE k + 1 \in T
    <3>1. PICK f : IsUpTo(f, k)
      BY <2>2
    <3> DEFINE m == k + 1
               g == [n \in 0..m |-> IF n = m THEN Body(data, f, m) ELSE f[n]]
    <3>2. k \in Nat /\ m \in Nat /\ m # 0 /\ m - 1 = k /\ \A j \in 0..k : g[j] = f[j]
      BY <1>1
    <3>3. ASSUME NEW n \in 0..m PROVE g[n] = Body(data, g, n)
      <4>1. CASE n = m
        <5>1. g[k] = f[k] /\ g[m] = Body(data, f, m)
          BY <3>2
        <5> HIDE DEF g
        <5> QED BY <3>2, <4>1, <5>1 DEF Body
      <4>2. CASE n # m
        <5>1. n \in 0..k
          BY <3>2, <4>2
        <5>2. g[n] = f[n] /\ (n # 0 => g[n - 1] = f[n - 1])
          BY <3>2, <5>1
        <5>3. f[n] = Body(data, f, n)
          BY <3>1, <5>1
        <5> HIDE DEF g
        <5> QED BY <5>2, <5>3 DEF Body
      <4> QED BY <4>1, <4>2
    <3>4. IsUpTo(g, m)
      BY <3>3
    <3> HIDE DEF g, IsUpTo
    <3> QED BY <3>2, <3>4
  <2>3. \A m \in 0..len : m \in T
    <3> HIDE DEF T
    <3> QED BY <1>1, <2>1, <2>2, UpTo
  <2>4. len \in T
    <3> HIDE DEF T
    <3> QED BY <1>1, <2>3
  <2> HIDE DEF IsUpTo
  <2> QED BY <2>4
<1>3. IsUpTo(upTo, len)
  BY <1>2, Zenon
<1>4. Pieces(data) = upTo[len]
  BY Zenon DEF Pieces, Body, One, Empty
<1> HIDE DEF upTo
<1>5. \A n \in 0..len : upTo[n] = Body(data, upTo, n)
  BY <1>3
<1> QED BY <1>4, <1>5

LEMMA EmptyList ==
    ASSUME NEW C
    PROVE  /\ Empty \in Seq(C) /\ One \in Seq(Seq(C)) /\ Len(Empty) = 0 /\ Len(One) = 1
           /\ One = Append(Empty, Empty)
<1>1. Empty \in Seq(C) /\ Len(Empty) = 0
  BY DEF Empty
<1>2. One \in Seq(Seq(C)) /\ Len(One) = 1
  BY <1>1 DEF One
<1>3. One = Append(Empty, Empty)
  BY DEF Empty, One
<1> QED BY <1>1, <1>2, <1>3

\* What the next member of the list adds.
LEMMA BodyIs ==
    ASSUME NEW data, NEW f
    PROVE  /\ Body(data, f, 0) = One
           /\ \A n \in Nat \ {0} : data[n] # Delimiter =>
                 Body(data, f, n) = [f[n - 1] EXCEPT ![Len(f[n - 1])] = Append(@, data[n])]
BY DEF Body

LEMMA BodyCuts ==
    ASSUME NEW data, NEW f, NEW n, n # 0, data[n] = Delimiter
    PROVE  Body(data, f, n) = Append(f[n - 1], Empty)
BY Zenon DEF Body

\* Cutting a list at its delimiters gives at least one list of its members.
LEMMA PiecesType ==
    ASSUME NEW C, NEW data \in Seq(C)
    PROVE  Pieces(data) \in Seq(Seq(C)) /\ Len(Pieces(data)) >= 1
<1> DEFINE len == Len(data)
<1>1. PICK f : Pieces(data) = f[len] /\ \A n \in 0..len : f[n] = Body(data, f, n)
  BY PiecesUnfold
<1>2. len \in Nat
  OBVIOUS
<1> DEFINE T == {n \in 0..len : f[n] \in Seq(Seq(C)) /\ Len(f[n]) >= 1}
<1>3. 0 \in T
  <2>1. f[0] = One
    <3>1. f[0] = Body(data, f, 0)
      BY <1>1, <1>2
    <3> QED BY <3>1, BodyIs
  <2> QED BY <1>2, <2>1, EmptyList
<1>4. ASSUME NEW k \in 0..(len - 1), k \in T PROVE k + 1 \in T
  <2> DEFINE m == k + 1
             t == f[k]
  <2>1. m \in 1..len /\ m - 1 = k /\ m # 0 /\ data[m] \in C
    BY <1>2
  <2>2. t \in Seq(Seq(C)) /\ Len(t) >= 1
    BY <1>4
  <2>3. f[m] = IF data[m] = Delimiter THEN Append(t, Empty)
               ELSE [t EXCEPT ![Len(t)] = Append(@, data[m])]
    <3>1. f[m] = Body(data, f, m) /\ m \in Nat \ {0}
      BY <1>1, <1>2, <2>1
    <3>2. f[m - 1] = t
      BY <2>1
    <3> HIDE DEF m, t
    <3>3. CASE data[m] = Delimiter
      <4>1. f[m] = Append(f[m - 1], Empty)
        BY <3>1, <3>3, BodyCuts, Zenon
      <4> QED BY <3>2, <3>3, <4>1, Zenon
    <3>4. CASE data[m] # Delimiter
      <4>1. f[m] = [f[m - 1] EXCEPT ![Len(f[m - 1])] = Append(@, data[m])]
        BY <3>1, <3>4, BodyIs
      <4> QED BY <3>2, <3>4, <4>1
    <3> QED BY <3>3, <3>4
  <2> HIDE DEF t
  <2>4. Len(t) \in 1..Len(t) /\ t[Len(t)] \in Seq(C)
    BY <2>2
  <2>5. Append(t[Len(t)], data[m]) \in Seq(C)
    BY <2>1, <2>4
  <2>6. CASE data[m] = Delimiter
    <3>1. f[m] = Append(t, Empty) /\ Empty \in Seq(C)
      BY <2>3, <2>6, EmptyList
    <3>2. f[m] \in Seq(Seq(C)) /\ Len(f[m]) = Len(t) + 1
      BY <2>2, <3>1
    <3> QED BY <2>1, <2>2, <3>2
  <2>7. CASE data[m] # Delimiter
    <3>1. f[m] = [t EXCEPT ![Len(t)] = Append(t[Len(t)], data[m])]
      BY <2>2, <2>3, <2>4, <2>7
    <3>2. f[m] \in Seq(Seq(C)) /\ Len(f[m]) = Len(t)
      BY <2>2, <2>5, <3>1
    <3> QED BY <2>1, <2>2, <3>2
  <2> QED BY <2>6, <2>7
<1>5. \A n \in 0..len : n \in T
  <2> HIDE DEF T
  <2> QED BY <1>2, <1>3, <1>4, UpTo
<1>6. len \in T
  <2> HIDE DEF T
  <2> QED BY <1>2, <1>5
<1> QED BY <1>1, <1>6

\* A list with the members of q and b behind them.
LEMMA AppendIs ==
    ASSUME NEW S, NEW q \in Seq(S), NEW b \in S, NEW l \in Seq(S), Len(l) = Len(q) + 1,
           l[Len(q) + 1] = b, \A i \in 1..Len(q) : l[i] = q[i]
    PROVE  l = Append(q, b)
<1> DEFINE n == Len(q) + 1
           r == Append(q, b)
<1>1. /\ r \in Seq(S) /\ DOMAIN r = 1..n /\ r[n] = b /\ Len(r) = n
      /\ \A i \in 1..Len(q) : r[i] = q[i]
  OBVIOUS
<1>2. \A i \in 1..n : l[i] = r[i]
  BY <1>1
<1> HIDE DEF r
<1>3. l = r
  BY <1>1, <1>2
<1> QED BY <1>3 DEF r

\* The pieces of framed messages are the messages, and an empty rest.
LEMMA PiecesOfFramed ==
    ASSUME NEW C, NEW data \in Seq(C), NEW ms \in Seq(Seq(C)), FramedAs(data, ms),
           \A i \in 1..Len(ms) : \A j \in 1..Len(ms[i]) : ms[i][j] # Delimiter
    PROVE  Pieces(data) = Append(ms, Empty)
<1> DEFINE len == Len(data)
           num == Len(ms)
<1>1. PICK f : Pieces(data) = f[len] /\ \A n \in 0..len : f[n] = Body(data, f, n)
  BY PiecesUnfold
<1>2. PICK cut : CutsAt(data, ms, cut)
  BY DEF FramedAs
<1>3. /\ len \in Nat /\ num \in Nat /\ cut[0] = 0 /\ cut[num] = len
      /\ \A i \in 0..num : cut[i] \in Nat
      /\ \A i \in 1..num :
            /\ ms[i] \in Seq(C) /\ Len(ms[i]) \in Nat
            /\ cut[i] = cut[i - 1] + Len(ms[i]) + 1 /\ cut[i] <= len
            /\ \A j \in 1..Len(ms[i]) : data[cut[i - 1] + j] = ms[i][j]
            /\ data[cut[i]] = Delimiter
  <2>1. len \in Nat /\ num \in Nat /\ \A i \in 1..num : ms[i] \in Seq(C)
    OBVIOUS
  <2>2. \A i \in 1..num : Len(ms[i]) \in Nat
    BY <2>1
  <2> QED BY <1>2, <2>1, <2>2 DEF CutsAt
<1> DEFINE T == {i \in 0..num : f[cut[i]] = Append(SubSeq(ms, 1, i), Empty)}
<1>4. 0 \in T
  <2>1. f[0] = One
    <3>1. f[0] = Body(data, f, 0)
      BY <1>1, <1>3
    <3> QED BY <3>1, BodyIs
  <2>2. SubSeq(ms, 1, 0) = Empty
    BY DEF Empty
  <2>3. One = Append(SubSeq(ms, 1, 0), Empty)
    BY <2>2, EmptyList
  <2> QED BY <1>3, <2>1, <2>3
<1>5. ASSUME NEW k \in 0..(num - 1), k \in T PROVE k + 1 \in T
  <2> DEFINE i == k + 1
             m == ms[i]
             done == SubSeq(ms, 1, k)
             at == cut[k]
             U == {j \in 0..Len(m) : f[at + j] = Append(done, SubSeq(m, 1, j))}
  <2>1. i \in 1..num /\ i - 1 = k /\ k \in Nat /\ k \in 0..num
    BY <1>3
  <2>2. /\ m \in Seq(C) /\ Len(m) \in Nat /\ at \in Nat
        /\ cut[i] = at + Len(m) + 1 /\ cut[i] <= len /\ data[cut[i]] = Delimiter
        /\ \A j \in 1..Len(m) : data[at + j] = m[j]
    BY <1>3, <2>1
  <2>3. done \in Seq(Seq(C)) /\ Len(done) = k
    BY <1>3, <2>1
  <2>4. \A j \in 1..Len(m) : m[j] # Delimiter
    BY <2>1
  <2>5. f[at] = Append(done, Empty)
    BY <1>5
  <2> HIDE DEF m, done, at
  <2>6. 0 \in U
    <3>1. SubSeq(m, 1, 0) = Empty /\ at + 0 = at
      BY <2>2 DEF Empty
    <3>2. f[at + 0] = Append(done, SubSeq(m, 1, 0))
      BY <2>5, <3>1, Zenon
    <3>3. 0 \in 0..Len(m)
      BY <2>2
    <3> QED BY <3>2, <3>3, Zenon
  <2>7. ASSUME NEW j \in 0..(Len(m) - 1), j \in U PROVE j + 1 \in U
    <3> DEFINE n == at + (j + 1)
               s == SubSeq(m, 1, j)
               t == Append(done, s)
    <3>1. n \in 0..len /\ n # 0 /\ n - 1 = at + j /\ j + 1 \in 1..Len(m) /\ j \in Nat
      BY <1>3, <2>2
    <3>2. data[n] = m[j + 1] /\ data[n] # Delimiter
      BY <2>2, <2>4, <3>1
    <3>3. f[n - 1] = t
      BY <2>7, <3>1
    <3>4. f[n] = [t EXCEPT ![Len(t)] = Append(t[Len(t)], m[j + 1])]
      <4>1. f[n] = [f[n - 1] EXCEPT ![Len(f[n - 1])] = Append(f[n - 1][Len(f[n - 1])], data[n])]
        BY <1>1, <3>1, <3>2 DEF Body
      <4> QED BY <3>2, <3>3, <4>1
    <3>5. s \in Seq(C)
      <4>1. m \in Seq(C) /\ j \in 0..Len(m)
        BY <2>2, <3>1
      <4> QED BY <4>1
    <3>6. Append(s, m[j + 1]) = SubSeq(m, 1, j + 1)
      BY <2>2, <3>1
    <3> HIDE DEF s
    <3>7. Len(t) = k + 1 /\ t[Len(t)] = s
      BY <2>1, <2>3, <3>5
    <3>8. f[n] = Append(done, Append(s, m[j + 1]))
      <4>1. Append(s, m[j + 1]) \in Seq(C)
        BY <2>2, <3>1, <3>5
      <4>2. Len(t) = Len(done) + 1
        BY <2>3, <3>7
      <4>3. f[n] = [t EXCEPT ![Len(done) + 1] = Append(s, m[j + 1])]
        BY <3>4, <3>7, <4>2
      <4> DEFINE x == Append(s, m[j + 1])
      <4> HIDE DEF x, n
      <4>4. f[n] = [t EXCEPT ![Len(done) + 1] = x] /\ x \in Seq(C) /\ t = Append(done, s)
        BY <4>1, <4>3 DEF x
      <4> HIDE DEF t
      <4>5. /\ t \in Seq(Seq(C)) /\ DOMAIN t = 1..(Len(done) + 1) /\ Len(t) = Len(done) + 1
            /\ \A a \in 1..Len(done) : t[a] = done[a]
        BY <2>3, <3>5, <4>4
      <4>6. /\ f[n] \in Seq(Seq(C)) /\ Len(f[n]) = Len(done) + 1 /\ f[n][Len(done) + 1] = x
            /\ \A a \in 1..Len(done) : f[n][a] = done[a]
        <5>1. Len(done) + 1 \in DOMAIN t /\ Len(done) \in Nat
          BY <2>1, <2>3, <4>5
        <5>2. f[n] \in Seq(Seq(C)) /\ DOMAIN f[n] = DOMAIN t
          BY <4>4, <4>5, <5>1
        <5>3. Len(f[n]) = Len(done) + 1
          BY <4>5, <5>1, <5>2
        <5>4. f[n][Len(done) + 1] = x
          BY <4>4, <5>1
        <5>5. ASSUME NEW a \in 1..Len(done) PROVE f[n][a] = done[a]
          <6>1. a # Len(done) + 1 /\ a \in DOMAIN t
            BY <4>5, <5>1
          <6>2. f[n][a] = t[a]
            BY <4>4, <6>1
          <6> QED BY <4>5, <6>2
        <5> QED BY <5>2, <5>3, <5>4, <5>5
      <4>7. f[n] = Append(done, x)
        BY <2>3, <4>4, <4>6, AppendIs
      <4> QED BY <4>7 DEF x
    <3>9. f[at + (j + 1)] = Append(done, SubSeq(m, 1, j + 1))
      BY <3>6, <3>8, Zenon
    <3>10. j + 1 \in 0..Len(m)
      BY <2>2, <3>1
    <3> QED BY <3>9, <3>10, Zenon
  <2>8. \A j \in 0..Len(m) : j \in U
    <3> HIDE DEF U
    <3> QED BY <2>2, <2>6, <2>7, UpTo
  <2>9. f[at + Len(m)] = Append(done, m)
    <3>1. Len(m) \in U /\ SubSeq(m, 1, Len(m)) = m
      BY <2>2, <2>8
    <3> QED BY <3>1
  <2>10. f[cut[i]] = Append(Append(done, m), Empty)
    <3> DEFINE n == cut[i]
    <3>1. n \in 0..len /\ n \in Nat \ {0} /\ n - 1 = at + Len(m) /\ data[n] = Delimiter
      BY <1>3, <2>2
    <3> HIDE DEF n
    <3>2. f[n] = Body(data, f, n)
      BY <1>1, <3>1
    <3>3. f[n] = Append(f[n - 1], Empty)
      BY <3>1, <3>2, BodyCuts, Zenon
    <3> QED BY <2>9, <3>1, <3>3 DEF n
  <2>11. Append(done, m) = SubSeq(ms, 1, i)
    BY <1>3, <2>1 DEF done, m
  <2> QED BY <2>1, <2>10, <2>11
<1>6. \A i \in 0..num : i \in T
  <2> HIDE DEF T
  <2> QED BY <1>3, <1>4, <1>5, UpTo
<1>7. f[len] = Append(SubSeq(ms, 1, num), Empty)
  <2>1. num \in T
    <3> HIDE DEF T
    <3> QED BY <1>3, <1>6
  <2> QED BY <1>3, <2>1
<1>8. SubSeq(ms, 1, num) = ms
  OBVIOUS
<1> QED BY <1>1, <1>7, <1>8
-----------------------------------------------------------------------------
(* What the two readers hand to their handlers *)

LEMMA CommandTokensType ==
    ASSUME NEW C, NEW data \in Seq(C)
    PROVE  CommandTokens(data) \in Seq(Seq(C))
<1> DEFINE pieces == Pieces(data)
           empty == {i \in 1..Len(pieces) : pieces[i] = <<>>}
           first == CHOOSE i \in empty : \A j \in empty : i <= j
<1>1. pieces \in Seq(Seq(C)) /\ Len(pieces) \in Nat
  BY PiecesType
<1>2. CommandTokens(data) = IF empty = {} THEN pieces ELSE SubSeq(pieces, 1, first - 1)
  BY DEF CommandTokens
<1> HIDE DEF pieces
<1>3. ASSUME empty # {} PROVE first \in 1..Len(pieces)
  <2>1. empty \subseteq Nat
    BY <1>1
  <2>2. \E i \in empty : \A j \in empty : i <= j
    <3> HIDE DEF empty
    <3> QED BY <1>3, <2>1, LeastNumber
  <2> QED BY <2>2
<1> HIDE DEF first, empty
<1>4. CASE empty = {}
  BY <1>1, <1>2, <1>4
<1>5. CASE empty # {}
  <2>1. first - 1 \in 0..Len(pieces)
    BY <1>1, <1>3, <1>5
  <2>2. SubSeq(pieces, 1, first - 1) \in Seq(Seq(C))
    BY <1>1, <2>1
  <2> QED BY <1>2, <1>5, <2>2
<1> QED BY <1>4, <1>5

LEMMA ReplyTokensType ==
    ASSUME NEW C, NEW data \in Seq(C)
    PROVE  ReplyTokens(data) \in Seq(Seq(C))
<1> DEFINE pieces == Pieces(data)
           replies == SubSeq(pieces, 1, Len(pieces) - 1)
           again == IF replies = Empty THEN Empty ELSE replies[Len(replies)]
<1>1. pieces \in Seq(Seq(C)) /\ Len(pieces) \in Nat /\ Len(pieces) >= 1
  BY PiecesType
<1>2. ReplyTokens(data) = replies \/ ReplyTokens(data) = Append(replies, again)
  BY Zenon DEF ReplyTokens, Front, Last, Empty
<1> HIDE DEF pieces
<1>3. replies \in Seq(Seq(C))
  BY <1>1
<1> HIDE DEF replies
<1>4. again \in Seq(C)
  <2>1. CASE replies = Empty
    BY <2>1, EmptyList
  <2>2. CASE replies # Empty
    BY <1>3, <2>2 DEF Empty
  <2> QED BY <2>1, <2>2
<1> HIDE DEF again
<1>5. Append(replies, again) \in Seq(Seq(C))
  BY <1>3, <1>4
<1> QED BY <1>2, <1>3, <1>5, Zenon

\* Both hand on the messages, and nothing else.
LEMMA TokensOfFramed ==
    ASSUME NEW C, NEW data \in Seq(C), NEW ms \in Seq(Seq(C)), FramedAs(data, ms),
           \A i \in 1..Len(ms) : Len(ms[i]) > 0,
           \A i \in 1..Len(ms) : \A j \in 1..Len(ms[i]) : ms[i][j] # Delimiter
    PROVE  CommandTokens(data) = ms /\ ReplyTokens(data) = ms
<1> DEFINE pieces == Pieces(data)
           num == Len(ms)
<1>1. pieces = Append(ms, Empty)
  BY PiecesOfFramed
<1>2. /\ num \in Nat /\ pieces \in Seq(Seq(C)) /\ Len(pieces) = num + 1 /\ pieces[num + 1] = Empty
      /\ \A i \in 1..num : pieces[i] = ms[i]
  BY <1>1, EmptyList
<1> HIDE DEF pieces
<1>3. SubSeq(pieces, 1, num) = ms
  BY <1>2
<1>4. ReplyTokens(data) = ms
  <2>1. num + 1 - 1 = num
    BY <1>2
  <2>2. pieces[Len(pieces)] = <<>> /\ SubSeq(pieces, 1, Len(pieces) - 1) = ms
    BY <1>2, <1>3, <2>1 DEF Empty
  <2> QED BY <2>2 DEF ReplyTokens, Front, Last, pieces
<1>5. CommandTokens(data) = ms
  <2> DEFINE empty == {i \in 1..Len(pieces) : pieces[i] = <<>>}
             first == CHOOSE i \in empty : \A j \in empty : i <= j
  <2>1. \A i \in 1..num : ms[i] # <<>>
    OBVIOUS
  <2>2. empty = {num + 1}
    <3>1. num + 1 \in 1..Len(pieces) /\ pieces[num + 1] = <<>>
      BY <1>2 DEF Empty
    <3>2. ASSUME NEW i \in 1..Len(pieces), pieces[i] = <<>> PROVE i = num + 1
      <4>1. CASE i \in 1..num
        <5>1. pieces[i] = ms[i]
          BY <1>2, <4>1
        <5> QED BY <2>1, <3>2, <4>1, <5>1, Zenon
      <4>2. CASE i \notin 1..num
        BY <1>2, <4>2
      <4> QED BY <4>1, <4>2
    <3> QED BY <3>1, <3>2, Zenon
  <2>3. first = num + 1
    <3> HIDE DEF empty
    <3> QED BY <1>2, <2>2
  <2>4. CommandTokens(data) = IF empty = {} THEN pieces ELSE SubSeq(pieces, 1, first - 1)
    BY DEF CommandTokens, pieces
  <2> HIDE DEF first, empty
  <2>5. first - 1 = num /\ empty # {}
    BY <1>2, <2>2, <2>3
  <2> QED BY <1>3, <2>4, <2>5
<1> QED BY <1>4, <1>5
-----------------------------------------------------------------------------
(* Types *)

LEMMA Messages_ ==
    ASSUME NEW m \in Messages
    PROVE  m \in Seq(Chunks) /\ Framed(m) \in Seq(Chunks) /\ Delimiter \in Chunks
<1>1. m \in Seq(Range(m))
  BY PipeFramingAssumption
<1>2. Range(m) \subseteq Chunks /\ Delimiter \in Chunks
  <2>1. ASSUME NEW c \in Range(m) PROVE c \in UNION {Range(l) : l \in Messages}
    BY Zenon
  <2> QED BY <2>1, Zenon DEF Chunks
<1>3. m \in Seq(Chunks)
  BY <1>1, <1>2
<1> QED BY <1>2, <1>3 DEF Framed

\* What a read takes, and what it leaves.
LEMMA DataType ==
    ASSUME TypeOK
    PROVE  /\ Data \in Seq(Chunks) /\ Len(Data) = Smaller(Len(pipe), Buffer)
           /\ SubSeq(pipe, Len(Data) + 1, Len(pipe)) \in Seq(Chunks)
           /\ Len(SubSeq(pipe, Len(Data) + 1, Len(pipe))) <= Len(pipe)
<1> DEFINE n == Smaller(Len(pipe), Buffer)
<1>1. pipe \in Seq(Chunks) /\ Len(pipe) \in Nat
  BY DEF TypeOK
<1>2. n \in 0..Len(pipe)
  BY <1>1, PipeFramingAssumption DEF Smaller
<1> HIDE DEF n
<1>3. SubSeq(pipe, 1, n) \in Seq(Chunks) /\ Len(SubSeq(pipe, 1, n)) = n
  BY <1>1, <1>2
<1>4. Data = SubSeq(pipe, 1, n)
  BY DEF Data, n
<1>5. /\ SubSeq(pipe, n + 1, Len(pipe)) \in Seq(Chunks)
      /\ Len(SubSeq(pipe, n + 1, Len(pipe))) = Len(pipe) - n
  BY <1>1, <1>2
<1> QED BY <1>1, <1>2, <1>3, <1>4, <1>5 DEF n

LEMMA TypeInit == Init => TypeOK
<1> SUFFICES ASSUME Init PROVE TypeOK
  OBVIOUS
<1>1. sent = Empty /\ writing = Empty /\ pipe = Empty /\ handled = Empty
  BY DEF Init, Empty
<1>2. /\ Empty \in Seq(Messages) /\ Empty \in Seq(Chunks) /\ Empty \in Seq(Seq(Chunks))
      /\ Len(Empty) = 0
  BY EmptyList
<1>3. Len(pipe) <= Capacity
  BY <1>1, <1>2, PipeFramingAssumption
<1> QED BY <1>1, <1>2, <1>3 DEF Init, TypeOK

LEMMA TypeStep == TypeOK /\ [Next]_vars => TypeOK'
<1> SUFFICES ASSUME TypeOK, [Next]_vars PROVE TypeOK'
  OBVIOUS
<1>1. ASSUME NEW m \in Messages, Send(m) PROVE TypeOK'
  BY <1>1, Messages_ DEF TypeOK, Send
<1>2. CASE Write
  <2> DEFINE n == Smaller(Len(writing), Capacity - Len(pipe))
             head == SubSeq(writing, 1, n)
             rest == SubSeq(writing, n + 1, Len(writing))
  <2>1. /\ writing \in Seq(Chunks) /\ pipe \in Seq(Chunks)
        /\ Len(writing) \in Nat /\ Len(pipe) \in Nat /\ Len(pipe) < Capacity
    BY <1>2 DEF TypeOK, Write
  <2>2. n \in 0..Len(writing) /\ n <= Capacity - Len(pipe)
    BY <2>1, PipeFramingAssumption DEF Smaller
  <2>3. pipe' = pipe \o head /\ writing' = rest
    BY <1>2 DEF Write
  <2> HIDE DEF n
  <2>4. head \in Seq(Chunks) /\ Len(head) = n /\ rest \in Seq(Chunks)
    BY <2>1, <2>2
  <2> HIDE DEF head, rest
  <2>5. pipe' \in Seq(Chunks) /\ Len(pipe') <= Capacity
    BY <2>1, <2>2, <2>3, <2>4, PipeFramingAssumption
  <2> QED BY <1>2, <2>3, <2>4, <2>5 DEF TypeOK, Write
<1>3. CASE ReadCommands
  <2>1. pipe' \in Seq(Chunks) /\ Len(pipe') <= Capacity
    BY <1>3, DataType, PipeFramingAssumption DEF ReadCommands, TypeOK
  <2>2. handled \o CommandTokens(Data) \in Seq(Seq(Chunks))
    <3>1. CommandTokens(Data) \in Seq(Seq(Chunks))
      BY DataType, CommandTokensType
    <3> QED BY <3>1 DEF TypeOK
  <2>3. handled' \in Seq(Seq(Chunks))
    BY <1>3, <2>2 DEF ReadCommands, TypeOK
  <2>4. exited' \in BOOLEAN
    BY <1>3, Zenon DEF ReadCommands
  <2> QED BY <1>3, <2>1, <2>3, <2>4 DEF ReadCommands, TypeOK
<1>4. CASE ReadReplies
  <2>1. pipe' \in Seq(Chunks) /\ Len(pipe') <= Capacity
    BY <1>4, DataType, PipeFramingAssumption DEF ReadReplies, TypeOK
  <2>2. handled' \in Seq(Seq(Chunks))
    <3>1. ReplyTokens(Data) \in Seq(Seq(Chunks))
      BY DataType, ReplyTokensType
    <3> QED BY <1>4, <3>1 DEF TypeOK, ReadReplies
  <2> QED BY <1>4, <2>1, <2>2 DEF ReadReplies, TypeOK
<1>5. CASE UNCHANGED vars
  BY <1>5 DEF TypeOK, vars
<1> QED BY <1>1, <1>2, <1>3, <1>4, <1>5 DEF Next

\* Whatever the messages and the sizes are, the pipe holds chunks of messages
\* and never more than it can take, and both handlers get lists of chunks.
THEOREM PipeTyped == Spec => []TypeOK
BY TypeInit, TypeStep, PTL DEF Spec
-----------------------------------------------------------------------------
(* Framed messages in the pipe *)

LEMMA FramedNothing == FramedAs(Empty, Empty)
<1> DEFINE cut == [i \in 0..0 |-> 0]
<1>1. Len(Empty) = 0
  BY EmptyList
<1>2. cut \in [0..Len(Empty) -> Nat] /\ cut[0] = 0 /\ cut[Len(Empty)] = Len(Empty)
  BY <1>1
<1>3. 1..Len(Empty) = {}
  BY <1>1
<1> HIDE DEF cut
<1>4. CutsAt(Empty, Empty, cut)
  BY <1>2, <1>3 DEF CutsAt
<1> QED BY <1>4 DEF FramedAs

LEMMA Between ==
    ASSUME NEW a \in Nat, NEW b \in Nat, NEW l \in Nat, NEW n \in Nat,
           b = a + l + 1, b <= n
    PROVE  b \in 1..n /\ \A j \in 1..l : a + j \in 1..n
OBVIOUS

\* write() puts one more framed message behind the others.
LEMMA FramedMore ==
    ASSUME NEW C, NEW p \in Seq(C), NEW ms \in Seq(Seq(C)), NEW m \in Seq(C),
           Delimiter \in C, FramedAs(p, ms)
    PROVE  FramedAs(p \o Append(m, Delimiter), Append(ms, m))
<1> DEFINE num == Len(ms)
           q == p \o Append(m, Delimiter)
           ns == Append(ms, m)
           end == Len(p) + Len(m) + 1
<1>1. PICK cut : CutsAt(p, ms, cut)
  BY DEF FramedAs
<1> DEFINE new == [i \in 0..(num + 1) |-> IF i = num + 1 THEN end ELSE cut[i]]
<1>2. /\ num \in Nat /\ Len(p) \in Nat /\ Len(m) \in Nat
      /\ Len(q) = end /\ q \in Seq(C) /\ ns \in Seq(Seq(C)) /\ Len(ns) = num + 1
      /\ ns[num + 1] = m /\ \A i \in 1..num : ns[i] = ms[i]
  OBVIOUS
<1>3. /\ \A j \in 1..Len(p) : q[j] = p[j]
      /\ \A j \in 1..Len(m) : q[Len(p) + j] = m[j]
      /\ q[end] = Delimiter
  OBVIOUS
<1>4. /\ cut \in [0..num -> Nat] /\ cut[0] = 0 /\ cut[num] = Len(p)
      /\ \A i \in 1..num :
            /\ ms[i] \in Seq(C) /\ Len(ms[i]) \in Nat
            /\ cut[i] = cut[i - 1] + Len(ms[i]) + 1 /\ cut[i] <= Len(p)
            /\ \A j \in 1..Len(ms[i]) : p[cut[i - 1] + j] = ms[i][j]
            /\ p[cut[i]] = Delimiter
  <2>1. \A i \in 1..num : ms[i] \in Seq(C)
    OBVIOUS
  <2>2. \A i \in 1..num : Len(ms[i]) \in Nat
    BY <2>1
  <2> QED BY <1>1, <2>1, <2>2 DEF CutsAt
<1> HIDE DEF q, ns
<1>5. /\ new \in [0..(num + 1) -> Nat] /\ new[num + 1] = end
      /\ \A i \in 0..num : new[i] = cut[i] /\ cut[i] \in Nat
  <2>1. num \in Nat /\ end \in Nat
    BY <1>2
  <2>2. \A i \in 0..num : cut[i] \in Nat
    BY <1>4, Zenon
  <2> HIDE DEF end
  <2> QED BY <2>1, <2>2
<1> HIDE DEF new
<1>6. ASSUME NEW i \in 1..(num + 1)
      PROVE  /\ new[i] = new[i - 1] + Len(ns[i]) + 1 /\ new[i] <= Len(q)
             /\ \A j \in 1..Len(ns[i]) : q[new[i - 1] + j] = ns[i][j]
             /\ q[new[i]] = Delimiter
  <2>1. CASE i = num + 1
    <3>1. i - 1 = num /\ num \in 0..num
      BY <1>2, <2>1
    <3>2. new[i - 1] = cut[num]
      BY <1>5, <3>1, Zenon
    <3>3. new[i - 1] = Len(p) /\ new[i] = end /\ ns[i] = m
      BY <1>2, <1>4, <1>5, <2>1, <3>2, Zenon
    <3> QED BY <1>2, <1>3, <3>3
  <2>2. CASE i # num + 1
    <3>1. i \in 1..num /\ i - 1 \in 0..num /\ i \in 0..num
      BY <1>2, <2>2
    <3>2. new[i] = cut[i] /\ new[i - 1] = cut[i - 1] /\ ns[i] = ms[i]
      BY <1>2, <1>5, <3>1, Zenon
    <3>3. cut[i] \in 1..Len(p) /\ cut[i - 1] \in Nat
      <4>1. cut[i] \in Nat /\ cut[i - 1] \in Nat
        BY <1>5, <3>1, Zenon
      <4>2. cut[i] = cut[i - 1] + Len(ms[i]) + 1 /\ cut[i] <= Len(p) /\ Len(ms[i]) \in Nat
        BY <1>4, <3>1, Zenon
      <4>3. Len(p) \in Nat
        OBVIOUS
      <4> QED BY <4>1, <4>2, <4>3, Between, Zenon
    <3>4. new[i] = new[i - 1] + Len(ns[i]) + 1 /\ new[i] <= Len(q)
      BY <1>2, <1>4, <3>1, <3>2, <3>3
    <3>5. ASSUME NEW j \in 1..Len(ns[i]) PROVE q[new[i - 1] + j] = ns[i][j]
      <4>1. j \in 1..Len(ms[i])
        BY <3>2
      <4>2. p[cut[i - 1] + j] = ms[i][j] /\ Len(ms[i]) \in Nat
        BY <1>4, <3>1, <4>1, Zenon
      <4>3. cut[i - 1] + j \in 1..Len(p)
        <5>1. cut[i] = cut[i - 1] + Len(ms[i]) + 1 /\ cut[i] <= Len(p) /\ cut[i] \in Nat
          BY <1>4, <1>5, <3>1, Zenon
        <5>2. Len(p) \in Nat
          OBVIOUS
        <5> QED BY <3>3, <4>1, <4>2, <5>1, <5>2, Between, Zenon
      <4> QED BY <1>3, <3>2, <4>2, <4>3
    <3>6. q[new[i]] = Delimiter
      BY <1>3, <1>4, <3>1, <3>2, <3>3
    <3> QED BY <3>4, <3>5, <3>6
  <2> QED BY <2>1, <2>2
<1>7. new[0] = 0
  BY <1>2, <1>4, <1>5
<1>8. CutsAt(q, ns, new)
  BY <1>2, <1>5, <1>6, <1>7 DEF CutsAt
<1> QED BY <1>8 DEF FramedAs, q, ns

\* What is not empty has a message and a delimiter in it.
LEMMA FramedSomething ==
    ASSUME NEW C, NEW p \in Seq(C), NEW ms \in Seq(Seq(C)), FramedAs(p, ms), Len(p) > 0
    PROVE  Len(ms) > 0 /\ Contains(p, Delimiter)
<1>1. PICK cut : CutsAt(p, ms, cut)
  BY DEF FramedAs
<1>2. Len(ms) \in Nat /\ Len(p) \in Nat
  OBVIOUS
<1>3. cut[0] = 0 /\ cut[Len(ms)] = Len(p) /\ \A i \in 1..Len(ms) : p[cut[i]] = Delimiter
  BY <1>1 DEF CutsAt
<1>4. Len(ms) > 0
  BY <1>2, <1>3
<1>5. Len(p) \in 1..Len(p) /\ Len(ms) \in 1..Len(ms)
  BY <1>2, <1>4
<1>6. p[Len(p)] = Delimiter
  BY <1>3, <1>5, Zenon
<1> QED BY <1>4, <1>5, <1>6 DEF Contains
-----------------------------------------------------------------------------
(* Backlog *)

\* n messages take no more room than MaxBacklog ones.
LEMMA Room ==
    ASSUME NEW w \in Nat, NEW n \in 0..MaxBacklog
    PROVE  n * w <= MaxBacklog * w /\ n * w \in Nat /\ (n + 1) * w = n * w + w
<1>1. MaxBacklog \in Nat
  BY PipeFramingAssumption
<1>2. \A k \in Nat : k * w \in Nat /\ (k + 1) * w = k * w + w
  OBVIOUS
<1> DEFINE d == MaxBacklog - n
           T == {k \in Nat : n * w <= (n + k) * w}
<1>3. d \in Nat /\ n + d = MaxBacklog /\ n \in Nat
  BY <1>1
<1>4. 0 \in T
  BY <1>2, <1>3
<1>5. ASSUME NEW k \in 0..(d - 1), k \in T PROVE k + 1 \in T
  <2>1. k \in Nat /\ n + k \in Nat /\ n + (k + 1) = (n + k) + 1
    BY <1>3
  <2>2. (n + (k + 1)) * w = (n + k) * w + w /\ (n + k) * w \in Nat /\ n * w \in Nat
    BY <1>2, <1>3, <2>1
  <2> QED BY <1>5, <2>1, <2>2
<1>6. d \in T
  <2> HIDE DEF T, d
  <2>1. \A k \in 0..d : k \in T
    BY <1>3, <1>4, <1>5, UpTo
  <2> QED BY <1>3, <2>1
<1> QED BY <1>2, <1>3, <1>6

Backlog == Len(sent) - Len(handled)

\* The messages in the pipe: all that are waiting, but the one being written.
InPipe == IF writing = Empty THEN Backlog ELSE Backlog - 1

Waiting == SubSeq(sent, Len(handled) + 1, Len(handled) + InPipe)

\* What was handled is what was sent first; what follows is in the pipe, framed,
\* but for the message that is being written, which is there as a whole.
PipeInv ==
    /\ ~exited
    /\ Backlog \in 0..MaxBacklog /\ handled = SubSeq(sent, 1, Len(handled))
    /\ writing # Empty => Backlog > 0 /\ writing = Framed(sent[Len(sent)])
    /\ FramedAs(pipe, Waiting) /\ Len(pipe) <= InPipe * Width

LEMMA WidthFits ==
    ASSUME Fits
    PROVE  Width \in Nat /\ FitsIn(Width)
<1>1. \E w \in Nat : FitsIn(w)
  BY DEF Fits
<1> QED BY <1>1, Zenon DEF Width

\* The numbers and lists the invariant is about.
LEMMA WaitingType ==
    ASSUME TypeOK, PipeInv
    PROVE  /\ Len(sent) \in Nat /\ Len(handled) \in Nat /\ Len(pipe) \in Nat
           /\ InPipe \in 0..Backlog /\ Backlog \in 0..MaxBacklog
           /\ Len(handled) + InPipe <= Len(sent)
           /\ Waiting \in Seq(Messages) /\ Len(Waiting) = InPipe
           /\ \A i \in 1..InPipe : Waiting[i] = sent[Len(handled) + i]
<1>1. Len(sent) \in Nat /\ Len(handled) \in Nat /\ Len(pipe) \in Nat /\ sent \in Seq(Messages)
  BY DEF TypeOK
<1>2. Backlog \in 0..MaxBacklog /\ (writing # Empty => Backlog > 0)
  BY DEF PipeInv
<1>3. InPipe \in 0..Backlog
  BY <1>2, PipeFramingAssumption DEF InPipe
<1>4. InPipe \in Nat /\ Len(handled) + InPipe <= Len(sent)
  BY <1>1, <1>2, <1>3 DEF Backlog
<1> QED BY <1>1, <1>2, <1>3, <1>4 DEF Waiting

\* Lists of messages are lists of texts without a delimiter.
LEMMA WaitingText ==
    ASSUME NEW ms \in Seq(Messages), PlainText
    PROVE  /\ ms \in Seq(Seq(Chunks)) /\ \A i \in 1..Len(ms) : Len(ms[i]) > 0
           /\ \A i \in 1..Len(ms) : \A j \in 1..Len(ms[i]) : ms[i][j] # Delimiter
<1>1. \A i \in 1..Len(ms) : ms[i] \in Messages
  OBVIOUS
<1>2. Messages \subseteq Seq(Chunks)
  BY Messages_
<1>3. ms \in Seq(Seq(Chunks))
  BY <1>2
<1> QED BY <1>1, <1>3 DEF PlainText

LEMMA PipeInit ==
    ASSUME PlainText, Fits, Init
    PROVE  PipeInv
<1>1. sent = Empty /\ writing = Empty /\ pipe = Empty /\ handled = Empty /\ ~exited
  BY DEF Init, Empty
<1>2. Len(Empty) = 0
  BY EmptyList
<1>3. Backlog = 0 /\ InPipe = 0
  BY <1>1, <1>2 DEF Backlog, InPipe
<1>4. SubSeq(Empty, 1, 0) = Empty
  BY DEF Empty
<1>5. Waiting = Empty /\ handled = SubSeq(sent, 1, Len(handled))
  BY <1>1, <1>2, <1>3, <1>4 DEF Waiting
<1>6. Len(pipe) <= InPipe * Width
  BY <1>1, <1>2, <1>3, WidthFits
<1>7. FramedAs(pipe, Waiting)
  BY <1>1, <1>5, FramedNothing
<1> QED BY <1>1, <1>3, <1>5, <1>6, <1>7, PipeFramingAssumption DEF PipeInv

\* A read takes all there is in the pipe: complete messages only.
LEMMA WholePipe ==
    ASSUME PlainText, Fits, TypeOK, PipeInv
    PROVE  /\ Data = pipe /\ SubSeq(pipe, Len(Data) + 1, Len(pipe)) = Empty
           /\ CommandTokens(Data) = Waiting /\ ReplyTokens(Data) = Waiting
<1>1. Len(pipe) \in Nat /\ pipe \in Seq(Chunks)
  BY DEF TypeOK
<1>2. Len(pipe) <= Buffer
  <2>1. InPipe \in 0..MaxBacklog
    BY WaitingType, PipeFramingAssumption
  <2>2. InPipe * Width <= MaxBacklog * Width /\ InPipe * Width \in Nat
    BY <2>1, WidthFits, Room
  <2>3. MaxBacklog * Width <= Buffer /\ MaxBacklog * Width \in Nat
    BY WidthFits, PipeFramingAssumption DEF FitsIn
  <2> DEFINE x == InPipe * Width
             y == MaxBacklog * Width
  <2>4. Len(pipe) <= x /\ x <= y /\ y <= Buffer /\ x \in Nat /\ y \in Nat
    BY <2>2, <2>3 DEF PipeInv
  <2> HIDE DEF x, y
  <2> QED BY <1>1, <2>4, PipeFramingAssumption
<1>3. Smaller(Len(pipe), Buffer) = Len(pipe)
  BY <1>2 DEF Smaller
<1>4. Data = pipe
  BY <1>1, <1>3 DEF Data
<1>5. SubSeq(pipe, Len(Data) + 1, Len(pipe)) = Empty
  BY <1>1, <1>4 DEF Empty
<1>6. /\ Waiting \in Seq(Seq(Chunks)) /\ \A i \in 1..Len(Waiting) : Len(Waiting[i]) > 0
      /\ \A i \in 1..Len(Waiting) : \A j \in 1..Len(Waiting[i]) : Waiting[i][j] # Delimiter
  BY WaitingType, WaitingText
<1>7. FramedAs(pipe, Waiting)
  BY DEF PipeInv
<1>8. CommandTokens(pipe) = Waiting /\ ReplyTokens(pipe) = Waiting
  BY <1>1, <1>6, <1>7, TokensOfFramed
<1> QED BY <1>4, <1>5, <1>8

\* What handing on the waiting messages does to the lists.
LEMMA HandedOn ==
    ASSUME TypeOK, PipeInv
    PROVE  /\ handled \o Waiting = SubSeq(sent, 1, Len(handled) + InPipe)
           /\ Len(handled \o Waiting) = Len(handled) + InPipe
<1> DEFINE h == Len(handled)
           n == InPipe
           a == SubSeq(sent, 1, h)
           b == SubSeq(sent, h + 1, h + n)
<1>1. sent \in Seq(Messages) /\ h \in Nat /\ n \in Nat /\ h + n <= Len(sent)
  BY WaitingType DEF TypeOK
<1>2. handled = a /\ Waiting = b
  BY DEF PipeInv, Waiting
<1> HIDE DEF h, n
<1>3. a \o b = SubSeq(sent, 1, h + n) /\ Len(a \o b) = h + n
  BY <1>1
<1> QED BY <1>2, <1>3 DEF h, n

\* Both readers do the same with the waiting messages.
LEMMA ReadStep ==
    ASSUME PlainText, Fits, TypeOK, PipeInv, ReadCommands \/ ReadReplies
    PROVE  /\ ~exited' /\ pipe' = Empty /\ handled' = handled \o Waiting /\ InPipe > 0
           /\ UNCHANGED <<sent, writing>>
<1>1. Len(pipe) > 0 /\ pipe \in Seq(Chunks)
  <2>1. pipe # <<>> /\ pipe \in Seq(Chunks)
    BY DEF ReadCommands, ReadReplies, TypeOK
  <2> QED BY <2>1
<1>2. InPipe > 0 /\ Contains(Data, Delimiter)
  <2>1. Waiting \in Seq(Seq(Chunks)) /\ Len(Waiting) = InPipe /\ FramedAs(pipe, Waiting)
    BY WaitingType, WaitingText DEF PipeInv
  <2>2. Len(Waiting) > 0 /\ Contains(pipe, Delimiter)
    BY <1>1, <2>1, FramedSomething
  <2> QED BY <2>1, <2>2, WholePipe
<1>3. CASE ReadCommands
  <2>1. pipe' = Empty
    BY <1>3, WholePipe DEF ReadCommands
  <2>2. ~exited'
    BY <1>2, <1>3, Zenon DEF ReadCommands
  <2>3. handled' = handled \o Waiting
    BY <1>3, <2>2, WholePipe DEF ReadCommands
  <2> QED BY <1>2, <1>3, <2>1, <2>2, <2>3 DEF ReadCommands
<1>4. CASE ReadReplies
  BY <1>2, <1>4, WholePipe DEF ReadReplies, PipeInv
<1> QED BY <1>3, <1>4

\* write() does not block: the rest of the message fits.
LEMMA WriteStep ==
    ASSUME PlainText, Fits, TypeOK, PipeInv, Write
    PROVE  /\ writing = Framed(sent[Len(sent)]) /\ Backlog > 0 /\ InPipe = Backlog - 1
           /\ pipe' = pipe \o writing /\ writing' = Empty
           /\ Len(pipe) + Len(writing) <= Backlog * Width
           /\ UNCHANGED <<sent, handled, exited>>
<1>1. writing # Empty
  BY DEF Write, Empty
<1>2. writing = Framed(sent[Len(sent)]) /\ Backlog > 0 /\ InPipe = Backlog - 1
  BY <1>1 DEF PipeInv, InPipe
<1>3. /\ Len(pipe) \in Nat /\ Len(writing) \in Nat /\ writing \in Seq(Chunks)
      /\ Len(sent) \in Nat /\ sent \in Seq(Messages)
  BY DEF TypeOK
<1>4. sent[Len(sent)] \in Messages
  <2>1. Len(sent) \in 1..Len(sent)
    BY <1>2, <1>3, WaitingType DEF Backlog
  <2> QED BY <1>3, <2>1
<1>5. Len(writing) <= Width
  <2> DEFINE m == sent[Len(sent)]
  <2>1. m \in Seq(Chunks) /\ Len(m) + 1 <= Width
    BY <1>4, Messages_, WidthFits DEF FitsIn
  <2> HIDE DEF m
  <2>2. Len(Append(m, Delimiter)) = Len(m) + 1
    BY <2>1
  <2> QED BY <1>2, <2>1, <2>2 DEF Framed, m
<1>6. Len(pipe) + Len(writing) <= Backlog * Width /\ Backlog * Width <= Capacity
  <2> DEFINE x == InPipe * Width
             y == Backlog * Width
             z == MaxBacklog * Width
  <2>1. InPipe \in 0..MaxBacklog /\ Backlog \in 0..MaxBacklog /\ InPipe + 1 = Backlog
    BY <1>2, WaitingType, PipeFramingAssumption
  <2>2. x \in Nat /\ (InPipe + 1) * Width = x + Width /\ y <= z /\ y \in Nat
    BY <2>1, WidthFits, Room
  <2>3. y = x + Width
    BY <2>1, <2>2
  <2>4. Len(pipe) <= x /\ z <= Capacity /\ Width \in Nat
    BY WidthFits DEF PipeInv, FitsIn
  <2>5. z \in Nat
    BY WidthFits, PipeFramingAssumption
  <2> HIDE DEF x, y, z
  <2>6. Len(pipe) + Len(writing) <= y /\ y <= Capacity
    BY <1>3, <1>5, <2>2, <2>3, <2>4, <2>5, PipeFramingAssumption
  <2> QED BY <2>6 DEF y
<1>7. Len(writing) <= Capacity - Len(pipe)
  <2> DEFINE y == Backlog * Width
  <2>1. y \in Nat
    <3>1. Backlog \in Nat
      BY WaitingType
    <3> QED BY <3>1, WidthFits
  <2>2. Len(pipe) + Len(writing) <= y /\ y <= Capacity
    BY <1>6
  <2> HIDE DEF y
  <2> QED BY <1>3, <2>1, <2>2, PipeFramingAssumption
<1>8. Smaller(Len(writing), Capacity - Len(pipe)) = Len(writing)
  BY <1>7 DEF Smaller
<1>9. SubSeq(writing, 1, Len(writing)) = writing /\ SubSeq(writing, Len(writing) + 1, Len(writing)) = Empty
  BY <1>3 DEF Empty
<1>10. pipe' = pipe \o writing /\ writing' = Empty
  BY <1>8, <1>9 DEF Write
<1> QED BY <1>2, <1>6, <1>10 DEF Write

LEMMA PipeStep ==
    ASSUME PlainText, Fits, TypeOK, PipeInv, [Next]_vars
    PROVE  PipeInv'
<1>1. ASSUME NEW m \in Messages, Send(m) PROVE PipeInv'
  <2>1. /\ writing = Empty /\ writing' = Append(m, Delimiter) /\ sent' = Append(sent, m)
        /\ UNCHANGED <<pipe, handled, exited>>
    BY <1>1 DEF Send, Framed, Empty
  <2>2. /\ sent \in Seq(Messages) /\ Len(sent) \in Nat /\ Len(handled) \in Nat
        /\ sent' \in Seq(Messages) /\ Len(sent') = Len(sent) + 1 /\ sent'[Len(sent')] = m
    BY <2>1 DEF TypeOK
  <2>3. Backlog' = Backlog + 1 /\ Backlog < MaxBacklog
    BY <1>1, <2>1, <2>2 DEF Backlog, Send
  <2>4. m \in Seq(Chunks) /\ writing' # Empty
    <3>1. m \in Seq(Chunks) /\ Delimiter \in Chunks
      BY Messages_
    <3>2. Len(writing') = Len(m) + 1 /\ Len(m) \in Nat
      BY <2>1, <3>1
    <3> QED BY <3>1, <3>2, EmptyList
  <2>5. InPipe' = Backlog /\ InPipe = Backlog
    BY <2>1, <2>2, <2>3, <2>4 DEF InPipe, Backlog
  <2>6. Backlog \in 0..MaxBacklog /\ handled = SubSeq(sent, 1, Len(handled))
    BY DEF PipeInv
  <2>7. Backlog' \in 0..MaxBacklog /\ Backlog' > 0
    BY <2>3, <2>6, PipeFramingAssumption
  <2>8. handled' = SubSeq(sent', 1, Len(handled')) /\ Waiting' = Waiting
    <3> DEFINE h == Len(handled)
               n == InPipe
               s == sent
    <3>1. h \in Nat /\ n \in Nat /\ h + n <= Len(s) /\ s \in Seq(Messages)
      BY <2>2, WaitingType
    <3> HIDE DEF h, n, s
    <3>2. SubSeq(Append(s, m), 1, h) = SubSeq(s, 1, h)
      BY <3>1
    <3>3. SubSeq(Append(s, m), h + 1, h + n) = SubSeq(s, h + 1, h + n)
      BY <3>1
    <3>4. InPipe' = n /\ Len(handled') = h /\ sent' = Append(s, m)
      BY <2>1, <2>5 DEF n, h, s
    <3>5. Waiting' = SubSeq(Append(s, m), h + 1, h + n) /\ Waiting = SubSeq(s, h + 1, h + n)
      BY <3>4, Zenon DEF Waiting, n, h, s
    <3>6. handled' = SubSeq(s, 1, h)
      BY <2>1, <2>6 DEF h, s
    <3> QED BY <3>2, <3>3, <3>4, <3>5, <3>6
  <2>9. ~exited' /\ FramedAs(pipe', Waiting') /\ Len(pipe') <= InPipe' * Width
    BY <2>1, <2>5, <2>8 DEF PipeInv
  <2>10. writing' = Framed(sent[Len(sent)])'
    BY <2>1, <2>2 DEF Framed
  <2> QED BY <2>7, <2>8, <2>9, <2>10 DEF PipeInv
<1>2. CASE Write
  <2>1. /\ writing = Framed(sent[Len(sent)]) /\ Backlog > 0 /\ InPipe = Backlog - 1
        /\ pipe' = pipe \o writing /\ writing' = Empty
        /\ Len(pipe) + Len(writing) <= Backlog * Width
        /\ UNCHANGED <<sent, handled, exited>>
    BY <1>2, WriteStep
  <2>2. Backlog' = Backlog /\ InPipe' = Backlog
    BY <2>1 DEF Backlog, InPipe
  <2> DEFINE m == sent[Len(sent)]
  <2>3. m \in Seq(Chunks) /\ Delimiter \in Chunks
    <3>1. Len(sent) \in 1..Len(sent) /\ sent \in Seq(Messages)
      BY <2>1, WaitingType DEF Backlog, TypeOK
    <3>2. m \in Messages
      BY <3>1
    <3> QED BY <3>2, Messages_
  <2>4. Waiting' = Append(Waiting, m)
    <3> DEFINE h == Len(handled)
               n == InPipe
               s == sent
    <3>1. h \in Nat /\ n \in Nat /\ h + n + 1 = Len(s) /\ s \in Seq(Messages)
      BY <2>1, WaitingType DEF Backlog, TypeOK
    <3>2. InPipe' = n + 1 /\ Len(handled') = h /\ sent' = s
      BY <2>1, <2>2, <3>1, WaitingType
    <3>3. Waiting = SubSeq(s, h + 1, h + n) /\ Waiting' = SubSeq(s, h + 1, h + (n + 1))
      BY <3>2, Zenon DEF Waiting, n, h, s
    <3>4. m = s[h + n + 1]
      BY <3>1
    <3> HIDE DEF h, n, s, m
    <3>5. SubSeq(s, h + 1, h + (n + 1)) = Append(SubSeq(s, h + 1, h + n), s[h + n + 1])
      BY <3>1
    <3> QED BY <3>3, <3>4, <3>5
  <2>5. FramedAs(pipe', Waiting')
    <3>1. /\ pipe \in Seq(Chunks) /\ Waiting \in Seq(Seq(Chunks)) /\ FramedAs(pipe, Waiting)
      BY WaitingType, WaitingText DEF TypeOK, PipeInv
    <3> HIDE DEF m
    <3>2. FramedAs(pipe \o Append(m, Delimiter), Append(Waiting, m))
      BY <2>3, <3>1, FramedMore
    <3>3. pipe' = pipe \o Append(m, Delimiter)
      BY <2>1 DEF Framed, m
    <3> QED BY <2>4, <3>2, <3>3
  <2>6. Len(pipe') <= InPipe' * Width
    <3>1. pipe \in Seq(Chunks) /\ writing \in Seq(Chunks)
      BY DEF TypeOK
    <3>2. Len(pipe \o writing) = Len(pipe) + Len(writing)
      BY <3>1
    <3> QED BY <2>1, <2>2, <3>2
  <2>7. /\ Backlog' \in 0..MaxBacklog /\ handled' = SubSeq(sent', 1, Len(handled')) /\ ~exited'
    BY <2>1, <2>2 DEF PipeInv
  <2> QED BY <2>1, <2>5, <2>6, <2>7 DEF PipeInv
<1>3. CASE ReadCommands \/ ReadReplies
  <2>1. /\ ~exited' /\ pipe' = Empty /\ handled' = handled \o Waiting /\ InPipe > 0
        /\ UNCHANGED <<sent, writing>>
    BY <1>3, ReadStep
  <2>2. handled' = SubSeq(sent, 1, Len(handled) + InPipe) /\ Len(handled') = Len(handled) + InPipe
    BY <2>1, HandedOn
  <2>3. Backlog' = Backlog - InPipe /\ InPipe' = 0 /\ Backlog' \in 0..MaxBacklog
    <3>1. /\ Len(sent) \in Nat /\ Len(handled) \in Nat /\ InPipe \in 0..Backlog
          /\ Backlog \in 0..MaxBacklog
      BY WaitingType
    <3>2. Backlog' = Backlog - InPipe
      BY <2>1, <2>2, <3>1 DEF Backlog
    <3>3. CASE writing = Empty
      BY <2>1, <3>1, <3>2, <3>3, PipeFramingAssumption DEF InPipe
    <3>4. CASE writing # Empty
      BY <2>1, <3>1, <3>2, <3>4, PipeFramingAssumption DEF InPipe
    <3> QED BY <3>3, <3>4
  <2>4. Waiting' = Empty
    <3> DEFINE a == Len(handled')
    <3>1. Waiting' = SubSeq(sent, a + 1, a + 0) /\ a \in Nat
      BY <2>1, <2>2, <2>3, WaitingType DEF Waiting
    <3>2. sent \in Seq(Messages)
      BY DEF TypeOK
    <3> HIDE DEF a
    <3>3. SubSeq(sent, a + 1, a + 0) = <<>>
      BY <3>1, <3>2
    <3> QED BY <3>1, <3>3 DEF Empty
  <2>5. FramedAs(pipe', Waiting') /\ Len(pipe') <= InPipe' * Width
    BY <2>1, <2>3, <2>4, FramedNothing, EmptyList, WidthFits
  <2>6. writing' # Empty => Backlog' > 0 /\ writing' = Framed(sent[Len(sent)])'
    <3> SUFFICES ASSUME writing' # Empty
                 PROVE  Backlog' > 0 /\ writing' = Framed(sent[Len(sent)])'
      OBVIOUS
    <3>1. writing # Empty /\ writing = Framed(sent[Len(sent)]) /\ InPipe = Backlog - 1
      BY <2>1 DEF PipeInv, InPipe
    <3>2. Backlog' > 0
      BY <2>3, <3>1, WaitingType
    <3> QED BY <2>1, <3>1, <3>2
  <2>7. handled' = SubSeq(sent', 1, Len(handled'))
    BY <2>1, <2>2
  <2> QED BY <2>1, <2>3, <2>5, <2>6, <2>7 DEF PipeInv
<1>4. CASE UNCHANGED vars
  BY <1>4 DEF vars, PipeInv, Backlog, InPipe, Waiting
<1> QED BY <1>1, <1>2, <1>3, <1>4 DEF Next

\* As long as no message has a '$' in it and the messages not yet handled fit
\* the pipe and the buffer, what was handled is what was sent, in order, and
\* the pipe holds the messages in between.
THEOREM PipeInductive ==
    ASSUME PlainText, Fits
    PROVE  Spec => [](TypeOK /\ PipeInv)
<1>1. Init => TypeOK /\ PipeInv
  BY TypeInit, PipeInit
<1>2. TypeOK /\ PipeInv /\ [Next]_vars => (TypeOK /\ PipeInv)'
  BY TypeStep, PipeStep
<1> QED BY <1>1, <1>2, PTL DEF Spec

\* Then ssc_input_read_char always finds its delimiter.
THEOREM ReaderAlways ==
    ASSUME PlainText, Fits
    PROVE  Spec => []ReaderSurvives
<1>1. TypeOK /\ PipeInv => ReaderSurvives
  BY DEF PipeInv, ReaderSurvives
<1> QED BY <1>1, PipeInductive, PTL

\* And the pipe is a Channel: each message is handled once, whole and in order.
THEOREM PipeImplements ==
    ASSUME PlainText, Fits
    PROVE  Spec => ImplementsChannel
<1>1. Init => TheChannel!Init
  BY DEF Init, TheChannel!Init
<1>2. TypeOK /\ PipeInv /\ [Next]_vars => [TheChannel!Next]_(TheChannel!vars)
  <2> SUFFICES ASSUME TypeOK, PipeInv, [Next]_vars
               PROVE  [TheChannel!Next]_(TheChannel!vars)
    OBVIOUS
  <2>1. ASSUME NEW m \in Messages, Send(m) PROVE TheChannel!Send
    BY <2>1 DEF Send, TheChannel!Send
  <2>2. CASE Write
    BY <2>2 DEF Write, TheChannel!vars
  <2>3. CASE ReadCommands \/ ReadReplies
    <3>1. handled' = handled \o Waiting /\ InPipe > 0 /\ UNCHANGED sent
      BY <2>3, ReadStep
    <3> DEFINE n == Len(handled) + InPipe
    <3>2. handled' = SubSeq(sent, 1, n)
      BY <3>1, HandedOn
    <3>3. n \in Len(handled) + 1..Len(sent)
      BY <3>1, WaitingType
    <3> HIDE DEF n
    <3>4. TheChannel!Handle
      BY <3>1, <3>2, <3>3 DEF TheChannel!Handle
    <3> QED BY <3>4 DEF TheChannel!Next
  <2>4. CASE UNCHANGED vars
    BY <2>4 DEF vars, TheChannel!vars
  <2> QED BY <2>1, <2>2, <2>3, <2>4 DEF Next, TheChannel!Next
<1> QED BY <1>1, <1>2, PipeInductive, PTL DEF Spec, ImplementsChannel, TheChannel!Spec
=============================================================================
