--------------------------- MODULE RequestProofs ---------------------------
(***************************************************************************)
(* The bytes of a request, however many there are and however they are     *)
(* read: the types of the buffer, the site name, and what the server is    *)
(* sent.                                                                   *)
(***************************************************************************)
EXTENDS Request, SequenceTheorems, WellFoundedInduction, TLAPS

Bytes == Seq(AllBytes)

(***************************************************************************)
(* Searching.                                                              *)
(***************************************************************************)

\* A set of numbers has a least one.
LEMMA LeastOf ==
  ASSUME NEW S \in SUBSET Nat, S # {}
  PROVE  \E x \in S : \A y \in S : x <= y
<1>1. PICK x \in S : \A y \in S : ~(<<y, x>> \in OpToRel(<, Nat))
  BY NatLessThanWellFounded, WFMin
<1>2. \A y \in S : ~(y < x)
  BY <1>1 DEF OpToRel
<1> QED BY <1>2

\* So has Min.
LEMMA MinOf ==
  ASSUME NEW S \in SUBSET Nat, S # {}
  PROVE  Min(S) \in S /\ \A x \in S : Min(S) <= x
BY LeastOf DEF Min

\* And Max of a bounded set.
LEMMA MaxOf ==
  ASSUME NEW n \in Nat, NEW S \in SUBSET (0 .. n), S # {}
  PROVE  Max(S) \in S /\ \A x \in S : x <= Max(S)
<1> DEFINE T == {n - x : x \in S}
<1>1. T \in SUBSET Nat /\ T # {}
  <2>1. \A x \in S : x \in Nat /\ n - x \in Nat
    OBVIOUS
  <2>2. PICK x \in S : TRUE
    OBVIOUS
  <2>3. n - x \in T
    BY <2>2
  <2> QED BY <2>1, <2>3
<1>2. PICK y \in T : \A z \in T : y <= z
  BY <1>1, LeastOf
<1>3. PICK x \in S : y = n - x
  BY <1>2
<1>4. \A w \in S : n - x <= n - w
  BY <1>2, <1>3
<1>5. \A w \in S : x >= w
  BY <1>4
<1>6. \E m \in S : \A w \in S : m >= w
  BY <1>5
<1> QED BY <1>6 DEF Max

\* Position is the first index of a byte, if there is one.
LEMMA PositionFirst ==
  ASSUME NEW s \in Bytes, NEW b, NEW i \in Nat \ {0}
  PROVE  /\ Position(s, b, i) = 0 => \A j \in i .. Len(s) : s[j] # b
         /\ Position(s, b, i) # 0 =>
              /\ Position(s, b, i) \in i .. Len(s) /\ s[Position(s, b, i)] = b
              /\ \A j \in i .. Position(s, b, i) - 1 : s[j] # b
         /\ Position(s, b, i) \in Nat
<1> DEFINE I == {j \in i .. Len(s) : s[j] = b}
<1>0. Len(s) \in Nat
  BY LenProperties DEF Bytes
<1>1. I \in SUBSET Nat
  BY <1>0
<1>2. Position(s, b, i) = IF I # {} THEN Min(I) ELSE 0
  BY DEF Position, SelectInSubSeq
<1>3. CASE I = {}
  BY <1>0, <1>2, <1>3
<1>4. CASE I # {}
  <2>1. Position(s, b, i) \in I /\ \A x \in I : Position(s, b, i) <= x
    BY <1>1, <1>2, <1>4, MinOf
  <2>2. PICK k \in i .. Len(s) : k = Position(s, b, i) /\ s[k] = b /\ \A x \in I : k <= x
    BY <2>1
  <2>3. \A j \in i .. k - 1 : j \in i .. Len(s) /\ ~(k <= j)
    BY <1>0
  <2>4. \A j \in i .. k - 1 : s[j] # b
    BY <2>2, <2>3
  <2> QED BY <2>2, <2>4
<1> QED BY <1>3, <1>4

\* And the first one is Position.
LEMMA PositionIs ==
  ASSUME NEW s \in Bytes, NEW b, NEW i \in Nat \ {0}
  PROVE  /\ (\A j \in i .. Len(s) : s[j] # b) => Position(s, b, i) = 0
         /\ \A k \in i .. Len(s) :
              s[k] = b /\ (\A j \in i .. k - 1 : s[j] # b) => Position(s, b, i) = k
<1>0. Len(s) \in Nat
  BY LenProperties DEF Bytes
<1> QED BY <1>0, PositionFirst

-----------------------------------------------------------------------------
(***************************************************************************)
(* Cutting and joining.                                                    *)
(***************************************************************************)

\* The bytes of a part of a sequence.
LEMMA CutOf ==
  ASSUME NEW s \in Bytes, NEW m \in Nat \ {0}, NEW n \in Nat, m <= n + 1, n <= Len(s)
  PROVE  /\ SubSeq(s, m, n) \in Bytes /\ Len(SubSeq(s, m, n)) = n + 1 - m
         /\ DOMAIN SubSeq(s, m, n) = 1 .. n + 1 - m
         /\ \A i \in 1 .. n + 1 - m : SubSeq(s, m, n)[i] = s[m + i - 1]
<1>0. Len(s) \in Nat
  BY LenProperties DEF Bytes
<1>1. \A i \in m .. n : s[i] \in AllBytes
  BY <1>0, ElementOfSeq DEF Bytes
<1>2. /\ SubSeq(s, m, n) \in Bytes
      /\ Len(SubSeq(s, m, n)) = IF m <= n THEN n - m + 1 ELSE 0
      /\ \A i \in 1 .. n - m + 1 : SubSeq(s, m, n)[i] = s[m + i - 1]
  BY <1>1, SubSeqProperties DEF Bytes
<1>3. Len(SubSeq(s, m, n)) = n + 1 - m /\ n - m + 1 = n + 1 - m
  BY <1>2
<1>4. DOMAIN SubSeq(s, m, n) = 1 .. n + 1 - m
  BY <1>2, <1>3, LenProperties DEF Bytes
<1> QED BY <1>2, <1>3, <1>4

\* The bytes of two sequences put together.
LEMMA JoinOf ==
  ASSUME NEW p \in Bytes, NEW q \in Bytes
  PROVE  /\ p \o q \in Bytes /\ Len(p \o q) = Len(p) + Len(q)
         /\ Len(p) \in Nat /\ Len(q) \in Nat
         /\ DOMAIN (p \o q) = 1 .. Len(p) + Len(q)
         /\ \A i \in 1 .. Len(p) : (p \o q)[i] = p[i]
         /\ \A i \in 1 .. Len(q) : (p \o q)[Len(p) + i] = q[i]
<1>1. Len(p) \in Nat /\ Len(q) \in Nat
  BY LenProperties DEF Bytes
<1>2. p \o q \in Bytes /\ Len(p \o q) = Len(p) + Len(q)
  BY ConcatProperties DEF Bytes
<1>3. \A i \in 1 .. Len(p) + Len(q) :
        (p \o q)[i] = IF i <= Len(p) THEN p[i] ELSE q[i - Len(p)]
  BY ConcatProperties DEF Bytes
<1>4. PICK a \in Nat, b \in Nat : a = Len(p) /\ b = Len(q)
  BY <1>1
<1>5. /\ \A i \in 1 .. a : i \in 1 .. a + b /\ i <= a
      /\ \A i \in 1 .. b : a + i \in 1 .. a + b /\ ~(a + i <= a) /\ a + i - a = i
  OBVIOUS
<1>6. DOMAIN (p \o q) = 1 .. Len(p) + Len(q)
  BY <1>2, LenProperties DEF Bytes
<1> QED BY <1>1, <1>2, <1>3, <1>4, <1>5, <1>6

\* Sequences with the same bytes are the same.
LEMMA SameBytes ==
  ASSUME NEW p \in Bytes, NEW q \in Bytes, NEW n \in Nat, Len(p) = n, Len(q) = n,
         \A i \in 1 .. n : p[i] = q[i]
  PROVE  p = q
BY SeqEqual DEF Bytes

\* How three sequences are put together makes no difference.
LEMMA Associate ==
  ASSUME NEW p \in Bytes, NEW q \in Bytes, NEW w \in Bytes
  PROVE  (p \o q) \o w = p \o (q \o w)
BY ConcatAssociative DEF Bytes

-----------------------------------------------------------------------------
(***************************************************************************)
(* Types.                                                                  *)
(***************************************************************************)

\* The first HeaderLen bytes of the buffer are the got bytes of the first
\* read and zeros, and what follows is what the client sent next.
Filled ==
  /\ got <= Len(sent)
  /\ pc = "header" => got = 0 /\ buf = <<>>
  /\ pc # "header" =>
       /\ HeaderLen <= Len(buf)
       /\ \A i \in 1 .. HeaderLen : buf[i] = IF i <= got THEN sent[i] ELSE NUL
  /\ pc = "parse" =>
       /\ Len(buf) - HeaderLen + got <= Len(sent)
       /\ \A i \in HeaderLen + 1 .. Len(buf) : buf[i] = sent[i - HeaderLen + got]

IInv == TypeOK /\ Filled

\* The least and the greatest of two numbers.
LEMMA OfTwo ==
  ASSUME NEW a \in Nat, NEW b \in Nat
  PROVE  /\ Min({a, b}) \in Nat /\ Min({a, b}) <= a /\ Min({a, b}) <= b
         /\ Min({a, b}) = a \/ Min({a, b}) = b
         /\ Max({a, b}) \in Nat /\ a <= Max({a, b}) /\ b <= Max({a, b})
         /\ Max({a, b}) = a \/ Max({a, b}) = b
<1>1. /\ Min({a, b}) \in {a, b} /\ \A x \in {a, b} : Min({a, b}) <= x
  BY MinOf
<1>2. /\ Max({a, b}) \in {a, b} /\ \A x \in {a, b} : x <= Max({a, b})
  <2>1. {a, b} \in SUBSET (0 .. a + b) /\ a + b \in Nat
    OBVIOUS
  <2> QED BY <2>1, MaxOf
<1> QED BY <1>1, <1>2

\* The invariant holds at the beginning.
LEMMA InitIInv == Init => IInv
<1> SUFFICES ASSUME Init PROVE IInv
  OBVIOUS
<1>1. client \in Client /\ sent = client.begins /\ got = 0 /\ buf = <<>> /\ pc = "header"
  BY DEF Init
<1>2. /\ sent \in Seq(AllBytes) /\ Len(sent) \in Nat /\ client.length \in Nat
      /\ HeaderLen \in Nat /\ BufSize \in Nat
  BY <1>1, RequestAssumption, LenProperties
<1>3. Len(sent) <= Max({client.length, Len(client.begins)})
  BY <1>1, <1>2, OfTwo
<1>4. buf \in Seq(AllBytes) /\ Len(buf) = 0
  BY <1>1, EmptySeq
<1>5. Len(buf) <= BufSize /\ got \in 0 .. HeaderLen /\ got <= Len(sent)
  BY <1>1, <1>2, <1>4
<1>6. TypeOK
  BY <1>1, <1>2, <1>3, <1>4, <1>5 DEF TypeOK
<1> QED BY <1>1, <1>5, <1>6 DEF IInv, Filled

\* Every step keeps it.
LEMMA NextIInv == IInv /\ [Next]_vars => IInv'
<1> SUFFICES ASSUME IInv, [Next]_vars PROVE IInv'
  OBVIOUS
<1>0. /\ sent \in Seq(AllBytes) /\ Len(sent) \in Nat /\ client.length \in Nat
      /\ HeaderLen \in Nat \ {0} /\ BufSize \in Nat /\ HeaderLen <= BufSize
      /\ buf \in Seq(AllBytes) /\ Len(buf) \in Nat /\ Len(buf) <= BufSize
      /\ got \in Nat /\ got <= HeaderLen /\ got <= Len(sent)
      /\ Len(client.begins) \in Nat /\ client \in Client
      /\ Len(sent) <= Max({client.length, Len(client.begins)})
      /\ pc \in {"header", "request", "special", "parse"}
  BY RequestAssumption, LenProperties DEF IInv, TypeOK, Filled
<1>1. CASE \E b \in AllBytes : Send(b)
  <2>1. PICK b \in AllBytes : Send(b)
    BY <1>1
  <2>2. /\ sent' = Append(sent, b) /\ Len(sent) < client.length
        /\ UNCHANGED <<client, got, buf, pc>> /\ pc \in {"header", "request"}
    BY <2>1 DEF Send
  <2>3. /\ sent' \in Seq(AllBytes) /\ Len(sent') = Len(sent) + 1
        /\ \A i \in 1 .. Len(sent) : sent'[i] = sent[i]
    BY <1>0, <2>2, AppendProperties
  <2>4. Len(sent') <= Max({client.length, Len(client.begins)})
    <3>1. client.length <= Max({client.length, Len(client.begins)})
          /\ Max({client.length, Len(client.begins)}) \in Nat
      BY <1>0, OfTwo
    <3> QED BY <1>0, <2>2, <2>3, <3>1
  <2>5. TypeOK'
    BY <2>2, <2>3, <2>4 DEF IInv, TypeOK
  <2>6. Filled'
    <3>1. got' <= Len(sent')
      BY <1>0, <2>2, <2>3
    <3>2. ASSUME pc' # "header", NEW i \in 1 .. HeaderLen
          PROVE  buf'[i] = IF i <= got' THEN sent'[i] ELSE NUL
      <4>1. buf[i] = IF i <= got THEN sent[i] ELSE NUL
        BY <2>2, <3>2 DEF IInv, Filled
      <4>2. i <= got => i \in 1 .. Len(sent)
        BY <1>0
      <4> QED BY <2>2, <2>3, <4>1, <4>2
    <3> QED BY <2>2, <3>1, <3>2 DEF IInv, Filled
  <2> QED BY <2>5, <2>6 DEF IInv
<1>2. CASE ReadHeader
  <2>1. /\ pc = "header" /\ client' = client /\ sent' = sent
        /\ got' = Min({Len(sent), HeaderLen})
        /\ buf' = [i \in 1 .. HeaderLen |-> IF i <= got' THEN sent[i] ELSE NUL]
        /\ pc' \in {"special", "request"}
    BY <1>2 DEF ReadHeader
  <2>2. got' \in Nat /\ got' <= Len(sent) /\ got' <= HeaderLen
    BY <1>0, <2>1, OfTwo
  <2>3. ASSUME NEW i \in 1 .. HeaderLen
        PROVE  (IF i <= got' THEN sent[i] ELSE NUL) \in AllBytes
    <3>1. i <= got' => i \in 1 .. Len(sent)
      BY <1>0, <2>2
    <3>2. i <= got' => sent[i] \in AllBytes
      BY <1>0, <3>1, ElementOfSeq
    <3> QED BY <3>2 DEF AllBytes, NUL
  <2>4. buf' \in [1 .. HeaderLen -> AllBytes]
    BY <2>1, <2>3
  <2>5. buf' \in Seq(AllBytes) /\ Len(buf') = HeaderLen
    BY <1>0, <2>4
  <2>6. TypeOK'
    <3>1. got' \in 0 .. HeaderLen /\ Len(buf') <= BufSize
      BY <1>0, <2>2, <2>5
    <3> QED BY <1>0, <2>1, <2>5, <3>1 DEF TypeOK
  <2>7. Filled'
    <3>1. \A i \in 1 .. HeaderLen : buf'[i] = IF i <= got' THEN sent[i] ELSE NUL
      BY <2>1
    <3>2. pc' # "header" /\ pc' # "parse" /\ HeaderLen <= Len(buf')
      BY <1>0, <2>1, <2>5
    <3> QED BY <2>1, <2>2, <3>1, <3>2 DEF Filled
  <2> QED BY <2>6, <2>7 DEF IInv
<1>3. CASE ReadRequest
  <2> DEFINE m == Min({Len(sent), got + BufSize - HeaderLen})
             r == SubSeq(sent, got + 1, m)
  <2>1. /\ pc = "request" /\ buf' = buf \o r /\ pc' = "parse"
        /\ client' = client /\ sent' = sent /\ got' = got
    BY <1>3 DEF ReadRequest
  <2>2. m \in Nat /\ m <= Len(sent) /\ m <= got + BufSize - HeaderLen /\ got <= m
    <3>1. got + BufSize - HeaderLen \in Nat /\ got <= got + BufSize - HeaderLen
      BY <1>0
    <3> QED BY <1>0, <2>1, <3>1, OfTwo
  <2>3. Len(buf) = HeaderLen
    BY <2>1 DEF IInv, TypeOK
  <2>4. r \in Seq(AllBytes) /\ Len(r) = m - got /\ \A i \in 1 .. m - got : r[i] = sent[got + i]
    <3> HIDE DEF m
    <3>1. got + 1 \in Nat \ {0} /\ got + 1 <= m + 1 /\ sent \in Bytes
      BY <1>0, <2>2 DEF Bytes
    <3>2. /\ r \in Bytes /\ Len(r) = m + 1 - (got + 1)
          /\ \A i \in 1 .. m + 1 - (got + 1) : r[i] = sent[got + 1 + i - 1]
      BY <2>2, <3>1, CutOf
    <3>3. /\ m + 1 - (got + 1) = m - got
          /\ \A i \in 1 .. m - got : got + 1 + i - 1 = got + i
      BY <1>0, <2>2
    <3> QED BY <3>2, <3>3 DEF Bytes
  <2> HIDE DEF m, r
  <2>5. /\ buf' \in Seq(AllBytes) /\ Len(buf') = HeaderLen + m - got
        /\ \A i \in 1 .. HeaderLen : buf'[i] = buf[i]
        /\ \A i \in HeaderLen + 1 .. HeaderLen + m - got : buf'[i] = r[i - HeaderLen]
    <3>1. /\ buf' \in Bytes /\ Len(buf') = Len(buf) + Len(r)
          /\ \A i \in 1 .. Len(buf) : buf'[i] = buf[i]
          /\ \A i \in 1 .. Len(r) : buf'[Len(buf) + i] = r[i]
      <4>1. buf \in Bytes /\ r \in Bytes
        BY <1>0, <2>4 DEF Bytes
      <4> QED BY <2>1, <4>1, JoinOf
    <3>2. Len(buf') = HeaderLen + m - got
      BY <1>0, <2>2, <2>3, <2>4, <3>1
    <3>3. \A i \in HeaderLen + 1 .. HeaderLen + m - got :
            i - HeaderLen \in 1 .. m - got /\ HeaderLen + (i - HeaderLen) = i
      BY <1>0, <2>2
    <3> QED BY <2>3, <2>4, <3>1, <3>2, <3>3, ZenonT(60) DEF Bytes
  <2>6. TypeOK'
    <3>1. Len(buf') <= BufSize
      BY <1>0, <2>2, <2>5
    <3> QED BY <2>1, <2>5, <3>1 DEF IInv, TypeOK
  <2>7. Filled'
    <3>1. HeaderLen <= Len(buf') /\ Len(buf') - HeaderLen + got <= Len(sent)
      BY <1>0, <2>2, <2>5
    <3>2. \A i \in 1 .. HeaderLen : buf'[i] = IF i <= got THEN sent[i] ELSE NUL
      BY <2>1, <2>5 DEF IInv, Filled
    <3>3. \A i \in HeaderLen + 1 .. Len(buf') : buf'[i] = sent[i - HeaderLen + got]
      BY <1>0, <2>2, <2>4, <2>5
    <3> QED BY <1>0, <2>1, <3>1, <3>2, <3>3 DEF Filled
  <2> QED BY <2>6, <2>7 DEF IInv
<1>4. CASE UNCHANGED vars
  BY <1>4 DEF vars, IInv, TypeOK, Filled
<1> QED BY <1>1, <1>2, <1>3, <1>4 DEF Next

\* The buffer keeps its types: it is filled within its size whatever the
\* lengths of the two reads, and HeaderLen bytes of it by the first.
THEOREM TypeCorrect == Spec => []TypeOK
<1>1. IInv => TypeOK
  BY DEF IInv
<1> QED BY <1>1, InitIInv, NextIInv, PTL DEF Spec

-----------------------------------------------------------------------------
(***************************************************************************)
(* More about cutting and joining.                                         *)
(***************************************************************************)

\* Neighbouring parts of a sequence make a part.
LEMMA CutsJoin ==
  ASSUME NEW s \in Bytes, NEW a \in Nat \ {0}, NEW b \in Nat, NEW c \in Nat,
         a <= b + 1, b <= c, c <= Len(s)
  PROVE  SubSeq(s, a, b) \o SubSeq(s, b + 1, c) = SubSeq(s, a, c)
<1>1. Len(s) \in Nat
  BY LenProperties DEF Bytes
<1>2. /\ a \in 1 .. Len(s) + 1 /\ b \in a - 1 .. Len(s) /\ c \in b .. Len(s)
  BY <1>1
<1> QED BY <1>2, ConcatAdjacentSubSeq DEF Bytes

\* One byte is a part.
LEMMA CutOne ==
  ASSUME NEW s \in Bytes, NEW i \in Nat \ {0}, i <= Len(s)
  PROVE  SubSeq(s, i, i) = <<s[i]>> /\ <<s[i]>> \in Bytes /\ Len(<<s[i]>>) = 1
<1>1. Len(s) \in Nat
  BY LenProperties DEF Bytes
<1>2. s[i] \in AllBytes
  BY <1>1, ElementOfSeq DEF Bytes
<1>3. <<s[i]>> \in Bytes /\ Len(<<s[i]>>) = 1 /\ <<s[i]>>[1] = s[i]
  BY <1>2 DEF Bytes
<1>4. /\ SubSeq(s, i, i) \in Bytes /\ Len(SubSeq(s, i, i)) = i + 1 - i
      /\ \A j \in 1 .. i + 1 - i : SubSeq(s, i, i)[j] = s[i + j - 1]
  <2>1. i \in Nat /\ i <= i + 1
    OBVIOUS
  <2> QED BY <2>1, CutOf
<1>5. i + 1 - i = 1 /\ i + 1 - 1 = i /\ 1 \in Nat
  OBVIOUS
<1>6. Len(SubSeq(s, i, i)) = 1 /\ \A j \in 1 .. 1 : SubSeq(s, i, i)[j] = <<s[i]>>[j]
  <2>1. SubSeq(s, i, i)[1] = s[i]
    BY <1>4, <1>5
  <2> QED BY <1>3, <1>4, <1>5, <2>1
<1>7. SubSeq(s, i, i) = <<s[i]>>
  BY <1>3, <1>4, <1>5, <1>6, SameBytes
<1> QED BY <1>3, <1>7

\* No byte is no part.
LEMMA CutNone ==
  ASSUME NEW s, NEW i \in Nat \ {0}
  PROVE  SubSeq(s, i, i - 1) = <<>>
BY SubSeqEmpty

\* A part of what a sequence begins with is a part of it.
LEMMA CutOfCut ==
  ASSUME NEW s \in Bytes, NEW e \in Nat, e <= Len(s),
         NEW m \in Nat \ {0}, NEW n \in Nat, m <= n + 1, n <= e
  PROVE  SubSeq(SubSeq(s, 1, e), m, n) = SubSeq(s, m, n)
<1> DEFINE p == SubSeq(s, 1, e)
<1>0. Len(s) \in Nat /\ n <= Len(s)
  BY LenProperties DEF Bytes
<1>1. p \in Bytes /\ Len(p) = e /\ \A i \in 1 .. e : p[i] = s[i]
  <2>1. /\ p \in Bytes /\ Len(p) = e + 1 - 1
        /\ \A i \in 1 .. e + 1 - 1 : p[i] = s[1 + i - 1]
    BY CutOf
  <2>2. e + 1 - 1 = e /\ \A i \in 1 .. e : 1 + i - 1 = i
    OBVIOUS
  <2> QED BY <2>1, <2>2
<1> HIDE DEF p
<1>2. /\ SubSeq(p, m, n) \in Bytes /\ Len(SubSeq(p, m, n)) = n + 1 - m
      /\ \A i \in 1 .. n + 1 - m : SubSeq(p, m, n)[i] = p[m + i - 1]
  BY <1>1, CutOf
<1>3. /\ SubSeq(s, m, n) \in Bytes /\ Len(SubSeq(s, m, n)) = n + 1 - m
      /\ \A i \in 1 .. n + 1 - m : SubSeq(s, m, n)[i] = s[m + i - 1]
  BY <1>0, CutOf
<1>4. n + 1 - m \in Nat /\ \A i \in 1 .. n + 1 - m : m + i - 1 \in 1 .. e
  OBVIOUS
<1>5. SubSeq(p, m, n) = SubSeq(s, m, n)
  BY <1>1, <1>2, <1>3, <1>4, SameBytes
<1> QED BY <1>5 DEF p

\* The end of a part is a part.
LEMMA CutDeep ==
  ASSUME NEW s \in Bytes, NEW a \in Nat, NEW n \in Nat, a + n <= Len(s),
         NEW d \in Nat, d <= n
  PROVE  /\ Len(SubSeq(s, a + 1, a + n)) = n
         /\ SubSeq(SubSeq(s, a + 1, a + n), d + 1, n) = SubSeq(s, a + d + 1, a + n)
<1> DEFINE p == SubSeq(s, a + 1, a + n)
<1>1. /\ p \in Bytes /\ Len(p) = (a + n) + 1 - (a + 1)
      /\ \A i \in 1 .. (a + n) + 1 - (a + 1) : p[i] = s[a + 1 + i - 1]
  <2>1. a + 1 \in Nat \ {0} /\ a + n \in Nat /\ a + 1 <= (a + n) + 1
    OBVIOUS
  <2> QED BY <2>1, CutOf
<1>2. /\ (a + n) + 1 - (a + 1) = n /\ n - d \in Nat /\ n + 1 - (d + 1) = n - d
      /\ (a + n) + 1 - (a + d + 1) = n - d
      /\ \A i \in 1 .. n - d : d + 1 + i - 1 \in 1 .. n
                             /\ a + 1 + (d + 1 + i - 1) - 1 = a + d + 1 + i - 1
  OBVIOUS
<1>3. p \in Bytes /\ Len(p) = n /\ \A i \in 1 .. n : p[i] = s[a + 1 + i - 1]
  BY <1>1, <1>2
<1> HIDE DEF p
<1>4. /\ SubSeq(p, d + 1, n) \in Bytes /\ Len(SubSeq(p, d + 1, n)) = n + 1 - (d + 1)
      /\ \A i \in 1 .. n + 1 - (d + 1) : SubSeq(p, d + 1, n)[i] = p[d + 1 + i - 1]
  <2>1. d + 1 \in Nat \ {0} /\ d + 1 <= n + 1 /\ n <= n
    OBVIOUS
  <2> QED BY <1>3, <2>1, CutOf
<1>5. /\ SubSeq(s, a + d + 1, a + n) \in Bytes
      /\ Len(SubSeq(s, a + d + 1, a + n)) = (a + n) + 1 - (a + d + 1)
      /\ \A i \in 1 .. (a + n) + 1 - (a + d + 1) :
           SubSeq(s, a + d + 1, a + n)[i] = s[a + d + 1 + i - 1]
  <2>1. a + d + 1 \in Nat \ {0} /\ a + n \in Nat /\ a + d + 1 <= (a + n) + 1
    OBVIOUS
  <2> QED BY <2>1, CutOf
<1>6. \A i \in 1 .. n - d : SubSeq(p, d + 1, n)[i] = SubSeq(s, a + d + 1, a + n)[i]
  BY <1>2, <1>3, <1>4, <1>5
<1>7. SubSeq(p, d + 1, n) = SubSeq(s, a + d + 1, a + n)
  BY <1>2, <1>4, <1>5, <1>6, SameBytes
<1> QED BY <1>3, <1>7 DEF p

\* What stands between two sequences is a part.
LEMMA CutMiddle ==
  ASSUME NEW p \in Bytes, NEW q \in Bytes, NEW w \in Bytes
  PROVE  SubSeq((p \o q) \o w, Len(p) + 1, Len(p) + Len(q)) = q
<1>1. PICK a \in Nat, b \in Nat, c \in Nat : a = Len(p) /\ b = Len(q) /\ c = Len(w)
  BY JoinOf
<1>2. /\ p \o q \in Bytes /\ Len(p \o q) = a + b
      /\ \A i \in 1 .. b : (p \o q)[a + i] = q[i]
  BY <1>1, JoinOf
<1>3. /\ (p \o q) \o w \in Bytes /\ Len((p \o q) \o w) = a + b + c
      /\ \A i \in 1 .. a + b : ((p \o q) \o w)[i] = (p \o q)[i]
  <2>1. PICK d \in Nat : d = a + b
    OBVIOUS
  <2>2. Len(p \o q) = d
    BY <1>2, <2>1
  <2>3. /\ (p \o q) \o w \in Bytes /\ Len((p \o q) \o w) = d + c
        /\ \A i \in 1 .. d : ((p \o q) \o w)[i] = (p \o q)[i]
    BY <1>1, <1>2, <2>2, JoinOf
  <2> QED BY <2>1, <2>3
<1> DEFINE u == (p \o q) \o w
<1>4. u \in Bytes /\ Len(u) = a + b + c /\ \A i \in 1 .. b : u[a + i] = q[i]
  <2>1. \A i \in 1 .. b : a + i \in 1 .. a + b
    OBVIOUS
  <2> QED BY <1>2, <1>3, <2>1
<1> HIDE DEF u
<1>5. /\ SubSeq(u, a + 1, a + b) \in Bytes
      /\ Len(SubSeq(u, a + 1, a + b)) = (a + b) + 1 - (a + 1)
      /\ \A i \in 1 .. (a + b) + 1 - (a + 1) : SubSeq(u, a + 1, a + b)[i] = u[a + 1 + i - 1]
  <2>1. a + 1 \in Nat \ {0} /\ a + b \in Nat /\ a + 1 <= (a + b) + 1 /\ a + b <= a + b + c
    OBVIOUS
  <2> QED BY <1>4, <2>1, CutOf
<1>6. (a + b) + 1 - (a + 1) = b /\ \A i \in 1 .. b : a + 1 + i - 1 = a + i
  OBVIOUS
<1>7. SubSeq(u, a + 1, a + b) = q
  <2>1. /\ SubSeq(u, a + 1, a + b) \in Bytes /\ Len(SubSeq(u, a + 1, a + b)) = b
        /\ \A i \in 1 .. b : SubSeq(u, a + 1, a + b)[i] = q[i]
    BY <1>4, <1>5, <1>6
  <2> QED BY <1>1, <2>1, SameBytes
<1> QED BY <1>1, <1>7 DEF u

-----------------------------------------------------------------------------
(***************************************************************************)
(* The site name.                                                          *)
(***************************************************************************)

\* The bytes that remove_site_name looks for are different ones.
LEMMA BytesDiffer ==
  /\ SP # SL /\ SP # NL /\ SL # NL /\ SP # NUL /\ SL # NUL /\ NL # NUL
  /\ {SP, SL, NL, NUL, CR, PATH, SITE} \subseteq AllBytes
BY DEF SP, SL, NL, NUL, CR, PATH, SITE, AllBytes

\* Where the blanks and the end of a proper request line are, and what SlugOf
\* makes of it: the slug begins behind the first blank and one slash, and
\* ends before the next slash or the second blank.
SlugAt(s, e, a, b, i1, i2) ==
  /\ e \in Nat /\ a \in Nat \ {0} /\ b \in Nat /\ i1 \in Nat /\ i2 \in Nat
  /\ a < b /\ b < e /\ e <= Len(s) /\ a < i1 /\ i1 <= i2 /\ i2 <= b
  /\ s[a] = SP /\ s[b] = SP /\ s[e] = NL
  /\ \A j \in 1 .. b - 1 : j # a => s[j] # SP
  /\ \A j \in 1 .. e - 1 : s[j] # NL
  /\ IF s[a + 1] = SL THEN i1 = a + 2 ELSE i1 = a + 1
  /\ \A j \in i1 .. i2 - 1 : s[j] # SL
  /\ i2 = b \/ s[i2] = SL

\* Of a proper request line, SlugOf finds them.
LEMMA SlugIs ==
  ASSUME NEW s \in Bytes, NEW e \in Nat, e = Position(s, NL, 1), e # 0,
         NEW a \in Nat, a = Position(SubSeq(s, 1, e), SP, 1), a # 0,
         NEW b \in Nat, b = Position(SubSeq(s, 1, e), SP, a + 1), b # 0
  PROVE  /\ SlugOf(s).ok
         /\ SlugAt(s, e, a, b, SlugOf(s).i1, SlugOf(s).i2)
<1> DEFINE line == SubSeq(s, 1, e)
<1>1. /\ e \in 1 .. Len(s) /\ s[e] = NL /\ \A j \in 1 .. e - 1 : s[j] # NL
      /\ Len(s) \in Nat
  BY PositionFirst, LenProperties DEF Bytes
<1>2. line \in Bytes /\ Len(line) = e /\ \A j \in 1 .. e : line[j] = s[j]
  <2>1. /\ line \in Bytes /\ Len(line) = e + 1 - 1
        /\ \A i \in 1 .. e + 1 - 1 : line[i] = s[1 + i - 1]
    BY <1>1, CutOf
  <2>2. e + 1 - 1 = e /\ \A i \in 1 .. e : 1 + i - 1 = i
    OBVIOUS
  <2> QED BY <2>1, <2>2
<1>0. a = Position(line, SP, 1) /\ b = Position(line, SP, a + 1) /\ 1 \in Nat \ {0}
  OBVIOUS
<1> HIDE DEF line
<1>3. a \in 1 .. e /\ s[a] = SP /\ \A j \in 1 .. a - 1 : s[j] # SP
  <2>1. a \in 1 .. Len(line) /\ line[a] = SP /\ \A j \in 1 .. a - 1 : line[j] # SP
    BY <1>2, <1>0, PositionFirst
  <2> QED BY <1>2, <2>1
<1>4. b \in a + 1 .. e /\ s[b] = SP /\ \A j \in a + 1 .. b - 1 : s[j] # SP
  <2>0. a + 1 \in Nat \ {0}
    OBVIOUS
  <2>1. b \in a + 1 .. Len(line) /\ line[b] = SP /\ \A j \in a + 1 .. b - 1 : line[j] # SP
    BY <1>2, <1>0, <2>0, PositionFirst
  <2> QED BY <1>2, <1>3, <2>1
<1>5. b < e
  BY <1>1, <1>4, BytesDiffer
<1>6. Position(s, SP, 1) = a /\ Position(s, SP, a + 1) = b
  <2>1. a \in 1 .. Len(s) /\ b \in a + 1 .. Len(s) /\ a + 1 \in Nat \ {0}
    BY <1>1, <1>3, <1>4
  <2>2. Position(s, SP, 1) = a
    BY <1>3, <1>0, <2>1, PositionIs
  <2>3. Position(s, SP, a + 1) = b
    BY <1>4, <2>1, PositionIs
  <2> QED BY <2>2, <2>3
<1> DEFINE i1 == IF s[a + 1] = SL THEN a + 2 ELSE a + 1
           sl == Position(s, SL, i1)
           i2 == IF sl \in 1 .. b THEN sl ELSE b
<1>7. SlugOf(s) = [ok |-> TRUE, i1 |-> i1, i2 |-> i2]
  BY <1>6 DEF SlugOf
<1>8. i1 \in Nat \ {0} /\ a < i1 /\ i1 <= b
  BY <1>3, <1>4, BytesDiffer
<1>9. /\ sl = 0 => \A j \in i1 .. Len(s) : s[j] # SL
      /\ sl # 0 => sl \in i1 .. Len(s) /\ s[sl] = SL /\ \A j \in i1 .. sl - 1 : s[j] # SL
      /\ sl \in Nat
  <2> HIDE DEF i1
  <2> QED BY <1>8, PositionFirst
<1>10. IF s[a + 1] = SL THEN i1 = a + 2 ELSE i1 = a + 1
  OBVIOUS
<1> HIDE DEF i1, sl
<1>11. /\ i2 \in Nat /\ i1 <= i2 /\ i2 <= b /\ (\A j \in i1 .. i2 - 1 : s[j] # SL)
       /\ i2 = b \/ s[i2] = SL
  BY <1>1, <1>5, <1>8, <1>9
<1> HIDE DEF i2
<1>12. \A j \in 1 .. b - 1 : j # a => s[j] # SP
  BY <1>3, <1>4
<1>13. SlugAt(s, e, a, b, i1, i2)
  BY <1>1, <1>3, <1>4, <1>5, <1>8, <1>10, <1>11, <1>12 DEF SlugAt
<1> QED BY <1>7, <1>13

\* The parts of a request line, with the blanks and the line end.
LEMMA LineOfParts ==
  ASSUME NEW s \in Bytes, NEW e \in Nat, NEW a \in Nat \ {0}, NEW b \in Nat,
         a < b, b < e, e <= Len(s), s[a] = SP, s[b] = SP, s[e] = NL
  PROVE  /\ a - 1 \in Nat /\ b - 1 \in Nat /\ e - 1 \in Nat /\ Len(s) \in Nat
         /\ SubSeq(s, 1, a - 1) \o <<SP>> = SubSeq(s, 1, a)
         /\ SubSeq(s, a + 1, b - 1) \o <<SP>> = SubSeq(s, a + 1, b)
         /\ SubSeq(s, b + 1, e - 1) \o <<NL>> = SubSeq(s, b + 1, e)
<1>1. Len(s) \in Nat
  BY LenProperties DEF Bytes
<1>2. ASSUME NEW m \in Nat \ {0}, NEW n \in Nat \ {0}, m <= n, n <= Len(s)
      PROVE  SubSeq(s, m, n - 1) \o <<s[n]>> = SubSeq(s, m, n)
  <2>1. SubSeq(s, n, n) = <<s[n]>>
    BY <1>2, CutOne
  <2>2. PICK k \in Nat : n = k + 1
    OBVIOUS
  <2>3. n - 1 = k /\ m <= k + 1 /\ k <= n
    BY <1>2, <2>2
  <2>4. SubSeq(s, m, k) \o SubSeq(s, k + 1, n) = SubSeq(s, m, n)
    BY <1>2, <2>3, CutsJoin
  <2> QED BY <2>1, <2>2, <2>3, <2>4
<1>3. /\ a - 1 \in Nat /\ b - 1 \in Nat /\ e - 1 \in Nat
      /\ a + 1 \in Nat \ {0} /\ b + 1 \in Nat \ {0} /\ 1 \in Nat \ {0}
      /\ 1 <= a /\ a <= Len(s) /\ a + 1 <= b /\ b <= Len(s) /\ b + 1 <= e
  BY <1>1
<1> QED BY <1>1, <1>2, <1>3

\* A byte put behind two sequences is put behind the second one.
LEMMA AssociateByte ==
  ASSUME NEW p \in Bytes, NEW v \in Bytes, NEW x \in AllBytes
  PROVE  (p \o v) \o <<x>> = p \o (v \o <<x>>)
<1>1. <<x>> \in Bytes
  BY DEF Bytes
<1> QED BY <1>1, Associate

\* A proper request line is one by the reference definition.
LEMMA ProperLine ==
  ASSUME NEW s \in Bytes, NEW e \in Nat, NEW a \in Nat \ {0}, NEW b \in Nat,
         NEW i1 \in Nat, NEW i2 \in Nat, SlugAt(s, e, a, b, i1, i2),
         NEW t \in Bytes, NEW u \in Bytes,
         t \o <<SP>> = u, {SP, NL} \cap ToSet(t) = {}
  PROVE  IsRequestLine((SubSeq(s, 1, a) \o u) \o SubSeq(s, b + 1, e),
                       SubSeq(s, 1, a - 1), t, SubSeq(s, b + 1, e - 1))
<1> DEFINE m == SubSeq(s, 1, a - 1)
           v == SubSeq(s, b + 1, e - 1)
<1>1. /\ m \o <<SP>> = SubSeq(s, 1, a) /\ v \o <<NL>> = SubSeq(s, b + 1, e)
      /\ a - 1 \in Nat /\ e - 1 \in Nat /\ Len(s) \in Nat
  <2>1. /\ e \in Nat /\ a \in Nat \ {0} /\ b \in Nat /\ a < b /\ b < e /\ e <= Len(s)
        /\ s[a] = SP /\ s[b] = SP /\ s[e] = NL
    BY DEF SlugAt
  <2>2. /\ SubSeq(s, 1, a - 1) \o <<SP>> = SubSeq(s, 1, a)
        /\ SubSeq(s, b + 1, e - 1) \o <<NL>> = SubSeq(s, b + 1, e)
        /\ a - 1 \in Nat /\ e - 1 \in Nat /\ Len(s) \in Nat
    BY <2>1, LineOfParts
  <2> QED BY <2>2
<1>2. /\ a \in Nat /\ b \in Nat /\ e \in Nat /\ a < b /\ b < e /\ e <= Len(s) /\ 0 < a
      /\ (\A j \in 1 .. b - 1 : j # a => s[j] # SP)
      /\ \A j \in 1 .. e - 1 : s[j] # NL
  BY DEF SlugAt
<1>3. /\ m \in Bytes /\ DOMAIN m = 1 .. a - 1 + 1 - 1
      /\ \A i \in 1 .. a - 1 + 1 - 1 : m[i] = s[1 + i - 1]
  <2>1. 1 \in Nat \ {0} /\ 1 <= a - 1 + 1 /\ a - 1 <= Len(s)
    BY <1>1, <1>2
  <2> QED BY <1>1, <2>1, CutOf
<1>4. /\ v \in Bytes /\ DOMAIN v = 1 .. e - 1 + 1 - (b + 1)
      /\ \A i \in 1 .. e - 1 + 1 - (b + 1) : v[i] = s[b + 1 + i - 1]
  <2>1. b + 1 \in Nat \ {0} /\ b + 1 <= e - 1 + 1 /\ e - 1 <= Len(s)
    BY <1>1, <1>2
  <2> QED BY <1>1, <2>1, CutOf
<1>5. {SP, NL} \cap ToSet(m) = {}
  <2>1. \A i \in 1 .. a - 1 + 1 - 1 :
          1 + i - 1 \in 1 .. b - 1 /\ 1 + i - 1 # a /\ 1 + i - 1 \in 1 .. e - 1
    BY <1>2
  <2>2. \A i \in DOMAIN m : m[i] # SP /\ m[i] # NL
    BY <1>2, <1>3, <2>1
  <2> QED BY <2>2 DEF ToSet
<1>6. NL \notin ToSet(v)
  <2>1. \A i \in 1 .. e - 1 + 1 - (b + 1) : b + 1 + i - 1 \in 1 .. e - 1
    BY <1>2
  <2>2. \A i \in DOMAIN v : v[i] # NL
    BY <1>2, <1>4, <2>1
  <2> QED BY <2>2 DEF ToSet
<1>7. <<SP>> \in Bytes /\ <<NL>> \in Bytes
  BY BytesDiffer DEF Bytes
<1> HIDE DEF m, v
<1>8. m \o <<SP>> \o t \o <<SP>> = (m \o <<SP>>) \o u
  <2>1. m \o <<SP>> \in Bytes
    BY <1>3, <1>7, JoinOf
  <2>2. ((m \o <<SP>>) \o t) \o <<SP>> = (m \o <<SP>>) \o (t \o <<SP>>)
    BY <1>7, <2>1, Associate, ZenonT(60)
  <2> QED BY <2>2
<1>9. (((m \o <<SP>>) \o u) \o v) \o <<NL>> = ((m \o <<SP>>) \o u) \o (v \o <<NL>>)
  <2>1. (m \o <<SP>>) \o u \in Bytes
    <3>1. m \o <<SP>> \in Bytes
      BY <1>3, <1>7, JoinOf
    <3> QED BY <3>1, JoinOf
  <2>2. PICK p \in Bytes : p = (m \o <<SP>>) \o u
    BY <2>1
  <2>3. (p \o v) \o <<NL>> = p \o (v \o <<NL>>)
    <3>1. v \in Bytes /\ NL \in AllBytes
      BY <1>4, BytesDiffer
    <3> QED BY <3>1, AssociateByte
  <2> QED BY <2>2, <2>3
<1>10. (SubSeq(s, 1, a) \o u) \o SubSeq(s, b + 1, e)
         = m \o <<SP>> \o t \o <<SP>> \o v \o <<NL>>
  BY <1>1, <1>8, <1>9
<1>11. {SP, NL} \cap (ToSet(m) \cup ToSet(t)) = {}
  BY <1>5
<1>12. IsRequestLine((SubSeq(s, 1, a) \o u) \o SubSeq(s, b + 1, e), m, t, v)
  BY <1>6, <1>10, <1>11 DEF IsRequestLine
<1> QED BY <1>12 DEF m, v

\* The target is split as the reference definition says.
LEMMA Splits ==
  ASSUME NEW s \in Bytes, NEW e \in Nat, NEW a \in Nat \ {0}, NEW b \in Nat,
         NEW i1 \in Nat, NEW i2 \in Nat, NEW cut \in Nat,
         SlugAt(s, e, a, b, i1, i2), i1 <= cut + 1, cut < b,
         IF s[i2] = SL THEN cut = i2 ELSE cut = i2 - 1
  PROVE  IsSplit(SubSeq(s, a + 1, b - 1), SubSeq(s, i1, i2 - 1),
                 SubSeq(s, a + 1, i1 - 1) \o SubSeq(s, cut + 1, b - 1))
<1> DEFINE t == SubSeq(s, a + 1, b - 1)
           name == SubSeq(s, i1, i2 - 1)
           lead == SubSeq(s, a + 1, i1 - 1)
           rest == SubSeq(s, cut + 1, b - 1)
<1>1. /\ e \in Nat /\ a \in Nat \ {0} /\ b \in Nat /\ i1 \in Nat /\ i2 \in Nat
      /\ a < b /\ b < e /\ e <= Len(s) /\ a < i1 /\ i1 <= i2 /\ i2 <= b /\ s[b] = SP
      /\ Len(s) \in Nat
      /\ IF s[a + 1] = SL THEN i1 = a + 2 ELSE i1 = a + 1
      /\ \A j \in i1 .. i2 - 1 : s[j] # SL
      /\ i2 = b \/ s[i2] = SL
  BY LenProperties DEF SlugAt, Bytes
<1>2. PICK b1 \in Nat, j1 \in Nat, j2 \in Nat : b1 = b - 1 /\ j1 = i1 - 1 /\ j2 = i2 - 1
  BY <1>1
<1>3. /\ a + 1 \in Nat \ {0} /\ i1 \in Nat \ {0} /\ cut + 1 \in Nat \ {0}
      /\ a <= b1 /\ b1 < Len(s) /\ a <= j1 /\ i1 = j1 + 1 /\ j1 <= j2 /\ j2 <= b1
      /\ cut <= b1 /\ j1 <= cut
  BY <1>1, <1>2
<1>4. /\ t = SubSeq(s, a + 1, b1) /\ name = SubSeq(s, j1 + 1, j2)
      /\ lead = SubSeq(s, a + 1, j1) /\ rest = SubSeq(s, cut + 1, b1)
  BY <1>2, <1>3
<1> HIDE DEF t, name, lead, rest
<1>5. /\ t \in Bytes /\ DOMAIN t = 1 .. b1 + 1 - (a + 1) /\ Len(t) = b1 + 1 - (a + 1)
      /\ \A i \in 1 .. b1 + 1 - (a + 1) : t[i] = s[a + 1 + i - 1]
  <2>1. a + 1 <= b1 + 1 /\ b1 <= Len(s)
    BY <1>1, <1>3
  <2> QED BY <1>3, <1>4, <2>1, CutOf
<1>6. /\ name \in Bytes /\ DOMAIN name = 1 .. j2 + 1 - (j1 + 1)
      /\ \A i \in 1 .. j2 + 1 - (j1 + 1) : name[i] = s[j1 + 1 + i - 1]
  <2>1. j1 + 1 <= j2 + 1 /\ j2 <= Len(s) /\ j1 + 1 \in Nat \ {0}
    BY <1>1, <1>3
  <2> QED BY <1>4, <2>1, CutOf
<1>7. lead \in Bytes /\ rest \in Bytes
  <2>1. a + 1 <= j1 + 1 /\ j1 <= Len(s) /\ cut + 1 <= b1 + 1 /\ b1 <= Len(s)
    BY <1>1, <1>3
  <2> QED BY <1>3, <1>4, <2>1, CutOf
<1>8. SL \notin ToSet(name)
  <2>1. \A i \in 1 .. j2 + 1 - (j1 + 1) : j1 + 1 + i - 1 \in i1 .. i2 - 1
    BY <1>1, <1>2, <1>3
  <2>2. \A i \in DOMAIN name : name[i] # SL
    BY <1>1, <1>6, <2>1
  <2> QED BY <2>2 DEF ToSet
<1>9. lead \o name = SubSeq(s, a + 1, j2)
  <2>1. a + 1 <= j1 + 1 /\ j1 <= j2 /\ j2 <= Len(s)
    BY <1>1, <1>3
  <2> QED BY <1>3, <1>4, <2>1, CutsJoin
<1>10. lead \in {<<>>, <<SL>>} /\ (lead = <<SL>> <=> t # <<>> /\ t[1] = SL)
  <2>1. CASE s[a + 1] = SL
    <3>1. j1 = a + 1 /\ a + 1 <= b1
      BY <1>1, <1>2, <1>3, <2>1
    <3>2. lead = <<SL>>
      <4>1. a + 1 <= Len(s)
        BY <1>1, <1>3, <3>1
      <4> QED BY <1>3, <1>4, <2>1, <3>1, <4>1, CutOne
    <3>3. 1 \in 1 .. b1 + 1 - (a + 1) /\ a + 1 + 1 - 1 = a + 1
      BY <1>1, <1>3, <3>1
    <3>4. t # <<>> /\ t[1] = SL
      BY <1>5, <2>1, <3>3
    <3> QED BY <3>2, <3>4
  <2>2. CASE s[a + 1] # SL
    <3>1. j1 = a
      BY <1>1, <1>2, <2>2
    <3>2. lead = <<>> /\ <<>> # <<SL>>
      <4>1. a + 1 - 1 = a
        BY <1>1
      <4> QED BY <1>3, <1>4, <3>1, <4>1, CutNone
    <3>3. ~(t # <<>> /\ t[1] = SL)
      <4> SUFFICES ASSUME t # <<>>, t[1] = SL PROVE FALSE
        OBVIOUS
      <4>1. Len(t) # 0 /\ Len(t) \in Nat
        BY <1>5, EmptySeq DEF Bytes
      <4>2. 1 \in 1 .. b1 + 1 - (a + 1) /\ a + 1 + 1 - 1 = a + 1
        BY <1>1, <1>5, <4>1
      <4> QED BY <1>5, <2>2, <4>2
    <3> QED BY <3>2, <3>3
  <2> QED BY <2>1, <2>2
<1>11. \/ t = lead \o name /\ lead \o rest = lead
       \/ \E r \in {SubSeq(t, i, Len(t)) : i \in 1 .. Len(t) + 1} :
            t = lead \o name \o <<SL>> \o r /\ lead \o rest = lead \o r
  <2>1. CASE s[i2] # SL
    <3>1. i2 = b /\ cut = i2 - 1
      BY <1>1, <2>1
    <3>2. j2 = b1 /\ cut = b1
      BY <1>2, <3>1
    <3>3. t = lead \o name
      BY <1>4, <1>9, <3>2
    <3>4. rest = <<>>
      <4>1. b1 + 1 - 1 = b1
        OBVIOUS
      <4> QED BY <1>3, <1>4, <3>2, <4>1, CutNone
    <3>5. lead \o rest = lead
      BY <1>7, <3>4, ConcatEmptySeq DEF Bytes
    <3> QED BY <3>3, <3>5
  <2>2. CASE s[i2] = SL
    <3>1. cut = i2 /\ i2 = j2 + 1 /\ i2 <= b1 /\ i2 \in Nat \ {0}
      BY <1>1, <1>2, <1>3, <2>2
    <3>2. (lead \o name) \o <<SL>> = SubSeq(s, a + 1, i2)
      <4>1. SubSeq(s, i2, i2) = <<SL>>
        <5>1. i2 <= Len(s)
          BY <1>1
        <5> QED BY <2>2, <3>1, <5>1, CutOne
      <4>2. SubSeq(s, a + 1, j2) \o SubSeq(s, j2 + 1, i2) = SubSeq(s, a + 1, i2)
        <5>1. a + 1 <= j2 + 1 /\ j2 <= i2 /\ i2 <= Len(s)
          BY <1>1, <1>3, <3>1
        <5>2. i2 \in Nat /\ j2 \in Nat /\ a + 1 \in Nat \ {0}
          BY <1>1, <1>2, <1>3
        <5> QED BY <5>1, <5>2, CutsJoin
      <4> QED BY <1>9, <3>1, <4>1, <4>2
    <3>3. t = lead \o name \o <<SL>> \o rest
      <4>1. SubSeq(s, a + 1, i2) \o SubSeq(s, i2 + 1, b1) = SubSeq(s, a + 1, b1)
        <5>1. a + 1 <= i2 + 1 /\ b1 <= Len(s)
          BY <1>1, <1>3
        <5> QED BY <1>3, <3>1, <5>1, CutsJoin
      <4> QED BY <1>4, <3>1, <3>2, <4>1
    <3>4. rest = SubSeq(t, i2 - a + 1, Len(t)) /\ i2 - a + 1 \in 1 .. Len(t) + 1
      <4>1. PICK d \in Nat, n \in Nat : i2 = a + d /\ b1 = a + n
        <5>1. i2 - a \in Nat /\ b1 - a \in Nat
          BY <1>1, <1>3
        <5>2. i2 = a + (i2 - a) /\ b1 = a + (b1 - a)
          BY <1>1
        <5> QED BY <5>1, <5>2
      <4>2. d <= n /\ i2 - a + 1 = d + 1 /\ a + n <= Len(s) /\ d + 1 \in 1 .. n + 1
        BY <1>1, <1>3, <3>1, <4>1
      <4>3. /\ Len(SubSeq(s, a + 1, a + n)) = n
            /\ SubSeq(SubSeq(s, a + 1, a + n), d + 1, n) = SubSeq(s, a + d + 1, a + n)
        BY <1>1, <4>2, CutDeep
      <4> QED BY <1>4, <3>1, <4>1, <4>2, <4>3
    <3> QED BY <3>3, <3>4
  <2> QED BY <2>1, <2>2
<1>12. IsSplit(t, name, lead \o rest)
  BY <1>8, <1>10, <1>11 DEF IsSplit
<1> QED BY <1>12 DEF t, name, lead, rest

\* The bytes of a request line with its site name taken out, between what
\* stands before the target and what stands behind it.
LEMMA LineLeft ==
  ASSUME NEW s \in Bytes, NEW e \in Nat, NEW a \in Nat \ {0}, NEW b \in Nat,
         NEW j1 \in Nat, NEW k \in Nat \ {0}, NEW n \in Nat, b = n + 1,
         a <= n, b < e, e <= Len(s), a <= j1, j1 < k, k <= b, s[b] = SP
  PROVE  /\ Len(SubSeq(s, a + 1, j1) \o SubSeq(s, k, n)) = (j1 - a) + (b - k)
         /\ SubSeq(s, 1, j1) \o SubSeq(s, k, e)
              = (SubSeq(s, 1, a) \o ((SubSeq(s, a + 1, j1) \o SubSeq(s, k, n)) \o <<SP>>))
                \o SubSeq(s, b + 1, e)
<1> DEFINE lead == SubSeq(s, a + 1, j1)
           rest == SubSeq(s, k, n)
           front == SubSeq(s, 1, a)
           last == SubSeq(s, b + 1, e)
<1>2. /\ Len(s) \in Nat /\ a + 1 \in Nat \ {0} /\ b + 1 \in Nat \ {0}
      /\ b \in Nat \ {0} /\ b <= Len(s) /\ n <= Len(s) /\ j1 <= Len(s) /\ a <= Len(s)
      /\ a + 1 <= j1 + 1 /\ k <= n + 1 /\ n <= b /\ k <= b + 1 /\ b <= e
      /\ 1 <= a + 1 /\ b + 1 <= e + 1 /\ 1 \in Nat \ {0}
  BY LenProperties DEF Bytes
<1>3. lead \in Bytes /\ Len(lead) = j1 + 1 - (a + 1)
  BY <1>2, CutOf
<1>4. rest \in Bytes /\ Len(rest) = n + 1 - k
  BY <1>2, CutOf
<1>5. front \in Bytes
  BY <1>2, CutOf
<1>6. last \in Bytes
  BY <1>2, CutOf
<1>7. <<SP>> \in Bytes /\ SubSeq(s, b, b) = <<SP>>
  BY <1>2, CutOne
<1>8. rest \o <<SP>> = SubSeq(s, k, b)
  <2>1. SubSeq(s, k, n) \o SubSeq(s, n + 1, b) = SubSeq(s, k, b)
    BY <1>2, CutsJoin
  <2> QED BY <1>7, <2>1
<1>9. SubSeq(s, k, b) \o last = SubSeq(s, k, e)
  BY <1>2, CutsJoin
<1>10. front \o lead = SubSeq(s, 1, j1)
  BY <1>2, CutsJoin
<1> HIDE DEF lead, rest, front, last
<1>11. lead \o rest \in Bytes /\ Len(lead \o rest) = Len(lead) + Len(rest)
  BY <1>3, <1>4, JoinOf
<1>13. Len(lead \o rest) = (j1 - a) + (b - k)
  BY <1>3, <1>4, <1>11
<1>14. (front \o ((lead \o rest) \o <<SP>>)) \o last = (front \o lead) \o ((rest \o <<SP>>) \o last)
  <2>1. rest \o <<SP>> \in Bytes
    BY <1>4, <1>7, JoinOf
  <2>2. (lead \o rest) \o <<SP>> = lead \o (rest \o <<SP>>)
    BY <1>3, <1>4, <1>7, Associate, ZenonT(60)
  <2>3. front \o (lead \o (rest \o <<SP>>)) = (front \o lead) \o (rest \o <<SP>>)
    BY <1>3, <1>5, <2>1, Associate, ZenonT(60)
  <2>4. front \o lead \in Bytes
    BY <1>3, <1>5, JoinOf
  <2>5. ((front \o lead) \o (rest \o <<SP>>)) \o last = (front \o lead) \o ((rest \o <<SP>>) \o last)
    BY <1>6, <2>1, <2>4, Associate
  <2> QED BY <2>2, <2>3, <2>5
<1>15. SubSeq(s, 1, j1) \o SubSeq(s, k, e) = (front \o ((lead \o rest) \o <<SP>>)) \o last
  BY <1>8, <1>9, <1>10, <1>14
<1> QED BY <1>13, <1>15 DEF lead, rest, front, last

\* There is no blank and no line end in the target of a proper request line,
\* nor in what is left of it.
LEMMA TargetBytes ==
  ASSUME NEW s \in Bytes, NEW e \in Nat, NEW a \in Nat \ {0}, NEW b \in Nat,
         a < b, b < e, e <= Len(s),
         \A j \in 1 .. b - 1 : j # a => s[j] # SP,
         \A j \in 1 .. e - 1 : s[j] # NL,
         NEW j1 \in Nat, NEW cut \in Nat, a <= j1, j1 <= cut, cut < b
  PROVE  /\ {SP, NL} \cap ToSet(SubSeq(s, a + 1, b - 1)) = {}
         /\ {SP, NL} \cap ToSet(SubSeq(s, a + 1, j1) \o SubSeq(s, cut + 1, b - 1)) = {}
<1>1. PICK n \in Nat : n = b - 1
  BY SMT
<1>2. /\ Len(s) \in Nat /\ a + 1 \in Nat \ {0} /\ cut + 1 \in Nat \ {0}
      /\ n <= Len(s) /\ a <= n /\ j1 <= n /\ a + 1 <= j1 + 1 /\ cut + 1 <= n + 1
      /\ a + 1 <= n + 1 /\ cut <= n /\ j1 <= Len(s) /\ n < e
  BY <1>1, LenProperties DEF Bytes
<1>3. \A j \in a + 1 .. n : s[j] \notin {SP, NL}
  BY <1>1, <1>2
<1>4. ASSUME NEW p \in Nat, NEW q \in Nat, a <= p, p <= q + 1, q <= n, p + 1 <= q + 1, p <= q
      PROVE  /\ SubSeq(s, p + 1, q) \in Bytes
             /\ \A i \in DOMAIN SubSeq(s, p + 1, q) : SubSeq(s, p + 1, q)[i] \notin {SP, NL}
  <2>1. p + 1 \in Nat \ {0} /\ q <= Len(s)
    BY <1>2, <1>4
  <2>2. /\ SubSeq(s, p + 1, q) \in Bytes
        /\ DOMAIN SubSeq(s, p + 1, q) = 1 .. q + 1 - (p + 1)
        /\ \A i \in 1 .. q + 1 - (p + 1) : SubSeq(s, p + 1, q)[i] = s[p + 1 + i - 1]
    BY <1>4, <2>1, CutOf
  <2>3. \A i \in 1 .. q + 1 - (p + 1) : p + 1 + i - 1 \in a + 1 .. n
    BY <1>4
  <2> QED BY <1>3, <2>2, <2>3
<1> DEFINE t == SubSeq(s, a + 1, n)
           lead == SubSeq(s, a + 1, j1)
           rest == SubSeq(s, cut + 1, n)
<1>5. t \in Bytes /\ \A i \in DOMAIN t : t[i] \notin {SP, NL}
  <2>1. a \in Nat /\ a <= a /\ a <= n + 1 /\ n <= n
    BY <1>2
  <2> QED BY <1>2, <1>4, <2>1
<1>6. lead \in Bytes /\ \A i \in DOMAIN lead : lead[i] \notin {SP, NL}
  <2>1. a \in Nat /\ a <= a /\ a <= j1 + 1
    OBVIOUS
  <2> QED BY <1>2, <1>4, <2>1
<1>7. rest \in Bytes /\ \A i \in DOMAIN rest : rest[i] \notin {SP, NL}
  <2>1. a <= cut /\ cut <= n + 1 /\ n <= n
    BY <1>2
  <2> QED BY <1>2, <1>4, <2>1
<1> HIDE DEF t, lead, rest
<1>8. {SP, NL} \cap ToSet(t) = {}
  BY <1>5 DEF ToSet
<1>9. {SP, NL} \cap ToSet(lead \o rest) = {}
  <2>1. PICK x \in Nat, y \in Nat : x = Len(lead) /\ y = Len(rest)
    BY <1>6, <1>7, JoinOf
  <2>2. DOMAIN lead = 1 .. x /\ DOMAIN rest = 1 .. y
    BY <1>6, <1>7, <2>1, LenProperties DEF Bytes
  <2>3. /\ DOMAIN (lead \o rest) = 1 .. x + y
        /\ \A i \in 1 .. x : (lead \o rest)[i] = lead[i]
        /\ \A i \in 1 .. y : (lead \o rest)[x + i] = rest[i]
    BY <1>6, <1>7, <2>1, JoinOf
  <2>4. ASSUME NEW i \in 1 .. x + y PROVE (lead \o rest)[i] \notin {SP, NL}
    <3>1. CASE i <= x
      BY <1>6, <2>2, <2>3, <2>4, <3>1
    <3>2. CASE ~(i <= x)
      <4>1. PICK k \in 1 .. y : i = x + k
        <5>1. i - x \in 1 .. y /\ i = x + (i - x)
          BY <2>4, <3>2
        <5> QED BY <5>1
      <4> QED BY <1>7, <2>2, <2>3, <4>1
    <3> QED BY <3>1, <3>2
  <2> QED BY <2>3, <2>4 DEF ToSet
<1> QED BY <1>1, <1>8, <1>9 DEF t, lead, rest

\* Of a proper request line, remove_site_name makes the line with the site
\* name taken out of its target, as the reference definition says.
LEMMA SiteOf ==
  ASSUME NEW s \in Bytes, NEW e \in Nat, NEW a \in Nat \ {0}, NEW b \in Nat,
         SlugOf(s).ok, SlugAt(s, e, a, b, SlugOf(s).i1, SlugOf(s).i2),
         Position(s, NL, 1) = e, ~NotUtf8(SubSeq(s, 1, e))
  PROVE  LET m == SubSeq(s, 1, a - 1)
             t == SubSeq(s, a + 1, b - 1)
             v == SubSeq(s, b + 1, e - 1)
             r == RemoveSiteName(s)
         IN  /\ IsRequestLine(SubSeq(s, 1, e), m, t, v)
             /\ r.kind = "ok"
             /\ \E i \in 0 .. Len(t) :
                  LET left == SubSeq(r.line, a + 1, a + i)
                  IN  IsSplit(t, r.name, left) /\ IsRequestLine(r.line, m, left, v)
<1> PICK i1 \in Nat, i2 \in Nat :
      SlugOf(s).i1 = i1 /\ SlugOf(s).i2 = i2 /\ SlugAt(s, e, a, b, i1, i2)
  BY DEF SlugAt
<1>0. PICK cut \in Nat : IF s[i2] = SL THEN cut = i2 ELSE cut = i2 - 1
  <2>1. i2 \in Nat /\ i2 - 1 \in Nat
    BY DEF SlugAt
  <2> QED BY <2>1
<1>2. /\ e \in Nat /\ a \in Nat \ {0} /\ b \in Nat /\ i1 \in Nat
      /\ a < b /\ b < e /\ e <= Len(s) /\ a < i1 /\ i1 <= i2 /\ i2 <= b
      /\ s[a] = SP /\ s[b] = SP /\ s[e] = NL
      /\ \A j \in 1 .. b - 1 : j # a => s[j] # SP
      /\ \A j \in 1 .. e - 1 : s[j] # NL
  BY DEF SlugAt
<1>3. PICK j1 \in Nat, j2 \in Nat, k \in Nat \ {0}, n \in Nat :
        /\ j1 = i1 - 1 /\ i1 = j1 + 1 /\ j2 = i2 - 1 /\ i2 = j2 + 1
        /\ k = cut + 1 /\ n = b - 1 /\ b = n + 1
  <2>1. /\ i1 - 1 \in Nat /\ i1 = i1 - 1 + 1 /\ i2 - 1 \in Nat /\ i2 = i2 - 1 + 1
        /\ cut + 1 \in Nat \ {0} /\ b - 1 \in Nat /\ b = b - 1 + 1
    BY <1>2
  <2> QED BY <2>1
<1>4. a <= j1 /\ j1 <= cut /\ cut < b /\ i1 <= cut + 1
  BY <1>0, <1>2, <1>3, BytesDiffer
<1>1. RemoveSiteName(s) = [kind |-> "ok", name |-> SubSeq(s, i1, i2 - 1),
                           line |-> SubSeq(s, 1, j1) \o SubSeq(s, k, e)]
  <2> DEFINE cutEnd == IF s[i2] = SL THEN i2 ELSE i2 - 1
  <2>1. cutEnd = cut /\ ~(cutEnd > e) /\ e # 0 /\ cut <= e
    BY <1>0, <1>2, <1>4
  <2>2. RemoveSiteName(s) =
          [kind |-> "ok", name |-> SubSeq(s, i1, i2 - 1),
           line |-> SubSeq(SubSeq(s, 1, e), 1, i1 - 1)
                    \o SubSeq(SubSeq(s, 1, e), cutEnd + 1, e)]
    BY <2>1 DEF RemoveSiteName
  <2> HIDE DEF cutEnd
  <2>3. SubSeq(SubSeq(s, 1, e), 1, j1) = SubSeq(s, 1, j1)
    <3>1. 1 \in Nat \ {0} /\ 1 <= j1 + 1 /\ j1 <= e /\ e <= Len(s)
      BY <1>2, <1>4
    <3> QED BY <3>1, CutOfCut
  <2>4. SubSeq(SubSeq(s, 1, e), k, e) = SubSeq(s, k, e)
    <3>1. k <= e + 1 /\ e <= e /\ e <= Len(s)
      BY <1>2, <1>3, <2>1
    <3> QED BY <3>1, CutOfCut
  <2> QED BY <1>3, <2>1, <2>2, <2>3, <2>4
<1> DEFINE m == SubSeq(s, 1, a - 1)
           t == SubSeq(s, a + 1, b - 1)
           v == SubSeq(s, b + 1, e - 1)
           lead == SubSeq(s, a + 1, j1)
           rest == SubSeq(s, k, n)
           left == lead \o rest
           line == (SubSeq(s, 1, a) \o (left \o <<SP>>)) \o SubSeq(s, b + 1, e)
<1>5. /\ lead \in Bytes /\ rest \in Bytes /\ left \o <<SP>> \in Bytes
      /\ Len(left) = (j1 - a) + (b - k)
      /\ SubSeq(s, 1, j1) \o SubSeq(s, k, e) = line
  <2>1. /\ a < b /\ b < e /\ e <= Len(s) /\ s[b] = SP /\ b = n + 1
        /\ a <= n /\ j1 < k /\ k <= b /\ n <= Len(s) /\ j1 <= Len(s)
        /\ a + 1 \in Nat \ {0} /\ a + 1 <= j1 + 1 /\ k <= n + 1
    BY <1>2, <1>3, <1>4, LenProperties DEF Bytes
  <2>2. lead \in Bytes
    BY <2>1, CutOf
  <2>6. rest \in Bytes
    BY <2>1, CutOf
  <2>5. left \o <<SP>> \in Bytes
    <3>1. <<SP>> \in Bytes
      BY BytesDiffer DEF Bytes
    <3> QED BY <2>2, <2>6, <3>1, JoinOf
  <2>3. SubSeq(s, 1, j1) \o SubSeq(s, k, e) = line
    BY <1>4, <2>1, LineLeft, SMTT(60)
  <2>4. Len(left) = (j1 - a) + (b - k)
    BY <1>4, <2>1, LineLeft, SMTT(60)
  <2> QED BY <2>2, <2>3, <2>4, <2>5, <2>6
<1>6. {SP, NL} \cap ToSet(t) = {} /\ {SP, NL} \cap ToSet(left) = {}
  <2>1. /\ {SP, NL} \cap ToSet(SubSeq(s, a + 1, b - 1)) = {}
        /\ {SP, NL} \cap ToSet(SubSeq(s, a + 1, j1) \o SubSeq(s, cut + 1, b - 1)) = {}
    BY <1>2, <1>4, TargetBytes
  <2> QED BY <1>3, <2>1
<1>7. IsSplit(t, SubSeq(s, i1, i2 - 1), left)
  <2>1. IsSplit(SubSeq(s, a + 1, b - 1), SubSeq(s, i1, i2 - 1),
                SubSeq(s, a + 1, i1 - 1) \o SubSeq(s, cut + 1, b - 1))
    BY <1>0, <1>4, Splits
  <2> QED BY <1>3, <2>1
<1>8. left \in Bytes
  BY <1>5, JoinOf
<1>9. IsRequestLine(line, m, left, v)
  BY <1>5, <1>6, <1>8, ProperLine
<1>10. t \in Bytes /\ Len(t) = b - 1 - a /\ t \o <<SP>> = SubSeq(s, a + 1, b)
       /\ SubSeq(s, a + 1, b) \in Bytes
  <2>1. n = b - 1 /\ b = n + 1
    BY <1>3
  <2>2. a + 1 \in Nat \ {0} /\ a + 1 <= n + 1 /\ n <= Len(s) /\ b <= Len(s) /\ a + 1 <= b + 1
    BY <1>2, <2>1, LenProperties DEF Bytes
  <2>3. SubSeq(s, a + 1, n) \in Bytes /\ Len(SubSeq(s, a + 1, n)) = n + 1 - (a + 1)
    BY <2>2, CutOf
  <2>4. SubSeq(s, a + 1, b) \in Bytes
    BY <1>2, <2>2, CutOf
  <2>5. t \o <<SP>> = SubSeq(s, a + 1, b)
    BY <1>2, LineOfParts
  <2> QED BY <1>2, <2>1, <2>3, <2>4, <2>5
<1>11. IsRequestLine(SubSeq(s, 1, e), m, t, v)
  <2>1. IsRequestLine((SubSeq(s, 1, a) \o SubSeq(s, a + 1, b)) \o SubSeq(s, b + 1, e), m, t, v)
    BY <1>6, <1>10, ProperLine
  <2>2. /\ 1 \in Nat \ {0} /\ 1 <= a + 1 /\ a <= b /\ b <= Len(s)
        /\ 1 <= b + 1 /\ b <= e /\ a \in Nat
    BY <1>2, LenProperties DEF Bytes
  <2>3. SubSeq(s, 1, a) \o SubSeq(s, a + 1, b) = SubSeq(s, 1, b)
    BY <1>2, <2>2, CutsJoin
  <2>4. SubSeq(s, 1, b) \o SubSeq(s, b + 1, e) = SubSeq(s, 1, e)
    BY <1>2, <2>2, CutsJoin
  <2> QED BY <2>1, <2>3, <2>4
<1>12. SubSeq(line, a + 1, a + Len(left)) = left /\ Len(left) \in 0 .. Len(t)
  <2>1. SubSeq(s, 1, a) \in Bytes /\ Len(SubSeq(s, 1, a)) = a
    <3>1. 1 \in Nat \ {0} /\ a \in Nat /\ 1 <= a + 1 /\ a <= Len(s) /\ a + 1 - 1 = a
      BY <1>2, LenProperties DEF Bytes
    <3> QED BY <3>1, CutOf
  <2>2. SubSeq(s, b + 1, e) \in Bytes
    <3>1. b + 1 \in Nat \ {0} /\ b + 1 <= e + 1
      BY <1>2
    <3> QED BY <1>2, <3>1, CutOf
  <2>3. <<SP>> \in Bytes
    BY BytesDiffer DEF Bytes
  <2>4. PICK p \in Bytes, w \in Bytes, l \in Bytes :
          p = SubSeq(s, 1, a) /\ w = SubSeq(s, b + 1, e) /\ l = left
    BY <1>8, <2>1, <2>2
  <2>5. (p \o (l \o <<SP>>)) \o w = (p \o l) \o (<<SP>> \o w)
    <3>1. p \o (l \o <<SP>>) = (p \o l) \o <<SP>>
      BY <2>3, Associate
    <3>3. p \o l \in Bytes
      BY JoinOf
    <3>2. ((p \o l) \o <<SP>>) \o w = (p \o l) \o (<<SP>> \o w)
      BY <2>3, <3>3, Associate, ZenonT(60)
    <3> QED BY <3>1, <3>2
  <2>6. PICK w1 \in Bytes : w1 = <<SP>> \o w
    BY <2>3, JoinOf
  <2>7. SubSeq((p \o l) \o w1, Len(p) + 1, Len(p) + Len(l)) = l
    BY CutMiddle
  <2>8. SubSeq(line, a + 1, a + Len(left)) = left
    BY <2>1, <2>4, <2>5, <2>6, <2>7
  <2>9. Len(left) \in 0 .. Len(t)
    BY <1>2, <1>3, <1>4, <1>5, <1>10
  <2> QED BY <2>8, <2>9
<1>13. /\ RemoveSiteName(s).kind = "ok" /\ RemoveSiteName(s).line = line
       /\ RemoveSiteName(s).name = SubSeq(s, i1, i2 - 1)
  <2> HIDE DEF line
  <2>1. RemoveSiteName(s) = [kind |-> "ok", name |-> SubSeq(s, i1, i2 - 1), line |-> line]
    BY <1>1, <1>5
  <2> QED BY <2>1
<1> HIDE DEF m, t, v, left, line
<1>14. \E i \in 0 .. Len(t) :
         /\ IsSplit(t, SubSeq(s, i1, i2 - 1), SubSeq(line, a + 1, a + i))
         /\ IsRequestLine(line, m, SubSeq(line, a + 1, a + i), v)
  BY <1>7, <1>9, <1>12
<1> QED BY <1>11, <1>13, <1>14 DEF m, t, v

\* remove_site_name splits every proper request line as the reference
\* definition does and keeps its method and version, whatever the client
\* sends and however its bytes arrive.
THEOREM SiteTakenOut == Spec => []SiteRemoved
<1>1. TypeOK => SiteRemoved
  <2> SUFFICES ASSUME TypeOK PROVE SiteRemoved
    OBVIOUS
  <2> DEFINE e == Position(buf, NL, 1)
             line == SubSeq(buf, 1, e)
             a == Position(line, SP, 1)
             b == Position(line, SP, a + 1)
  <2>1. SUFFICES ASSUME e # 0, a # 0, b # 0, ~NotUtf8(line)
        PROVE  LET m == SubSeq(line, 1, a - 1)
                   t == SubSeq(line, a + 1, b - 1)
                   v == SubSeq(line, b + 1, e - 1)
                   r == RemoveSiteName(buf)
               IN  /\ IsRequestLine(line, m, t, v)
                   /\ r.kind = "ok"
                   /\ \E i \in 0 .. Len(t) :
                        LET left == SubSeq(r.line, a + 1, a + i)
                        IN  IsSplit(t, r.name, left) /\ IsRequestLine(r.line, m, left, v)
    BY DEF SiteRemoved
  <2>2. buf \in Bytes
    BY DEF TypeOK, Bytes
  <2>3. e \in Nat /\ e <= Len(buf)
    <3>1. PICK n : n = e
      OBVIOUS
    <3>2. n \in 1 .. Len(buf) /\ Len(buf) \in Nat
      <4>1. 1 \in Nat \ {0}
        OBVIOUS
      <4>2. Len(buf) \in Nat
        BY <2>2, LenProperties DEF Bytes
      <4> QED BY <2>1, <2>2, <3>1, <4>1, <4>2, PositionFirst
    <3> HIDE DEF e
    <3> QED BY <3>1, <3>2
  <2>4. line \in Bytes
    <3> HIDE DEF e
    <3>1. 1 \in Nat \ {0} /\ 1 <= e + 1
      BY <2>3
    <3> QED BY <2>2, <2>3, <3>1, CutOf
  <2>5. a \in Nat /\ b \in Nat
    <3> HIDE DEF line
    <3>1. a \in Nat
      BY <2>4, PositionFirst
    <3>2. PICK k \in Nat \ {0} : k = a + 1
      BY <3>1
    <3>3. Position(line, SP, k) \in Nat
      BY <2>4, PositionFirst
    <3> QED BY <3>1, <3>2, <3>3
  <2>6. SlugOf(buf).ok /\ SlugAt(buf, e, a, b, SlugOf(buf).i1, SlugOf(buf).i2)
    BY <2>1, <2>2, <2>3, <2>5, SlugIs
  <2>8. /\ SubSeq(line, 1, a - 1) = SubSeq(buf, 1, a - 1)
        /\ SubSeq(line, a + 1, b - 1) = SubSeq(buf, a + 1, b - 1)
        /\ SubSeq(line, b + 1, e - 1) = SubSeq(buf, b + 1, e - 1)
    <3>1. PICK x \in Nat, y \in Nat, n \in Nat :
            x = a /\ y = b /\ n = e /\ 0 < x /\ x < y /\ y < n /\ n <= Len(buf)
      <4> HIDE DEF e, a, b
      <4>1. 0 < a /\ a < b /\ b < e
        BY <2>1, <2>5, <2>6 DEF SlugAt
      <4> QED BY <2>3, <2>5, <4>1
    <3>2. /\ x - 1 \in Nat /\ y - 1 \in Nat /\ n - 1 \in Nat
          /\ 1 \in Nat \ {0} /\ x + 1 \in Nat \ {0} /\ y + 1 \in Nat \ {0}
          /\ 1 <= x - 1 + 1 /\ x - 1 <= n /\ x + 1 <= y - 1 + 1 /\ y - 1 <= n
          /\ y + 1 <= n - 1 + 1 /\ n - 1 <= n
      BY <3>1
    <3>6. n <= Len(buf)
      BY <3>1
    <3>3. SubSeq(SubSeq(buf, 1, n), 1, x - 1) = SubSeq(buf, 1, x - 1)
      <4>1. PICK i \in Nat \ {0}, j \in Nat : i = 1 /\ j = x - 1 /\ i <= j + 1 /\ j <= n
        BY <3>2
      <4>2. SubSeq(SubSeq(buf, 1, n), i, j) = SubSeq(buf, i, j)
        BY <2>2, <3>6, <4>1, CutOfCut
      <4> QED BY <4>1, <4>2
    <3>4. SubSeq(SubSeq(buf, 1, n), x + 1, y - 1) = SubSeq(buf, x + 1, y - 1)
      <4>1. PICK i \in Nat \ {0}, j \in Nat : i = x + 1 /\ j = y - 1 /\ i <= j + 1 /\ j <= n
        BY <3>2
      <4>2. SubSeq(SubSeq(buf, 1, n), i, j) = SubSeq(buf, i, j)
        BY <2>2, <3>6, <4>1, CutOfCut
      <4> QED BY <4>1, <4>2
    <3>5. SubSeq(SubSeq(buf, 1, n), y + 1, n - 1) = SubSeq(buf, y + 1, n - 1)
      <4>1. PICK i \in Nat \ {0}, j \in Nat : i = y + 1 /\ j = n - 1 /\ i <= j + 1 /\ j <= n
        BY <3>2
      <4>2. SubSeq(SubSeq(buf, 1, n), i, j) = SubSeq(buf, i, j)
        BY <2>2, <3>6, <4>1, CutOfCut
      <4> QED BY <4>1, <4>2
    <3> QED BY <3>1, <3>3, <3>4, <3>5
  <2> HIDE DEF a, b
  <2>9. LET m == SubSeq(buf, 1, a - 1)
            t == SubSeq(buf, a + 1, b - 1)
            v == SubSeq(buf, b + 1, e - 1)
            r == RemoveSiteName(buf)
        IN  /\ IsRequestLine(SubSeq(buf, 1, e), m, t, v)
            /\ r.kind = "ok"
            /\ \E i \in 0 .. Len(t) :
                 LET left == SubSeq(r.line, a + 1, a + i)
                 IN  IsSplit(t, r.name, left) /\ IsRequestLine(r.line, m, left, v)
    <3>1. a \in Nat \ {0} /\ b \in Nat /\ e \in Nat
      BY <2>1, <2>3, <2>5
    <3>2. Position(buf, NL, 1) = e /\ ~NotUtf8(SubSeq(buf, 1, e))
      BY <2>1 DEF e
    <3> HIDE DEF e
    <3> QED BY <2>2, <2>6, <3>1, <3>2, SiteOf
  <2> HIDE DEF e
  <2> QED BY <2>8, <2>9
<1> QED BY <1>1, TypeCorrect, PTL

-----------------------------------------------------------------------------
(***************************************************************************)
(* A short first read.                                                     *)
(***************************************************************************)

\* Zeros behind letters that the request begins with make no difference to
\* the site name: what remove_site_name looks for is as many bytes further on.
LEMMA SiteThroughZeros ==
  ASSUME NEW s \in Bytes, NEW w \in Bytes, NEW g \in Nat, NEW d \in Nat, NEW n \in Nat,
         Len(w) = n, Len(s) = n + d, g <= n,
         \A i \in 1 .. g : s[i] = w[i] /\ w[i] = "x",
         \A i \in g + 1 .. g + d : s[i] = NUL,
         \A i \in g + 1 .. n : s[i + d] = w[i]
  PROVE  /\ RemoveSiteName(s).kind = RemoveSiteName(w).kind
         /\ RemoveSiteName(s).kind = "ok" => RemoveSiteName(s).name = RemoveSiteName(w).name
<1> DEFINE Moved(p) == IF p = 0 THEN 0 ELSE p + d
<1>1. \A b \in {SP, SL, NL, BAD, FF, FE} : b # "x" /\ b # NUL
  BY DEF SP, SL, NL, BAD, FF, FE, NUL
<1>2. \A j \in 1 .. g + d : s[j] \notin {SP, SL, NL, BAD, FF, FE}
  <2> TAKE j \in 1 .. g + d
  <2>1. j \in 1 .. g \/ j \in g + 1 .. g + d
    OBVIOUS
  <2>2. s[j] = "x" \/ s[j] = NUL
    BY <2>1
  <2> QED BY <1>1, <2>2
<1>3. \A j \in 1 .. g : w[j] \notin {SP, SL, NL, BAD, FF, FE}
  BY <1>1
<1>4. ASSUME NEW j \in g + d + 1 .. n + d
      PROVE  j - d \in g + 1 .. n /\ s[j] = w[j - d] /\ j - d + d = j
  <2>1. PICK i \in g + 1 .. n : j = i + d /\ j - d = i
    <3>1. j - d \in g + 1 .. n /\ j = j - d + d
      OBVIOUS
    <3> QED BY <3>1
  <2> QED BY <2>1
<1>5. ASSUME NEW b \in {SP, SL, NL}, NEW i \in Nat, g < i
      PROVE  Position(s, b, i + d) = Moved(Position(w, b, i))
  <2>1. PICK p \in Nat : p = Position(w, b, i)
    BY <1>5, PositionFirst
  <2>2. i \in Nat \ {0} /\ i + d \in Nat \ {0}
    BY <1>5
  <2>3. CASE p = 0
    <3>0. Position(w, b, i) = 0
      BY <2>1, <2>3
    <3>1. \A j \in i .. n : w[j] # b
      BY <2>2, <3>0, PositionFirst
    <3>2. \A j \in i + d .. n + d : j \in g + d + 1 .. n + d /\ j - d \in i .. n
      BY <1>5
    <3>3. \A j \in i + d .. n + d : s[j] # b
      BY <1>4, <3>1, <3>2
    <3>4. Position(s, b, i + d) = 0
      BY <2>2, <3>3, PositionIs
    <3> QED BY <2>1, <2>3, <3>4
  <2>4. CASE p # 0
    <3>1. p \in i .. n /\ w[p] = b /\ \A j \in i .. p - 1 : w[j] # b
      BY <2>1, <2>2, <2>4, PositionFirst
    <3>2. /\ \A j \in i + d .. p + d - 1 : j \in g + d + 1 .. n + d /\ j - d \in i .. p - 1
          /\ p + d \in i + d .. n + d /\ p \in g + 1 .. n
      BY <1>5, <3>1
    <3>3. ASSUME NEW j \in i + d .. p + d - 1 PROVE s[j] # b
      <4>1. j \in g + d + 1 .. n + d /\ j - d \in i .. p - 1
        BY <3>2
      <4>2. s[j] = w[j - d]
        BY <1>4, <4>1
      <4> QED BY <3>1, <4>1, <4>2
    <3>4. s[p + d] = b
      BY <3>1, <3>2
    <3>5. PICK q \in Nat, k \in Nat \ {0} : q = p + d /\ k = i + d
      BY <2>2
    <3>6. q \in k .. Len(s) /\ s[q] = b /\ \A j \in k .. q - 1 : s[j] # b
      BY <3>2, <3>3, <3>4, <3>5
    <3>7. Position(s, b, k) = q
      BY <3>6, PositionIs
    <3> QED BY <2>1, <2>4, <3>5, <3>7
  <2> QED BY <2>3, <2>4
<1>6. ASSUME NEW b \in {SP, SL, NL}
      PROVE  /\ Position(s, b, 1) = Moved(Position(w, b, 1))
             /\ Position(w, b, 1) \in Nat
             /\ Position(w, b, 1) # 0 =>
                  /\ g < Position(w, b, 1) /\ Position(w, b, 1) <= n
                  /\ w[Position(w, b, 1)] = b
  <2>1. PICK p \in Nat : p = Position(w, b, 1)
    BY PositionFirst
  <2>2. PICK one \in Nat \ {0} : one = 1
    OBVIOUS
  <2>3. CASE p = 0
    <3>1. \A j \in 1 .. n : w[j] # b
      BY <2>1, <2>2, <2>3, PositionFirst
    <3>2. ASSUME NEW j \in 1 .. n + d PROVE s[j] # b
      <4>1. CASE j \in 1 .. g + d
        BY <1>2, <4>1
      <4>2. CASE j \in g + d + 1 .. n + d
        <5>1. j - d \in 1 .. n
          BY <1>4, <4>2
        <5> QED BY <1>4, <3>1, <4>2, <5>1
      <4> QED BY <4>1, <4>2
    <3>3. Position(s, b, one) = 0
      BY <2>2, <3>2, PositionIs
    <3> QED BY <2>1, <2>2, <2>3, <3>3
  <2>4. CASE p # 0
    <3>1. p \in 1 .. n /\ w[p] = b /\ \A j \in 1 .. p - 1 : w[j] # b
      BY <2>1, <2>2, <2>4, PositionFirst
    <3>2. g < p
      BY <1>3, <3>1
    <3>3. ASSUME NEW j \in 1 .. p + d - 1 PROVE s[j] # b
      <4>1. CASE j \in 1 .. g + d
        BY <1>2, <4>1
      <4>2. CASE j \in g + d + 1 .. n + d
        <5>1. j - d \in 1 .. p - 1
          BY <3>1, <4>2
        <5> QED BY <1>4, <3>1, <4>2, <5>1
      <4> QED BY <3>1, <4>1, <4>2
    <3>4. s[p + d] = b
      BY <3>1, <3>2
    <3>5. PICK q \in Nat : q = p + d
      OBVIOUS
    <3>6. q \in one .. Len(s) /\ s[q] = b /\ \A j \in one .. q - 1 : s[j] # b
      BY <2>2, <3>1, <3>3, <3>4, <3>5
    <3>7. Position(s, b, one) = q
      BY <3>6, PositionIs
    <3> QED BY <2>1, <2>2, <2>4, <3>1, <3>2, <3>5, <3>7
  <2> QED BY <2>3, <2>4
<1> DEFINE p1 == Position(w, SP, 1)
           p2 == IF p1 = 0 THEN 0 ELSE Position(w, SP, p1 + 1)
           e == Position(w, NL, 1)
           line == SubSeq(w, 1, e)
           lineS == SubSeq(s, 1, e + d)
<1>7. /\ p1 \in Nat /\ Position(s, SP, 1) = Moved(p1)
      /\ p1 # 0 => g < p1 /\ p1 <= n
  BY <1>6
<1>8. /\ p2 \in Nat
      /\ p1 # 0 => Position(s, SP, p1 + d + 1) = Moved(p2)
      /\ p2 # 0 => p1 # 0 /\ p1 < p2 /\ p2 <= n
  <2>1. CASE p1 = 0
    BY <2>1
  <2>2. CASE p1 # 0
    <3>1. PICK i \in Nat \ {0} : i = p1 + 1 /\ g < i /\ i + d = p1 + d + 1 /\ p1 < i
      <4>1. p1 + 1 \in Nat \ {0} /\ g < p1 + 1 /\ p1 + 1 + d = p1 + d + 1 /\ p1 < p1 + 1
        BY <1>7, <2>2
      <4> QED BY <4>1
    <3>2. Position(s, SP, i + d) = Moved(Position(w, SP, i))
      <4>1. SP \in {SP, SL, NL} /\ i \in Nat
        OBVIOUS
      <4> QED BY <1>5, <3>1, <4>1
    <3>3. /\ Position(w, SP, i) \in Nat
          /\ Position(w, SP, i) # 0 => Position(w, SP, i) \in i .. n
      BY PositionFirst
    <3>4. p2 = Position(w, SP, i)
      BY <2>2, <3>1
    <3> HIDE DEF p1, p2
    <3> QED BY <1>7, <2>2, <3>1, <3>2, <3>3, <3>4
  <2> QED BY <2>1, <2>2
<1>9. /\ e \in Nat /\ Position(s, NL, 1) = Moved(e)
      /\ e # 0 => g < e /\ e <= n
  BY <1>6
<1>10. SlugOf(s).ok <=> SlugOf(w).ok
  <2>1. SlugOf(w).ok <=> p2 # 0
    BY DEF SlugOf
  <2>2. SlugOf(s).ok <=> ~(p1 = 0) /\ Moved(p2) # 0
    <3>1. CASE p1 = 0
      BY <1>7, <3>1 DEF SlugOf
    <3>2. CASE p1 # 0
      <4>1. Position(s, SP, 1) = p1 + d /\ p1 + d # 0
        BY <1>7, <3>2
      <4>2. Position(s, SP, p1 + d + 1) = Moved(p2)
        BY <1>8, <3>2
      <4> HIDE DEF p1, p2, Moved
      <4> QED BY <3>2, <4>1, <4>2 DEF SlugOf
    <3> QED BY <3>1, <3>2
  <2> HIDE DEF p1
  <2> QED BY <1>8, <2>1, <2>2
<1>11. ASSUME SlugOf(w).ok
       PROVE  /\ SlugOf(w).i1 \in Nat \ {0} /\ SlugOf(w).i2 \in Nat
              /\ g < SlugOf(w).i1 /\ SlugOf(w).i1 <= SlugOf(w).i2 /\ SlugOf(w).i2 <= n
              /\ SlugOf(s).i1 = SlugOf(w).i1 + d /\ SlugOf(s).i2 = SlugOf(w).i2 + d
  <2>1. p2 # 0 /\ p1 # 0
    BY <1>8, <1>11 DEF SlugOf
  <2>2. /\ Position(s, SP, 1) = p1 + d /\ p1 + d # 0
        /\ Position(s, SP, p1 + d + 1) = p2 + d /\ p2 + d # 0
        /\ g < p1 /\ p1 < p2 /\ p2 <= n
    BY <1>7, <1>8, <2>1
  <2> DEFINE i1 == IF w[p1 + 1] = SL THEN p1 + 2 ELSE p1 + 1
             sl == Position(w, SL, i1)
             i2 == IF sl \in 1 .. p2 THEN sl ELSE p2
             k1 == IF s[p1 + d + 1] = SL THEN p1 + d + 2 ELSE p1 + d + 1
             tl == Position(s, SL, k1)
             k2 == IF tl \in 1 .. p2 + d THEN tl ELSE p2 + d
  <2>3. SlugOf(w).i1 = i1 /\ SlugOf(w).i2 = i2
    BY <2>1 DEF SlugOf
  <2>4. SlugOf(s).i1 = k1 /\ SlugOf(s).i2 = k2
    <3> HIDE DEF p1, p2
    <3> QED BY <2>2 DEF SlugOf
  <2>5. p1 \in Nat /\ p2 \in Nat /\ w[p2] = SP
    <3>1. PICK k \in Nat \ {0} : k = p1 + 1
      BY <1>7
    <3>2. Position(w, SP, k) # 0 => w[Position(w, SP, k)] = SP
      BY PositionFirst
    <3>3. p2 = Position(w, SP, k)
      BY <2>1, <3>1
    <3> QED BY <1>7, <1>8, <2>1, <3>2, <3>3
  <2> HIDE DEF p1, p2
  <2>6. s[p1 + d + 1] = w[p1 + 1]
    <3>1. PICK i \in g + 1 .. n : i = p1 + 1 /\ i + d = p1 + d + 1
      <4>1. p1 + 1 \in g + 1 .. n /\ p1 + 1 + d = p1 + d + 1
        BY <2>2, <2>5
      <4> QED BY <4>1
    <3>2. s[i + d] = w[i]
      OBVIOUS
    <3> QED BY <3>1, <3>2
  <2>7. /\ i1 \in Nat \ {0} /\ g < i1 /\ i1 <= p2 /\ k1 = i1 + d
    <3>1. w[p1 + 1] = SL => p1 + 1 # p2
      BY <2>5, BytesDiffer
    <3> QED BY <2>2, <2>5, <2>6, <3>1
  <2> HIDE DEF i1, k1
  <2>8. tl = Moved(sl) /\ sl \in Nat /\ (sl # 0 => i1 <= sl)
    <3>1. SL \in {SP, SL, NL} /\ i1 \in Nat
      BY <2>7
    <3>2. Position(s, SL, i1 + d) = Moved(Position(w, SL, i1))
      BY <1>5, <2>7, <3>1
    <3>3. /\ Position(w, SL, i1) \in Nat
          /\ Position(w, SL, i1) # 0 => Position(w, SL, i1) \in i1 .. Len(w)
      BY <2>7, PositionFirst
    <3> QED BY <2>7, <3>2, <3>3
  <2> HIDE DEF sl, tl
  <2>9. i2 \in Nat /\ i1 <= i2 /\ i2 <= n /\ k2 = i2 + d
    BY <2>2, <2>5, <2>7, <2>8
  <2> QED BY <2>3, <2>4, <2>7, <2>9
<1>12. ASSUME e # 0
       PROVE  NotUtf8(lineS) <=> NotUtf8(line)
  <2>1. e \in Nat /\ g < e /\ e <= n /\ e + d \in Nat
    BY <1>9, <1>12
  <2>2. DOMAIN line = 1 .. e /\ \A i \in 1 .. e : line[i] = w[i]
    <3> HIDE DEF e
    <3>1. 1 \in Nat \ {0} /\ 1 <= e + 1
      BY <2>1
    <3>2. /\ DOMAIN line = 1 .. e + 1 - 1
          /\ \A i \in 1 .. e + 1 - 1 : line[i] = w[1 + i - 1]
      BY <2>1, <3>1, CutOf
    <3> QED BY <2>1, <3>2
  <2>3. DOMAIN lineS = 1 .. e + d /\ \A i \in 1 .. e + d : lineS[i] = s[i]
    <3>1. PICK x \in Nat : x = e + d /\ 1 <= x + 1 /\ x <= Len(s) /\ x + 1 - 1 = x
      BY <2>1
    <3>2. 1 \in Nat \ {0}
      OBVIOUS
    <3>3. /\ DOMAIN SubSeq(s, 1, x) = 1 .. x + 1 - 1
          /\ \A i \in 1 .. x + 1 - 1 : SubSeq(s, 1, x)[i] = s[1 + i - 1]
      BY <3>1, <3>2, CutOf
    <3> QED BY <3>1, <3>3
  <2> HIDE DEF e, line, lineS
  <2>4. ASSUME NotUtf8(line) PROVE NotUtf8(lineS)
    <3>1. PICK i \in 1 .. e : w[i] \in {BAD, FF, FE}
      BY <2>2, <2>4 DEF NotUtf8
    <3>2. g < i
      BY <1>3, <2>1, <3>1
    <3>3. s[i + d] = w[i] /\ i + d \in 1 .. e + d
      BY <2>1, <3>2
    <3> QED BY <2>3, <3>1, <3>3 DEF NotUtf8
  <2>5. ASSUME NotUtf8(lineS) PROVE NotUtf8(line)
    <3>1. PICK j \in 1 .. e + d : s[j] \in {BAD, FF, FE}
      BY <2>3, <2>5 DEF NotUtf8
    <3>2. ~(j \in 1 .. g + d)
      BY <1>2, <3>1
    <3>3. j \in g + d + 1 .. n + d
      BY <2>1, <3>2
    <3>4. j - d \in 1 .. e
      BY <2>1, <3>3
    <3>5. s[j] = w[j - d]
      BY <1>4, <3>3
    <3> QED BY <2>2, <3>1, <3>4, <3>5 DEF NotUtf8
  <2> QED BY <2>4, <2>5
<1>13. CASE ~SlugOf(w).ok \/ e = 0 \/ NotUtf8(line)
  <2>1. ~SlugOf(s).ok \/ Position(s, NL, 1) = 0 \/ NotUtf8(SubSeq(s, 1, Position(s, NL, 1)))
    BY <1>9, <1>10, <1>12, <1>13
  <2>2. RemoveSiteName(s) = BadRequest
    BY <2>1 DEF RemoveSiteName
  <2>3. RemoveSiteName(w) = BadRequest
    BY <1>13 DEF RemoveSiteName
  <2> QED BY <2>2, <2>3 DEF BadRequest
<1>14. CASE SlugOf(w).ok /\ e # 0 /\ ~NotUtf8(line)
  <2>1. PICK i1 \in Nat \ {0}, i2 \in Nat :
          /\ SlugOf(w).i1 = i1 /\ SlugOf(w).i2 = i2 /\ g < i1 /\ i1 <= i2 /\ i2 <= n
          /\ SlugOf(s).i1 = i1 + d /\ SlugOf(s).i2 = i2 + d
    BY <1>11, <1>14
  <2>2. s[i2 + d] = w[i2]
    <3>1. i2 \in g + 1 .. n
      BY <2>1
    <3> QED BY <3>1
  <2>3. Position(s, NL, 1) = e + d /\ e \in Nat /\ ~NotUtf8(SubSeq(s, 1, e + d)) /\ SlugOf(s).ok
        /\ e + d # 0
    BY <1>9, <1>10, <1>12, <1>14
  <2> DEFINE cut == IF w[i2] = SL THEN i2 ELSE i2 - 1
             cutS == IF s[i2 + d] = SL THEN i2 + d ELSE i2 + d - 1
  <2>4. cutS = cut + d
    BY <2>2
  <2>5. cutS > e + d <=> cut > e
    <3>1. cut \in Nat
      BY <2>1
    <3> HIDE DEF cut, cutS
    <3> QED BY <2>3, <2>4, <3>1
  <2>6. CASE cut > e
    <3>1. RemoveSiteName(w) = Panic
      BY <1>14, <2>1, <2>6 DEF RemoveSiteName
    <3>2. RemoveSiteName(s) = Panic
      <4> HIDE DEF e
      <4> QED BY <2>1, <2>3, <2>5, <2>6 DEF RemoveSiteName
    <3> QED BY <3>1, <3>2 DEF Panic
  <2>7. CASE ~(cut > e)
    <3>1. RemoveSiteName(w).kind = "ok" /\ RemoveSiteName(w).name = SubSeq(w, i1, i2 - 1)
      BY <1>14, <2>1, <2>7 DEF RemoveSiteName
    <3>2. RemoveSiteName(s).kind = "ok"
          /\ RemoveSiteName(s).name = SubSeq(s, i1 + d, i2 + d - 1)
      <4> HIDE DEF e
      <4> QED BY <2>1, <2>3, <2>5, <2>7 DEF RemoveSiteName
    <3>3. SubSeq(s, i1 + d, i2 + d - 1) = SubSeq(w, i1, i2 - 1)
      <4>1. PICK j2 \in Nat, k1 \in Nat \ {0}, k2 \in Nat :
              j2 = i2 - 1 /\ k1 = i1 + d /\ k2 = i2 + d - 1
        <5>1. i2 - 1 \in Nat /\ i1 + d \in Nat \ {0} /\ i2 + d - 1 \in Nat
          BY <2>1
        <5> QED BY <5>1
      <4>2. /\ i1 <= j2 + 1 /\ j2 <= Len(w) /\ k1 <= k2 + 1 /\ k2 <= Len(s)
            /\ k2 + 1 - k1 = j2 + 1 - i1 /\ j2 + 1 - i1 \in Nat
            /\ \A i \in 1 .. j2 + 1 - i1 : i1 + i - 1 \in g + 1 .. n
                                         /\ i1 + i - 1 + d = k1 + i - 1
        BY <2>1, <4>1
      <4>3. /\ SubSeq(w, i1, j2) \in Bytes /\ Len(SubSeq(w, i1, j2)) = j2 + 1 - i1
            /\ \A i \in 1 .. j2 + 1 - i1 : SubSeq(w, i1, j2)[i] = w[i1 + i - 1]
        BY <4>2, CutOf
      <4>4. /\ SubSeq(s, k1, k2) \in Bytes /\ Len(SubSeq(s, k1, k2)) = k2 + 1 - k1
            /\ \A i \in 1 .. k2 + 1 - k1 : SubSeq(s, k1, k2)[i] = s[k1 + i - 1]
        BY <4>2, CutOf
      <4>5. ASSUME NEW i \in 1 .. j2 + 1 - i1
            PROVE  SubSeq(s, k1, k2)[i] = SubSeq(w, i1, j2)[i]
        <5>1. PICK j \in g + 1 .. n : j = i1 + i - 1 /\ j + d = k1 + i - 1
          BY <4>2
        <5>2. s[j + d] = w[j]
          OBVIOUS
        <5> QED BY <4>2, <4>3, <4>4, <5>1, <5>2
      <4>6. SubSeq(s, k1, k2) = SubSeq(w, i1, j2)
        <5>1. PICK m \in Nat : m = j2 + 1 - i1 /\ m = k2 + 1 - k1
          BY <4>2
        <5>2. PICK x \in Bytes, y \in Bytes : x = SubSeq(s, k1, k2) /\ y = SubSeq(w, i1, j2)
          BY <4>3, <4>4
        <5>3. Len(x) = m /\ Len(y) = m /\ \A i \in 1 .. m : x[i] = y[i]
          BY <4>3, <4>4, <4>5, <5>1, <5>2
        <5>4. x = y
          BY <5>3, SameBytes
        <5> QED BY <5>2, <5>4
      <4> QED BY <4>1, <4>6
    <3> QED BY <3>1, <3>2, <3>3
  <2> QED BY <2>6, <2>7
<1> QED BY <1>13, <1>14

\* How many bytes the very first read returns makes no difference to the site
\* a request goes to, provided that the method has three letters or more:
\* what handle looks at is four bytes, the last of them the one behind them.
THEOREM SiteOfShortRead ==
  ASSUME HeaderLen <= 4
  PROVE  Spec => []SiteSurvivesShortRead
<1>1. IInv => SiteSurvivesShortRead
  <2> SUFFICES ASSUME IInv, Parsed, Len(Taken) >= 3, \A i \in 1 .. 3 : sent[i] = "x"
               PROVE  /\ RemoveSiteName(buf).kind = RemoveSiteName(Taken).kind
                      /\ RemoveSiteName(buf).kind = "ok" =>
                           RemoveSiteName(buf).name = RemoveSiteName(Taken).name
    BY DEF SiteSurvivesShortRead
  <2>1. /\ buf \in Bytes /\ sent \in Bytes /\ Len(buf) \in Nat /\ Len(sent) \in Nat
        /\ HeaderLen \in Nat /\ got \in Nat /\ got <= HeaderLen /\ HeaderLen <= Len(buf)
        /\ Len(buf) - HeaderLen + got <= Len(sent)
        /\ \A i \in 1 .. HeaderLen : buf[i] = IF i <= got THEN sent[i] ELSE NUL
        /\ \A i \in HeaderLen + 1 .. Len(buf) : buf[i] = sent[i - HeaderLen + got]
    BY RequestAssumption, LenProperties DEF IInv, TypeOK, Filled, Parsed, Bytes
  <2>2. PICK n \in Nat, d \in Nat :
          /\ n = Len(buf) - HeaderLen + got /\ d = HeaderLen - got /\ n <= Len(sent)
          /\ got + d = HeaderLen /\ n + d = Len(buf) /\ got <= n
    <3>1. /\ Len(buf) - HeaderLen + got \in Nat /\ HeaderLen - got \in Nat
          /\ got + (HeaderLen - got) = HeaderLen /\ got <= Len(buf) - HeaderLen + got
          /\ (Len(buf) - HeaderLen + got) + (HeaderLen - got) = Len(buf)
      BY <2>1
    <3> QED BY <2>1, <3>1
  <2>3. PICK w \in Bytes : w = Taken /\ Len(w) = n /\ \A i \in 1 .. n : w[i] = sent[i]
    <3>1. 1 \in Nat \ {0} /\ 1 <= n + 1 /\ n + 1 - 1 = n
      BY <2>2
    <3>2. /\ SubSeq(sent, 1, n) \in Bytes /\ Len(SubSeq(sent, 1, n)) = n + 1 - 1
          /\ \A i \in 1 .. n + 1 - 1 : SubSeq(sent, 1, n)[i] = sent[1 + i - 1]
      BY <2>1, <2>2, <3>1, CutOf
    <3>3. Taken = SubSeq(sent, 1, n)
      BY <2>2 DEF Taken
    <3>4. \A i \in 1 .. n : 1 + i - 1 = i
      OBVIOUS
    <3> QED BY <3>1, <3>2, <3>3, <3>4
  <2>4. ASSUME NEW i \in got + 1 .. n PROVE buf[i + d] = w[i]
    <3>1. PICK j \in HeaderLen + 1 .. Len(buf) : j = i + d /\ j - HeaderLen + got = i
      <4>1. PICK h \in Nat, b \in Nat, g \in Nat :
              /\ h = HeaderLen /\ b = Len(buf) /\ g = got /\ g + d = h /\ n + d = b
              /\ i \in g + 1 .. n
        <5>1. HeaderLen \in Nat /\ Len(buf) \in Nat /\ got \in Nat
          BY <2>1
        <5> QED BY <2>2, <2>4, <5>1
      <4>2. i + d \in h + 1 .. b /\ i + d - h + g = i
        BY <4>1
      <4> QED BY <4>1, <4>2
    <3>2. buf[j] = sent[i] /\ i \in 1 .. n
      BY <2>1, <3>1
    <3> QED BY <2>3, <3>1, <3>2
  <2>5. ASSUME NEW i \in 1 .. got PROVE buf[i] = w[i] /\ i \in 1 .. n
    <3>1. i \in 1 .. HeaderLen /\ i <= got /\ i \in 1 .. n
      BY <2>1, <2>2
    <3> QED BY <2>1, <2>3, <3>1
  <2>6. CASE d = 0
    <3>1. ASSUME NEW i \in 1 .. n PROVE buf[i] = w[i]
      <4>1. CASE i \in 1 .. got
        BY <2>5, <4>1
      <4>2. CASE i \in got + 1 .. n
        <5>1. i + d = i
          BY <2>6
        <5> QED BY <2>4, <4>2, <5>1
      <4> QED BY <2>1, <4>1, <4>2
    <3>2. Len(buf) = n
      BY <2>2, <2>6
    <3>3. buf = w
      BY <2>1, <2>3, <3>1, <3>2, SameBytes
    <3> QED BY <2>3, <3>3
  <2>7. CASE d # 0
    <3>1. got <= 3 /\ 3 <= n
      BY <2>1, <2>2, <2>3, <2>7
    <3>2. ASSUME NEW i \in 1 .. got PROVE buf[i] = w[i] /\ w[i] = "x"
      <4>1. i \in 1 .. 3 /\ i \in 1 .. n
        BY <2>1, <2>2, <3>1
      <4> QED BY <2>3, <2>5, <4>1
    <3>3. ASSUME NEW i \in got + 1 .. got + d PROVE buf[i] = NUL
      <4>1. i \in 1 .. HeaderLen /\ ~(i <= got)
        BY <2>1, <2>2
      <4> QED BY <2>1, <4>1
    <3>4. /\ RemoveSiteName(buf).kind = RemoveSiteName(w).kind
          /\ RemoveSiteName(buf).kind = "ok" =>
               RemoveSiteName(buf).name = RemoveSiteName(w).name
      <4>1. PICK g \in Nat, s \in Bytes : g = got /\ s = buf
        BY <2>1
      <4>2. /\ Len(w) = n /\ Len(s) = n + d /\ g <= n
            /\ \A i \in 1 .. g : s[i] = w[i] /\ w[i] = "x"
            /\ \A i \in g + 1 .. g + d : s[i] = NUL
            /\ \A i \in g + 1 .. n : s[i + d] = w[i]
        BY <2>2, <2>3, <2>4, <3>2, <3>3, <4>1
      <4>3. /\ RemoveSiteName(s).kind = RemoveSiteName(w).kind
            /\ RemoveSiteName(s).kind = "ok" => RemoveSiteName(s).name = RemoveSiteName(w).name
        BY <4>2, SiteThroughZeros
      <4> QED BY <4>1, <4>3
    <3> QED BY <2>3, <3>4
  <2> QED BY <2>6, <2>7
<1> QED BY <1>1, InitIInv, NextIInv, PTL DEF Spec

-----------------------------------------------------------------------------
(***************************************************************************)
(* What the server is sent.                                                *)
(***************************************************************************)

\* Where a line starts, and its bytes.
LEMMA LineIs ==
  ASSUME NEW s \in Bytes, NEW e \in LineEnds(s)
  PROVE  /\ e \in 1 .. Len(s) /\ Start(s, e) \in Nat /\ Start(s, e) < e /\ s[e] = NL
         /\ Start(s, e) = 0 \/ Start(s, e) \in LineEnds(s)
         /\ \A i \in LineEnds(s) : i < e => i <= Start(s, e)
         /\ Line(s, e) \in Bytes /\ Len(Line(s, e)) = e - Start(s, e)
         /\ \A i \in 1 .. e - Start(s, e) : Line(s, e)[i] = s[Start(s, e) + i]
<1>1. e \in 1 .. Len(s) /\ Len(s) \in Nat /\ s[e] = NL /\ LineEnds(s) \in SUBSET (1 .. Len(s))
  BY LenProperties DEF LineEnds, Bytes
<1> DEFINE B == {0} \cup {i \in LineEnds(s) : i < e}
           p == Start(s, e)
<1>2. B \in SUBSET (0 .. e) /\ B # {} /\ e \in Nat
  BY <1>1
<1>3. p \in B /\ \A i \in B : i <= p
  <2>1. Max(B) \in B /\ \A i \in B : i <= Max(B)
    <3> HIDE DEF B
    <3> QED BY <1>2, MaxOf
  <2> QED BY <2>1 DEF Start
<1>4. /\ p \in Nat /\ p < e /\ (p = 0 \/ p \in LineEnds(s))
      /\ \A i \in LineEnds(s) : i < e => i <= p
  BY <1>1, <1>3
<1>5. PICK k \in Nat \ {0} : k = p + 1 /\ k <= e + 1 /\ e + 1 - k = e - p
                             /\ \A i \in 1 .. e - p : k + i - 1 = p + i
  <2>1. /\ p + 1 \in Nat \ {0} /\ p + 1 <= e + 1 /\ e + 1 - (p + 1) = e - p
        /\ \A i \in 1 .. e - p : p + 1 + i - 1 = p + i
    BY <1>2, <1>4
  <2> QED BY <2>1
<1>6. /\ SubSeq(s, k, e) \in Bytes /\ Len(SubSeq(s, k, e)) = e + 1 - k
      /\ \A i \in 1 .. e + 1 - k : SubSeq(s, k, e)[i] = s[k + i - 1]
  BY <1>1, <1>2, <1>5, CutOf
<1>7. Line(s, e) = SubSeq(s, k, e)
  BY <1>5 DEF Line
<1> HIDE DEF p
<1>8. /\ Line(s, e) \in Bytes /\ Len(Line(s, e)) = e - p
      /\ \A i \in 1 .. e - p : Line(s, e)[i] = s[p + i]
  BY <1>5, <1>6, <1>7
<1> QED BY <1>1, <1>4, <1>8 DEF p

\* Where the slug is in any request that has one: behind the first blank and
\* not behind the second.
LEMMA SlugRange ==
  ASSUME NEW s \in Bytes, SlugOf(s).ok
  PROVE  \E a \in Nat \ {0}, b \in Nat :
           /\ a < b /\ b <= Len(s) /\ s[a] = SP
           /\ SlugOf(s).i1 \in Nat /\ SlugOf(s).i2 \in Nat
           /\ a < SlugOf(s).i1 /\ SlugOf(s).i1 <= SlugOf(s).i2 /\ SlugOf(s).i2 <= b
<1> DEFINE a == Position(s, SP, 1)
           b == IF a = 0 THEN 0 ELSE Position(s, SP, a + 1)
           i1 == IF s[a + 1] = SL THEN a + 2 ELSE a + 1
           sl == Position(s, SL, i1)
           i2 == IF sl \in 1 .. b THEN sl ELSE b
<1>1. b # 0 /\ a # 0
  BY DEF SlugOf
<1>2. SlugOf(s).i1 = i1 /\ SlugOf(s).i2 = i2
  BY <1>1 DEF SlugOf
<1>3. a \in Nat /\ s[a] = SP /\ Len(s) \in Nat
  BY <1>1, PositionFirst, LenProperties DEF Bytes
<1>4. b \in Nat /\ a < b /\ b <= Len(s) /\ s[b] = SP
  <2>1. PICK k \in Nat \ {0} : k = a + 1
    BY <1>3
  <2>2. b = Position(s, SP, k)
    BY <1>1, <2>1
  <2> HIDE DEF a, b
  <2>3. b \in k .. Len(s) /\ s[b] = SP
    BY <1>1, <2>2, PositionFirst
  <2> QED BY <1>3, <2>1, <2>3
<1> HIDE DEF a, b
<1>5. i1 \in Nat \ {0} /\ a < i1 /\ i1 <= b
  <2>1. s[a + 1] = SL => a + 1 # b
    BY <1>4, BytesDiffer
  <2> QED BY <1>3, <1>4, <2>1
<1> HIDE DEF i1
<1>6. sl \in Nat /\ (sl # 0 => i1 <= sl)
  <2>1. Position(s, SL, i1) # 0 => Position(s, SL, i1) \in i1 .. Len(s)
    BY <1>5, PositionFirst
  <2>2. Position(s, SL, i1) \in Nat
    BY <1>5, PositionFirst
  <2> QED BY <1>5, <2>1, <2>2
<1> HIDE DEF sl
<1>7. i2 \in Nat /\ i1 <= i2 /\ i2 <= b
  BY <1>4, <1>5, <1>6
<1> QED BY <1>1, <1>2, <1>3, <1>4, <1>5, <1>7

\* When remove_site_name succeeds there is a first line, it has a blank, and
\* what it is made into is bytes again.
LEMMA FirstLine ==
  ASSUME NEW s \in Bytes, RemoveSiteName(s).kind = "ok"
  PROVE  /\ Position(s, NL, 1) \in 1 .. Len(s) /\ s[Position(s, NL, 1)] = NL
         /\ \A j \in 1 .. Position(s, NL, 1) - 1 : s[j] # NL
         /\ \E j \in 1 .. Position(s, NL, 1) : s[j] = SP
         /\ RemoveSiteName(s).line \in Bytes
<1> DEFINE e == Position(s, NL, 1)
           line == SubSeq(s, 1, e)
           i1 == SlugOf(s).i1
           i2 == SlugOf(s).i2
           cut == IF s[i2] = SL THEN i2 ELSE i2 - 1
<1>1. SlugOf(s).ok /\ e # 0 /\ ~NotUtf8(line)
  <2>1. BadRequest.kind # "ok"
    BY DEF BadRequest
  <2> QED BY <2>1 DEF RemoveSiteName
<1>2. ~(cut > e)
  <2>1. Panic.kind # "ok"
    BY DEF Panic
  <2> QED BY <1>1, <2>1 DEF RemoveSiteName
<1>3. RemoveSiteName(s).line = SubSeq(line, 1, i1 - 1) \o SubSeq(line, cut + 1, e)
  BY <1>1, <1>2 DEF RemoveSiteName
<1>4. e \in 1 .. Len(s) /\ s[e] = NL /\ (\A j \in 1 .. e - 1 : s[j] # NL) /\ Len(s) \in Nat
  BY <1>1, PositionFirst, LenProperties DEF Bytes
<1>5. PICK a \in Nat \ {0}, b \in Nat :
        /\ a < b /\ b <= Len(s) /\ s[a] = SP
        /\ i1 \in Nat /\ i2 \in Nat /\ a < i1 /\ i1 <= i2 /\ i2 <= b
  BY <1>1, SlugRange
<1>6. line \in Bytes /\ Len(line) = e
  <2> HIDE DEF e
  <2>1. 1 \in Nat \ {0} /\ 1 <= e + 1 /\ e \in Nat /\ e <= Len(s) /\ e + 1 - 1 = e
    BY <1>4
  <2> QED BY <2>1, CutOf
<1> HIDE DEF e, line, i1, i2
<1>7. cut \in Nat /\ i1 <= cut + 1
  BY <1>5
<1> HIDE DEF cut
<1>8. PICK j1 \in Nat, k \in Nat \ {0} :
        /\ j1 = i1 - 1 /\ k = cut + 1 /\ j1 <= e /\ k <= e + 1 /\ e \in Nat /\ 1 <= j1 + 1
        /\ a <= e
  <2>1. /\ i1 - 1 \in Nat /\ cut + 1 \in Nat \ {0} /\ i1 - 1 <= e /\ cut + 1 <= e + 1
        /\ e \in Nat /\ 1 <= i1 - 1 + 1 /\ a <= e
    BY <1>2, <1>4, <1>5, <1>7
  <2> QED BY <2>1
<1>9. SubSeq(line, 1, j1) \in Bytes
  <2>1. 1 \in Nat \ {0} /\ j1 <= Len(line)
    BY <1>6, <1>8
  <2> QED BY <1>6, <1>8, <2>1, CutOf
<1>10. SubSeq(line, k, e) \in Bytes
  <2>1. e <= Len(line)
    BY <1>6, <1>8
  <2> QED BY <1>6, <1>8, <2>1, CutOf
<1>11. RemoveSiteName(s).line \in Bytes
  BY <1>3, <1>8, <1>9, <1>10, JoinOf
<1>12. \E j \in 1 .. e : s[j] = SP
  BY <1>5, <1>8
<1> QED BY <1>4, <1>11, <1>12 DEF e

\* The end of the headers and nothing more.
Blank == <<CR, NL, CR, NL>>

\* When a request ends there.
LEMMA EndsBlank ==
  ASSUME NEW s \in Bytes, NEW n \in Nat, Len(s) = n
  PROVE  IsSuffix(Blank, s) <=>
           4 <= n /\ s[n - 3] = CR /\ s[n - 2] = NL /\ s[n - 1] = CR /\ s[n] = NL
<1> DEFINE Q == Reverse(Blank)
           R == Reverse(s)
<1>1. /\ Blank \in Bytes /\ Len(Blank) = 4
      /\ Blank[1] = CR /\ Blank[2] = NL /\ Blank[3] = CR /\ Blank[4] = NL
  <2>1. CR \in AllBytes /\ NL \in AllBytes
    BY BytesDiffer
  <2> QED BY <2>1 DEF Blank, Bytes
<1>2. Q \in Bytes /\ Len(Q) = 4 /\ Q[1] = NL /\ Q[2] = CR /\ Q[3] = NL /\ Q[4] = CR
  <2>1. Q = [i \in 1 .. 4 |-> Blank[(4 - i) + 1]]
    BY <1>1 DEF Reverse
  <2>2. \A i \in 1 .. 4 : (4 - i) + 1 \in 1 .. 4
    OBVIOUS
  <2>3. \A i \in 1 .. 4 : Blank[i] \in AllBytes
    BY <1>1, ElementOfSeq DEF Bytes
  <2>4. Q \in [1 .. 4 -> AllBytes]
    BY <2>1, <2>2, <2>3
  <2> QED BY <1>1, <2>1, <2>4 DEF Bytes
<1>3. R \in Bytes /\ Len(R) = n /\ \A i \in 1 .. n : R[i] = s[(n - i) + 1]
  <2>1. R = [i \in 1 .. n |-> s[(n - i) + 1]]
    BY DEF Reverse
  <2>2. \A i \in 1 .. n : (n - i) + 1 \in 1 .. n
    OBVIOUS
  <2>3. \A i \in 1 .. n : s[i] \in AllBytes
    BY ElementOfSeq DEF Bytes
  <2>4. R \in [1 .. n -> AllBytes]
    BY <2>1, <2>2, <2>3
  <2> QED BY <2>1, <2>4 DEF Bytes
<1>4. IsSuffix(Blank, s) <=> 4 <= n /\ SubSeq(Q, 1, 4) = SubSeq(R, 1, 4)
  <2>1. IsSuffix(Blank, s) <=> IsPrefix(Q, R)
    BY DEF IsSuffix
  <2> HIDE DEF Q, R
  <2> QED BY <1>2, <1>3, <2>1 DEF IsPrefix
<1> HIDE DEF Q, R
<1>5. ASSUME 4 <= n
      PROVE  SubSeq(Q, 1, 4) = SubSeq(R, 1, 4) <=> \A i \in 1 .. 4 : Q[i] = R[i]
  <2>1. PICK m \in Nat : m = 4 /\ m <= n /\ 1 <= m + 1 /\ m + 1 - 1 = m
                         /\ \A i \in 1 .. m : 1 + i - 1 = i
    <3>1. 4 \in Nat /\ 1 <= 4 + 1 /\ 4 + 1 - 1 = 4 /\ \A i \in 1 .. 4 : 1 + i - 1 = i
      OBVIOUS
    <3> QED BY <1>5, <3>1
  <2>2. PICK one \in Nat \ {0} : one = 1
    OBVIOUS
  <2>3. /\ SubSeq(Q, 1, m) \in Bytes /\ Len(SubSeq(Q, 1, m)) = m
        /\ \A i \in 1 .. m : SubSeq(Q, 1, m)[i] = Q[i]
    <3>1. /\ SubSeq(Q, one, m) \in Bytes /\ Len(SubSeq(Q, one, m)) = m + 1 - one
          /\ \A i \in 1 .. m + 1 - one : SubSeq(Q, one, m)[i] = Q[one + i - 1]
      <4>1. m <= Len(Q) /\ one <= m + 1
        BY <1>2, <2>1, <2>2
      <4> QED BY <1>2, <4>1, CutOf
    <3> QED BY <2>1, <2>2, <3>1
  <2>4. /\ SubSeq(R, 1, m) \in Bytes /\ Len(SubSeq(R, 1, m)) = m
        /\ \A i \in 1 .. m : SubSeq(R, 1, m)[i] = R[i]
    <3>1. /\ SubSeq(R, one, m) \in Bytes /\ Len(SubSeq(R, one, m)) = m + 1 - one
          /\ \A i \in 1 .. m + 1 - one : SubSeq(R, one, m)[i] = R[one + i - 1]
      BY <1>3, <2>1, <2>2, CutOf
    <3> QED BY <2>1, <2>2, <3>1
  <2>5. SubSeq(Q, 1, m) = SubSeq(R, 1, m) <=> \A i \in 1 .. m : Q[i] = R[i]
    <3>1. PICK x \in Bytes, y \in Bytes : x = SubSeq(Q, 1, m) /\ y = SubSeq(R, 1, m)
      BY <2>3, <2>4
    <3>2. (\A i \in 1 .. m : x[i] = y[i]) => x = y
      BY <2>3, <2>4, <3>1, SameBytes
    <3> QED BY <2>3, <2>4, <3>1, <3>2
  <2> QED BY <2>1, <2>5
<1>6. ASSUME 4 <= n
      PROVE  (\A i \in 1 .. 4 : Q[i] = R[i]) <=>
               s[n - 3] = CR /\ s[n - 2] = NL /\ s[n - 1] = CR /\ s[n] = NL
  <2>1. /\ R[1] = s[n] /\ R[2] = s[n - 1] /\ R[3] = s[n - 2] /\ R[4] = s[n - 3]
    <3>1. /\ (n - 1) + 1 = n /\ (n - 2) + 1 = n - 1 /\ (n - 3) + 1 = n - 2
          /\ (n - 4) + 1 = n - 3 /\ {1, 2, 3, 4} \subseteq 1 .. n
      BY <1>6
    <3>2. R[1] = s[(n - 1) + 1] /\ R[2] = s[(n - 2) + 1] /\ R[3] = s[(n - 3) + 1]
          /\ R[4] = s[(n - 4) + 1]
      BY <1>3, <3>1
    <3> QED BY <3>1, <3>2
  <2>2. 1 .. 4 = {1, 2, 3, 4}
    OBVIOUS
  <2> QED BY <1>2, <2>1, <2>2
<1> QED BY <1>4, <1>5, <1>6

\* When all lines end with CR NL, a line behind the first one is blank just
\* when it has two bytes, and the bytes before it are CR NL then.
LEMMA BlankLine ==
  ASSUME NEW s \in Bytes, CrlfOnly(s), NEW e \in LineEnds(s)
  PROVE  /\ Line(s, e) = <<CR, NL>> <=> e - Start(s, e) = 2
         /\ e - Start(s, e) = 2 /\ Start(s, e) # 0 =>
              4 <= e /\ s[e - 3] = CR /\ s[e - 2] = NL /\ s[e - 1] = CR /\ s[e] = NL
<1>1. PICK p \in Nat : p = Start(s, e)
  BY LineIs
<1>2. /\ e \in 1 .. Len(s) /\ p < e /\ s[e] = NL /\ (p = 0 \/ p \in LineEnds(s))
      /\ Line(s, e) \in Bytes /\ Len(Line(s, e)) = e - p
      /\ \A i \in 1 .. e - p : Line(s, e)[i] = s[p + i]
  BY <1>1, LineIs
<1>3. e > 1 /\ s[e - 1] = CR /\ Len(s) \in Nat
  BY LenProperties DEF CrlfOnly, Bytes
<1>4. <<CR, NL>> \in Bytes /\ Len(<<CR, NL>>) = 2
  BY BytesDiffer DEF Bytes
<1>5. ASSUME e - p = 2 PROVE Line(s, e) = <<CR, NL>>
  <2>1. p + 1 = e - 1 /\ p + 2 = e
    BY <1>2, <1>5
  <2>2. Line(s, e)[1] = s[p + 1] /\ Line(s, e)[2] = s[p + 2]
    <3>1. 1 \in 1 .. e - p /\ 2 \in 1 .. e - p
      BY <1>5
    <3> QED BY <1>2, <3>1
  <2>3. \A i \in 1 .. 2 : Line(s, e)[i] = <<CR, NL>>[i]
    <3>1. 1 .. 2 = {1, 2}
      OBVIOUS
    <3> QED BY <1>2, <1>3, <2>1, <2>2, <3>1
  <2>4. PICK x \in Bytes, y \in Bytes, m \in Nat : x = Line(s, e) /\ y = <<CR, NL>> /\ m = 2
    BY <1>2, <1>4
  <2>5. Len(x) = m /\ Len(y) = m /\ \A i \in 1 .. m : x[i] = y[i]
    BY <1>2, <1>4, <1>5, <2>3, <2>4
  <2>6. x = y
    BY <2>5, SameBytes
  <2> QED BY <2>4, <2>6
<1>6. ASSUME e - p = 2, p # 0
      PROVE  4 <= e /\ s[e - 3] = CR /\ s[e - 2] = NL /\ s[e - 1] = CR /\ s[e] = NL
  <2>1. p \in LineEnds(s) /\ p = e - 2 /\ p - 1 = e - 3
    BY <1>2, <1>6
  <2>2. p > 1 /\ s[p - 1] = CR
    BY <2>1 DEF CrlfOnly
  <2>3. s[p] = NL
    BY <2>1 DEF LineEnds
  <2>4. 4 <= e
    BY <1>2, <1>6, <2>2
  <2> QED BY <1>2, <1>3, <2>1, <2>2, <2>3, <2>4
<1> QED BY <1>1, <1>2, <1>4, <1>5, <1>6

\* How four sequences are put together makes no difference either.
LEMMA RegroupFour ==
  ASSUME NEW g \in Bytes, NEW y \in Bytes, NEW z \in Bytes, NEW q \in Bytes
  PROVE  (g \o y) \o (z \o q) = (g \o (y \o z)) \o q
<1>1. (y \o z) \o q = y \o (z \o q)
  BY Associate, ZenonT(60)
<1>2. \A h \in Bytes : (g \o h) \o q = g \o (h \o q)
  BY Associate, ZenonT(60)
<1>3. \A k \in Bytes : (g \o y) \o k = g \o (y \o k)
  BY Associate, ZenonT(60)
<1>4. y \o z \in Bytes /\ z \o q \in Bytes
  BY JoinOf
<1>5. (g \o (y \o z)) \o q = g \o ((y \o z) \o q)
  BY <1>2, <1>4
<1>6. (g \o y) \o (z \o q) = g \o (y \o (z \o q))
  BY <1>3, <1>4
<1> QED BY <1>1, <1>5, <1>6

\* The proxy header and the blank line behind it, as write_req writes them.
LEMMA HeaderAndBlank ==
  ASSUME NEW g \in Bytes, NEW q \in Bytes
  PROVE  (g \o <<PATH, SITE, CR, NL>>) \o (<<CR, NL>> \o q)
           = (g \o <<PATH, SITE, CR, NL, CR, NL>>) \o q
<1> DEFINE added == <<PATH, SITE, CR, NL, CR, NL>>
<1>1. PATH \in AllBytes /\ SITE \in AllBytes /\ CR \in AllBytes /\ NL \in AllBytes
  BY BytesDiffer
<1>2. <<PATH, SITE, CR, NL>> \in Bytes /\ <<CR, NL>> \in Bytes /\ added \in Bytes
  BY <1>1 DEF Bytes
<1>3. <<PATH, SITE, CR, NL>> \o <<CR, NL>> = added
  <2>1. PICK p \in Bytes, u \in Bytes, x \in Bytes :
          p = <<PATH, SITE, CR, NL>> /\ u = <<CR, NL>> /\ x = added
    BY <1>2
  <2>2. /\ Len(p) = 4 /\ p[1] = PATH /\ p[2] = SITE /\ p[3] = CR /\ p[4] = NL
        /\ Len(u) = 2 /\ u[1] = CR /\ u[2] = NL
        /\ Len(x) = 6 /\ x[1] = PATH /\ x[2] = SITE /\ x[3] = CR /\ x[4] = NL
        /\ x[5] = CR /\ x[6] = NL
    BY <2>1
  <2>3. PICK y \in Bytes : y = p \o u
    BY JoinOf
  <2>4. /\ Len(y) = 6
        /\ \A i \in 1 .. 4 : y[i] = p[i]
        /\ \A i \in 1 .. 2 : y[4 + i] = u[i]
    <3>1. /\ Len(p \o u) = Len(p) + Len(u)
          /\ \A i \in 1 .. Len(p) : (p \o u)[i] = p[i]
          /\ \A i \in 1 .. Len(u) : (p \o u)[Len(p) + i] = u[i]
      BY JoinOf
    <3> QED BY <2>2, <2>3, <3>1
  <2>5. /\ y[1] = p[1] /\ y[2] = p[2] /\ y[3] = p[3] /\ y[4] = p[4]
        /\ y[5] = u[1] /\ y[6] = u[2]
    <3>1. {1, 2, 3, 4} \subseteq 1 .. 4 /\ {1, 2} \subseteq 1 .. 2 /\ 4 + 1 = 5 /\ 4 + 2 = 6
      OBVIOUS
    <3>2. y[4 + 1] = u[1] /\ y[4 + 2] = u[2]
      BY <2>4, <3>1
    <3> QED BY <2>4, <3>1, <3>2
  <2>6. PICK k \in Nat : k = 6
    OBVIOUS
  <2>7. \A i \in 1 .. k : y[i] = x[i]
    <3>1. 1 .. k = {1, 2, 3, 4, 5, 6}
      BY <2>6
    <3> QED BY <2>2, <2>5, <3>1
  <2>8. y = x
    BY <2>2, <2>4, <2>6, <2>7, SameBytes
  <2> QED BY <2>1, <2>3, <2>8
<1>4. PICK y \in Bytes, z \in Bytes : y = <<PATH, SITE, CR, NL>> /\ z = <<CR, NL>>
  BY <1>2
<1>5. (g \o y) \o (z \o q) = (g \o (y \o z)) \o q
  BY RegroupFour, SMTT(60)
<1> QED BY <1>3, <1>4, <1>5

\* The same behind the other headers.
LEMMA LastHeader ==
  ASSUME NEW f \in Bytes, NEW x \in Bytes, NEW q \in Bytes
  PROVE  (f \o (x \o <<PATH, SITE, CR, NL>>)) \o (<<CR, NL>> \o q)
           = ((f \o x) \o <<PATH, SITE, CR, NL, CR, NL>>) \o q
<1>1. PICK y \in Bytes : y = <<PATH, SITE, CR, NL>>
  <2>1. PATH \in AllBytes /\ SITE \in AllBytes /\ CR \in AllBytes /\ NL \in AllBytes
    BY BytesDiffer
  <2>2. <<PATH, SITE, CR, NL>> \in Bytes
    BY <2>1 DEF Bytes
  <2> QED BY <2>2
<1>2. (f \o x) \o y = f \o (x \o y)
  BY Associate
<1>3. PICK g \in Bytes : g = f \o x
  BY JoinOf
<1>4. (g \o <<PATH, SITE, CR, NL>>) \o (<<CR, NL>> \o q)
        = (g \o <<PATH, SITE, CR, NL, CR, NL>>) \o q
  BY HeaderAndBlank
<1> QED BY <1>1, <1>2, <1>3, <1>4

\* A server gets the request with its new request line, the body untouched
\* where find_body_start sees it, and the proxy header once, as the last of
\* the headers, if the buffer holds the end of the headers.
LEMMA WhatIsSent ==
  ASSUME NEW s \in Bytes, CrlfOnly(s), PATH \notin ToSet(s), RemoveSiteName(s).kind = "ok"
  PROVE  LET r == RemoveSiteName(s)
             begin == Position(s, NL, 1)
             w == WriteReq(s, r.line)
             b == FindBodyStart(s)
             n == Len(s)
             Headers(i) == r.line \o SubSeq(s, begin + 1, i)
             added == <<PATH, SITE, CR, NL, CR, NL>>
         IN  /\ w.kind = "ok"
             /\ \/ b # 0 /\ w.out = Headers(b - 3) \o added \o SubSeq(s, b, n)
                \/ b = 0 /\ IsSuffix(Blank, s) /\ w.out = Headers(n - 2) \o added
                \/ b = 0 /\ ~IsSuffix(Blank, s) /\ w.out = Headers(n)
<1> DEFINE first == RemoveSiteName(s).line
           begin == Position(s, NL, 1)
           added == <<PATH, SITE, CR, NL, CR, NL>>
           B == {e \in LineEnds(s) : Line(s, e) = <<CR, NL>>}
<1>0. PICK n \in Nat : n = Len(s)
  BY LenProperties DEF Bytes
<1>1. /\ begin \in 1 .. n /\ s[begin] = NL /\ (\A j \in 1 .. begin - 1 : s[j] # NL)
      /\ (\E j \in 1 .. begin : s[j] = SP) /\ first \in Bytes
  BY <1>0, FirstLine
<1>2. LineEnds(s) \in SUBSET (1 .. n) /\ begin \in LineEnds(s)
  BY <1>0, <1>1, LenProperties DEF LineEnds, Bytes
<1> HIDE DEF first, begin
<1>3. \A e \in LineEnds(s) : begin <= e /\ (e # begin => begin <= Start(s, e))
  <2> TAKE e \in LineEnds(s)
  <2>1. s[e] = NL /\ e \in 1 .. n
    BY <1>2 DEF LineEnds
  <2>2. begin <= e
    BY <1>1, <2>1
  <2>3. e # begin => begin < e
    BY <1>1, <2>1, <2>2
  <2> QED BY <1>2, <2>2, <2>3, LineIs
<1>4. \A e \in LineEnds(s) : ~IsPathHeader(Line(s, e))
  <2> TAKE e \in LineEnds(s)
  <2>1. PICK p \in Nat : p = Start(s, e) /\ p < e /\ e \in 1 .. n /\ Line(s, e)[1] = s[p + 1]
    <3>1. /\ Start(s, e) \in Nat /\ Start(s, e) < e /\ e \in 1 .. n
          /\ \A i \in 1 .. e - Start(s, e) : Line(s, e)[i] = s[Start(s, e) + i]
      BY <1>0, LineIs
    <3>2. 1 \in 1 .. e - Start(s, e)
      BY <3>1
    <3> QED BY <3>1, <3>2
  <2>2. p + 1 \in DOMAIN s
    <3>1. DOMAIN s = 1 .. n
      BY <1>0, LenProperties DEF Bytes
    <3> QED BY <2>1, <3>1
  <2>3. s[p + 1] # PATH
    BY <2>2 DEF ToSet
  <2> QED BY <2>1, <2>3 DEF IsPathHeader
<1>5. PathHeaderEnd(s) = 0
  BY <1>4 DEF PathHeaderEnd
<1>6. Start(s, begin) = 0
  <2>1. Start(s, begin) \in Nat /\ Start(s, begin) < begin
        /\ (Start(s, begin) = 0 \/ Start(s, begin) \in LineEnds(s))
    BY <1>2, LineIs
  <2> QED BY <1>1, <1>3, <2>1
<1>7. begin \notin B
  <2> SUFFICES ASSUME begin \in B PROVE FALSE
    OBVIOUS
  <2>1. begin - Start(s, begin) = 2
    BY <1>2, BlankLine
  <2>2. begin = 2
    BY <1>1, <1>6, <2>1
  <2>3. s[1] = CR
    <3>1. s[begin - 1] = CR
      BY <1>2 DEF CrlfOnly
    <3> QED BY <2>2, <3>1
  <2>4. PICK j \in 1 .. 2 : s[j] = SP
    BY <1>1, <2>2
  <2>5. j = 1 \/ j = 2
    OBVIOUS
  <2>6. SP # CR /\ SP # NL
    BY DEF SP, CR, NL
  <2> QED BY <1>1, <2>2, <2>3, <2>4, <2>5, <2>6
<1>8. B = {e \in LineEnds(s) : e # begin /\ e - Start(s, e) = 2 /\ ~IsPathHeader(Line(s, e))}
  BY <1>4, <1>7, BlankLine
<1>9. HeadersEnd(s) = IF B = {} THEN 0 ELSE Min(B)
  BY <1>8 DEF HeadersEnd, begin
<1>10. FindBodyStart(s) = IF B = {} THEN 0 ELSE IF Min(B) = n THEN 0 ELSE Min(B) + 1
  BY <1>0 DEF FindBodyStart
<1> DEFINE last == HeadersEnd(s)
           upTo == IF last = 0 THEN n ELSE Start(s, last)
           body == IF last = 0 THEN <<>> ELSE <<CR, NL>> \o SubSeq(s, last + 1, n)
           headers == SubSeq(s, begin + 1, upTo)
                      \o (IF last = 0 THEN <<>> ELSE <<PATH, SITE, CR, NL>>)
<1>11. WriteReq(s, first) = [kind |-> "ok", out |-> first \o headers \o body]
  BY <1>0, <1>5 DEF WriteReq, begin
<1>12. /\ begin + 1 \in Nat \ {0} /\ begin \in Nat /\ begin <= n
       /\ \A i \in Nat : begin <= i /\ i <= n => SubSeq(s, begin + 1, i) \in Bytes
  <2>1. begin + 1 \in Nat \ {0} /\ begin \in Nat /\ begin <= n
    BY <1>1
  <2>2. ASSUME NEW i \in Nat, begin <= i, i <= n PROVE SubSeq(s, begin + 1, i) \in Bytes
    <3>1. PICK k \in Nat \ {0} : k = begin + 1 /\ k <= i + 1 /\ i <= Len(s)
      BY <1>0, <2>1, <2>2
    <3>2. SubSeq(s, k, i) \in Bytes
      BY <3>1, CutOf
    <3> QED BY <3>1, <3>2
  <2> QED BY <2>1, <2>2
<1>13. ASSUME IsSuffix(Blank, s) PROVE n \in B
  <2>1. 4 <= n /\ s[n - 3] = CR /\ s[n - 2] = NL /\ s[n - 1] = CR /\ s[n] = NL
    BY <1>0, <1>13, EndsBlank
  <2>2. DOMAIN s = 1 .. n
    BY <1>0, LenProperties DEF Bytes
  <2>3. n \in LineEnds(s) /\ n - 2 \in LineEnds(s) /\ n - 1 \notin LineEnds(s) /\ n - 2 < n
    <3>1. n \in 1 .. n /\ n - 2 \in 1 .. n /\ n - 2 < n
      BY <2>1
    <3>2. CR # NL
      BY DEF CR, NL
    <3> QED BY <2>1, <2>2, <3>1, <3>2 DEF LineEnds
  <2>4. PICK p \in Nat : p = Start(s, n) /\ p < n /\ n - 2 <= p /\ (p = 0 \/ p \in LineEnds(s))
    BY <2>3, LineIs
  <2>5. p # n - 1
    BY <2>1, <2>3, <2>4
  <2>6. n - p = 2
    BY <2>4, <2>5
  <2>7. Line(s, n) = <<CR, NL>>
    BY <2>3, <2>4, <2>6, BlankLine
  <2> QED BY <2>3, <2>7
<1>14. <<PATH, SITE, CR, NL>> \in Bytes /\ <<CR, NL>> \in Bytes /\ added \in Bytes
  <2>1. PATH \in AllBytes /\ SITE \in AllBytes /\ CR \in AllBytes /\ NL \in AllBytes
    BY BytesDiffer
  <2>2. <<PATH, SITE, CR, NL>> \in Bytes
    BY <2>1 DEF Bytes
  <2>3. <<CR, NL>> \in Bytes
    BY <2>1 DEF Bytes
  <2>4. added \in Bytes
    BY <2>1 DEF Bytes
  <2> QED BY <2>2, <2>3, <2>4
<1> HIDE DEF B, added
<1> DEFINE H(i) == SubSeq(s, begin + 1, i)
<1>15. CASE B = {}
  <2>1. last = 0 /\ FindBodyStart(s) = 0 /\ ~IsSuffix(Blank, s)
    BY <1>9, <1>10, <1>13, <1>15
  <2>2. H(n) \in Bytes
    BY <1>12
  <2>3. headers = H(n) \o <<>> /\ body = <<>>
    BY <2>1
  <2> HIDE DEF H, headers, body
  <2>4. H(n) \o <<>> = H(n)
    BY <2>2, ConcatEmptySeq DEF Bytes
  <2>5. (first \o H(n)) \o <<>> = first \o H(n)
    <3>1. first \o H(n) \in Bytes
      BY <1>1, <2>2, JoinOf
    <3> QED BY <3>1, ConcatEmptySeq DEF Bytes
  <2>6. /\ WriteReq(s, first).kind = "ok"
        /\ WriteReq(s, first).out = first \o H(n)
    BY <1>11, <2>3, <2>4, <2>5
  <2> QED BY <1>0, <2>1, <2>6 DEF H, first, begin
<1>16. CASE B # {}
  <2>1. PICK m \in B : m = Min(B) /\ m \in LineEnds(s) /\ m \in 1 .. n /\ m # begin
                       /\ Line(s, m) = <<CR, NL>>
    <3>1. B \in SUBSET LineEnds(s) /\ \A e \in B : Line(s, e) = <<CR, NL>>
      BY DEF B
    <3>2. B \in SUBSET Nat
      BY <1>2, <3>1
    <3>3. Min(B) \in B
      BY <1>16, <3>2, MinOf
    <3> QED BY <1>2, <1>7, <3>1, <3>3
  <2>2. PICK u \in Nat : u = Start(s, m) /\ m - u = 2 /\ begin <= u /\ m = u + 2 /\ u # 0
    <3>1. Start(s, m) \in Nat /\ m - Start(s, m) = 2 /\ begin <= Start(s, m)
      BY <1>3, <2>1, BlankLine, LineIs
    <3>2. m = Start(s, m) + 2 /\ Start(s, m) # 0
      BY <1>1, <2>1, <3>1
    <3> QED BY <3>1, <3>2
  <2>3. last = m /\ m # 0 /\ m \in Nat /\ m <= n /\ u <= n
    BY <1>9, <1>16, <2>1, <2>2
  <2>4. H(u) \in Bytes
    BY <1>12, <2>2, <2>3
  <2> DEFINE rest == SubSeq(s, m + 1, n)
  <2>5. rest \in Bytes
    <3>1. PICK k \in Nat \ {0} : k = m + 1 /\ k <= n + 1 /\ n <= Len(s)
      BY <1>0, <2>3
    <3>2. SubSeq(s, k, n) \in Bytes
      BY <3>1, CutOf
    <3> QED BY <3>1, <3>2
  <2>6. headers = H(u) \o <<PATH, SITE, CR, NL>> /\ body = <<CR, NL>> \o rest
    BY <2>2, <2>3
  <2> HIDE DEF H, headers, body, rest, last
  <2>7. (first \o (H(u) \o <<PATH, SITE, CR, NL>>)) \o (<<CR, NL>> \o rest)
          = ((first \o H(u)) \o added) \o rest
    BY <1>1, <2>4, <2>5, LastHeader, ZenonT(60) DEF added
  <2>8. /\ WriteReq(s, first).kind = "ok"
        /\ WriteReq(s, first).out = ((first \o H(u)) \o added) \o rest
    <3>1. PICK o : o = first \o headers \o body
      OBVIOUS
    <3>2. o = ((first \o H(u)) \o added) \o rest
      BY <2>6, <2>7, <3>1
    <3>3. WriteReq(s, first) = [kind |-> "ok", out |-> o]
      BY <1>11, <3>1
    <3> QED BY <3>2, <3>3
  <2>9. CASE m = n
    <3>1. FindBodyStart(s) = 0 /\ u = n - 2
      BY <1>10, <1>16, <2>1, <2>2, <2>9
    <3>2. IsSuffix(Blank, s)
      <4>1. 4 <= m /\ s[m - 3] = CR /\ s[m - 2] = NL /\ s[m - 1] = CR /\ s[m] = NL
        BY <2>1, <2>2, BlankLine
      <4> QED BY <1>0, <2>9, <4>1, EndsBlank
    <3>3. rest = <<>>
      <4>1. PICK k \in Nat \ {0} : k = n + 1 /\ k - 1 = n
        <5>1. n + 1 \in Nat \ {0} /\ n + 1 - 1 = n
          OBVIOUS
        <5> QED BY <5>1
      <4>2. SubSeq(s, k, k - 1) = <<>>
        BY CutNone
      <4> QED BY <2>9, <4>1, <4>2 DEF rest
    <3>4. ((first \o H(u)) \o added) \o <<>> = (first \o H(u)) \o added
      <4>1. (first \o H(u)) \o added \in Bytes
        BY <1>1, <1>14, <2>4, JoinOf
      <4> QED BY <4>1, ConcatEmptySeq DEF Bytes
    <3>5. WriteReq(s, first).out = (first \o H(n - 2)) \o added
      BY <2>8, <3>1, <3>3, <3>4
    <3> QED BY <1>0, <2>8, <3>1, <3>2, <3>5 DEF H, first, begin, added
  <2>10. CASE m # n
    <3>0. PICK l \in Nat : l = m /\ l = u + 2 /\ l # n
      BY <2>2, <2>3, <2>10
    <3>1. PICK b \in Nat : b = l + 1 /\ b # 0 /\ b - 3 = u /\ FindBodyStart(s) = b
      <4>1. Min(B) = l
        BY <2>1, <3>0
      <4>2. FindBodyStart(s) = l + 1
        BY <1>10, <1>16, <3>0, <4>1
      <4>3. l + 1 \in Nat /\ l + 1 # 0 /\ l + 1 - 3 = u
        BY <3>0
      <4> QED BY <4>2, <4>3
    <3>2. WriteReq(s, first).out = ((first \o H(b - 3)) \o added) \o SubSeq(s, b, n)
      BY <2>8, <3>0, <3>1 DEF rest
    <3> QED BY <1>0, <2>8, <3>1, <3>2 DEF H, first, begin, added
  <2> QED BY <2>9, <2>10
<1> QED BY <1>15, <1>16

\* So it is in every state of the specification, whatever the client sends.
THEOREM ProxyHeaderAddedOnce == Spec => []PathAddedOnce
<1>1. TypeOK => PathAddedOnce
  <2>1. ASSUME TypeOK, Parsed, CrlfOnly(buf), PATH \notin ToSet(buf), RemoveSiteName(buf).kind = "ok"
        PROVE  LET r == RemoveSiteName(buf)
                   begin == Position(buf, NL, 1)
                   w == WriteReq(buf, r.line)
                   b == FindBodyStart(buf)
                   n == Len(buf)
                   Headers(i) == r.line \o SubSeq(buf, begin + 1, i)
                   added == <<PATH, SITE, CR, NL, CR, NL>>
               IN  /\ w.kind = "ok"
                   /\ \/ b # 0 /\ w.out = Headers(b - 3) \o added \o SubSeq(buf, b, n)
                      \/ b = 0 /\ IsSuffix(Blank, buf) /\ w.out = Headers(n - 2) \o added
                      \/ b = 0 /\ ~IsSuffix(Blank, buf) /\ w.out = Headers(n)
    <3>1. buf \in Bytes
      BY <2>1 DEF TypeOK, Bytes
    <3> QED BY <2>1, <3>1, WhatIsSent
  <2> QED BY <2>1 DEF PathAddedOnce, Blank
<1> QED BY <1>1, TypeCorrect, PTL
=============================================================================
