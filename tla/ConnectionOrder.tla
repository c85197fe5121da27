-------------------------- MODULE ConnectionOrder --------------------------
(***************************************************************************)
(* What servers receive and what clients are answered, for any number of   *)
(* connections and sites: the requests in order and without gaps, every    *)
(* answer once and in order, and to a client that waits the n-th answer    *)
(* for its n-th request.                                                   *)
(***************************************************************************)
EXTENDS ConnectionProofs

(***************************************************************************)
(* The inductive invariant, by parts.                                      *)
(***************************************************************************)

\* Where the read in req_buf is still to be answered or forwarded.
InHand == {"serve", "delete", "connect", "forward"}

\* The last request of the connection that was dealt with.
Mark(c) == IF pc[c] \in InHand THEN Req(c).id - 1 ELSE next[c]

\* The client is gone and what it sent can be read no more.
Cut(c) == client[c] = "gone" /\ next[c] = Len(stream[c])

\* Requests are numbered, and a read is a run of them that ends where the
\* reading does.
Numbered(c) ==
  /\ \A i \in DOMAIN stream[c] : stream[c][i].id = i
  /\ ~failed[c] /\ buf[c] # <<>> =>
       /\ \A i \in DOMAIN buf[c] : buf[c][i].id = buf[c][1].id + i - 1
       /\ buf[c][1].id + Len(buf[c]) - 1 <= next[c]
       /\ Cut(c) \/ buf[c][1].id + Len(buf[c]) - 1 = next[c]
  /\ failed[c] => client[c] = "gone"

\* Request m follows request b at the server: nothing is between them, or
\* what is between them begins with a favicon request.
Follows(c, b, m) == m = b + 1 \/ stream[c][b + 1].to = "favicon"

\* The server of the session has received all that was dealt with, or all up
\* to a favicon request.
Linked(c) ==
  LET r == received[c]
      last == r[Len(r)].id
  IN  /\ r # <<>>
      /\ \/ pc[c] = "pipe" /\ Cut(c)
         \/ last = Mark(c)
         \/ last < Mark(c) /\ stream[c][last + 1].to = "favicon"

\* What the server has received is in order and without gaps.
Receipt(c, i) ==
  LET r == received[c] IN
  /\ i <= r[i].id /\ r[i].id <= Mark(c)
  /\ ~r[i].opens =>
       i > 1 /\ r[i - 1].id < r[i].id /\ Follows(c, r[i - 1].id, r[i].id)

Delivered(c) ==
  ~failed[c] =>
    /\ InOrder(c)
    /\ \A i \in DOMAIN received[c] : Receipt(c, i)
    /\ InSession(c) => Linked(c)

\* Answer b may come after answer a.
Before(a, b) ==
  b.re # 0 => a.re # b.re /\ ("icon" \notin {a.what, b.what} => a.re < b.re)

\* Each answer may come after those before it.
Good(q) == \A i, j \in DOMAIN q : i < j => Before(q[i], q[j])

Rising(q) == \A i, j \in DOMAIN q : i < j => q[i] < q[j]
Distinct(q) == \A i, j \in DOMAIN q : i < j => q[i] # q[j]

\* What was answered, what the server is to answer and the favicons to be
\* answered, of the requests up to `mark': each answer may come in its turn.
Orderly(out, owed, ico, mark) ==
  /\ Good(out) /\ Rising(owed) /\ Distinct(ico)
  /\ \A i \in DOMAIN out : out[i].re <= mark
  /\ \A j \in DOMAIN owed : owed[j] <= mark
  /\ \A j \in DOMAIN ico : ico[j] <= mark
  /\ \A i \in DOMAIN out, j \in DOMAIN owed : Before(out[i], Entry("server", owed[j]))
  /\ \A i \in DOMAIN out, j \in DOMAIN ico : Before(out[i], Entry("icon", ico[j]))
  /\ \A i \in DOMAIN owed, j \in DOMAIN ico : owed[i] # ico[j]

\* What the client was answered or will be with the next flush, and what its
\* server has yet to answer or has answered unread.
Out(c) == answers[c] \o wbuf[c]
Owed(c) == ses[c].resp \o ses[c].asked

Answered(c) ==
  client[c] # "gone" =>
    /\ Orderly(Out(c), Owed(c), ses[c].ico, Mark(c))
    /\ pc[c] \notin {"pipe", "forward", "closed"} => ses[c] = NoSession

\* Every number in q is k.
Only(q, k) == \A i \in DOMAIN q : q[i] = k

\* Of a client that waits for its answers: what was answered is answered in
\* turn, and at most one request more was sent.
Settled(c) ==
  LET n == Len(answers[c]) IN
  /\ Len(stream[c]) <= n + 1 /\ n <= next[c]
  /\ \A i \in DOMAIN answers[c] : answers[c][i].re = i

\* That request is at one place, once it was read: with the server, in the
\* favicon channel, written but not flushed, or in hand.
Pending(c) == Len(ses[c].resp) + Len(ses[c].asked) + Len(ses[c].ico) + Len(wbuf[c])

Awaited(c) ==
  LET n == Len(answers[c]) IN
  /\ Only(ses[c].resp, n + 1) /\ Only(ses[c].asked, n + 1) /\ Only(ses[c].ico, n + 1)
  /\ \A i \in DOMAIN wbuf[c] : wbuf[c][i].re = n + 1
  /\ Pending(c) <= 1
  /\ next[c] = n \/ pc[c] # "pipe" => Pending(c) = 0
  /\ pc[c] \in InHand => Req(c).id = n + 1 /\ Len(buf[c]) = 1

\* A server breaks off only while it has a request to answer.
Busy(c) ==
  /\ pc[c] = "pipe" /\ ses[c].server = "reset" => ses[c].asked # <<>>
  /\ pc[c] = "forward" => ses[c].server # "reset"

Turn(c) ==
  client[c] # "gone" /\ pc[c] # "closed" => Settled(c) /\ Awaited(c) /\ Busy(c)

OrderInv ==
  /\ IInv
  /\ \A c \in Conn : Numbered(c) /\ Delivered(c) /\ Answered(c) /\ Good(answers[c])

TurnInv ==
  /\ OrderInv /\ AnswersMatch
  /\ \A c \in Conn : Turn(c)

-----------------------------------------------------------------------------
(***************************************************************************)
(* Sequences.                                                              *)
(***************************************************************************)

\* An answer put behind what is in the buffer is behind all answers.
LEMMA AppendConcat ==
  ASSUME NEW p \in Seq(Answers), NEW q \in Seq(Answers), NEW e \in Answers
  PROVE  p \o Append(q, e) = Append(p \o q, e)
OBVIOUS

\* The oldest request that the server has is still the oldest after those
\* it has answered, once it has answered it.
LEMMA MoveHead ==
  ASSUME NEW p \in Seq(Id), NEW q \in Seq(Id), q # <<>>
  PROVE  Append(p, Head(q)) \o Tail(q) = p \o q
OBVIOUS

\* Requests put behind those of a server are behind all that it is to answer.
LEMMA ConcatOwed ==
  ASSUME NEW p \in Seq(Id), NEW q \in Seq(Id), NEW r \in Seq(Id)
  PROVE  p \o (q \o r) = (p \o q) \o r
BY ConcatAssociative

\* The head of the first of two sequences that are joined goes.
LEMMA TailConcat ==
  ASSUME NEW p \in Seq(Id), NEW q \in Seq(Id), p # <<>>
  PROVE  /\ Head(p) = (p \o q)[1] /\ 1 \in DOMAIN (p \o q)
         /\ \A i \in DOMAIN (Tail(p) \o q) :
              i + 1 \in DOMAIN (p \o q) /\ (Tail(p) \o q)[i] = (p \o q)[i + 1]
<1>1. /\ Tail(p) \in Seq(Id) /\ Head(p) = p[1] /\ Len(p) \in Nat \ {0} /\ Len(q) \in Nat
      /\ Len(Tail(p)) = Len(p) - 1 /\ \A i \in 1 .. Len(p) - 1 : Tail(p)[i] = p[i + 1]
  BY HeadTailProperties, EmptySeq, LenProperties
<1>2. /\ Len(p \o q) = Len(p) + Len(q) /\ DOMAIN (p \o q) = 1 .. Len(p) + Len(q)
      /\ \A i \in 1 .. Len(p) + Len(q) :
           (p \o q)[i] = IF i <= Len(p) THEN p[i] ELSE q[i - Len(p)]
  BY ConcatProperties, LenProperties
<1>3. /\ DOMAIN (Tail(p) \o q) = 1 .. Len(p) - 1 + Len(q)
      /\ \A i \in 1 .. Len(p) - 1 + Len(q) :
           (Tail(p) \o q)[i] = IF i <= Len(p) - 1 THEN Tail(p)[i] ELSE q[i - (Len(p) - 1)]
  BY <1>1, ConcatProperties, LenProperties
<1> QED BY <1>1, <1>2, <1>3

\* Where the elements of two sequences are when these are joined.
LEMMA Joined ==
  ASSUME NEW S, NEW p \in Seq(S), NEW q \in Seq(S)
  PROVE  /\ Len(p) \in Nat /\ Len(q) \in Nat
         /\ DOMAIN p = 1 .. Len(p) /\ DOMAIN q = 1 .. Len(q)
         /\ \A i \in DOMAIN p : i \in DOMAIN (p \o q) /\ (p \o q)[i] = p[i]
         /\ \A i \in DOMAIN q :
              Len(p) + i \in DOMAIN (p \o q) /\ (p \o q)[Len(p) + i] = q[i]
<1>1. PICK n \in Nat, m \in Nat : n = Len(p) /\ m = Len(q)
  BY LenProperties
<1>2. /\ DOMAIN p = 1 .. n /\ DOMAIN q = 1 .. m /\ DOMAIN (p \o q) = 1 .. n + m
      /\ \A i \in 1 .. n + m : (p \o q)[i] = IF i <= n THEN p[i] ELSE q[i - n]
  BY <1>1, ConcatProperties, LenProperties
<1>3. /\ \A i \in 1 .. n : i \in 1 .. n + m /\ i <= n
      /\ \A i \in 1 .. m : n + i \in 1 .. n + m /\ ~(n + i <= n) /\ n + i - n = i
  BY <1>1
<1> QED BY <1>1, <1>2, <1>3

\* The same of what a server is to answer.
LEMMA JoinedOwed ==
  ASSUME NEW p \in Seq(Id), NEW q \in Seq(Id), q # <<>>
  PROVE  \E j \in DOMAIN (p \o q) : Head(q) = (p \o q)[j]
<1>1. Head(q) = q[1] /\ 1 \in DOMAIN q
  BY HeadTailProperties, EmptySeq, LenProperties
<1>2. Len(p) + 1 \in DOMAIN (p \o q) /\ (p \o q)[Len(p) + 1] = q[1]
  BY <1>1, Joined
<1> QED BY <1>1, <1>2

\* And of what is answered.
LEMMA JoinedOut ==
  ASSUME NEW p \in Seq(Answers), NEW q \in Seq(Answers), q # <<>>
  PROVE  \E j \in DOMAIN (p \o q) : (p \o q)[j] = q[1]
<1>1. 1 \in DOMAIN q
  BY EmptySeq, LenProperties
<1>2. Len(p) + 1 \in DOMAIN (p \o q) /\ (p \o q)[Len(p) + 1] = q[1]
  BY <1>1, Joined
<1> QED BY <1>2

\* What is in a sequence with something put behind it.
LEMMA Behind ==
  ASSUME NEW S, NEW q \in Seq(S), NEW e \in S
  PROVE  /\ Append(q, e) \in Seq(S) /\ Len(Append(q, e)) = Len(q) + 1
         /\ DOMAIN Append(q, e) = 1 .. Len(q) + 1 /\ DOMAIN q = 1 .. Len(q)
         /\ Len(q) \in Nat
         /\ \A i \in 1 .. Len(q) : Append(q, e)[i] = q[i]
         /\ Append(q, e)[Len(q) + 1] = e
BY AppendProperties, LenProperties

-----------------------------------------------------------------------------
(***************************************************************************)
(* Types, before and after a step.                                         *)
(***************************************************************************)

\* The values of one connection.
TypedRead(c) ==
  /\ stream[c] \in Seq(Requests) /\ Len(stream[c]) \in Nat /\ Len(stream[c]) <= MaxSend
  /\ next[c] \in Nat /\ next[c] <= Len(stream[c])
  /\ buf[c] \in Seq(Requests) /\ Len(buf[c]) \in Nat /\ MaxSend \in Nat
  /\ DOMAIN stream[c] = 1 .. Len(stream[c]) /\ DOMAIN buf[c] = 1 .. Len(buf[c])

TypedHand(c) ==
  /\ pc[c] \in InHand => buf[c] # <<>>
  /\ buf[c] # <<>> =>
       /\ Req(c) = buf[c][1] /\ 1 \in DOMAIN buf[c]
       /\ Req(c).id \in Nat \ {0} /\ Len(buf[c]) \in Nat \ {0}

TypedSes(c) ==
  /\ ses[c] \in Sessions
  /\ ses[c].resp \in Seq(Id) /\ ses[c].asked \in Seq(Id) /\ ses[c].ico \in Seq(Id)
  /\ Owed(c) \in Seq(Id)

TypedOut(c) ==
  /\ wbuf[c] \in Seq(Answers) /\ answers[c] \in Seq(Answers) /\ Out(c) \in Seq(Answers)

Typed(c) ==
  /\ TypedRead(c) /\ TypedHand(c) /\ TypedSes(c) /\ TypedOut(c)
  /\ received[c] \in Seq(Receipts)

\* The values of a connection are of their types.
LEMMA TypedAt == ASSUME IInv, NEW c \in Conn PROVE Typed(c)
<1>1. /\ InputTyped /\ ReadTyped /\ SesTyped /\ OutputTyped /\ HistoryTyped /\ Local(c)
  BY TypeParts DEF IInv
<1>2. TypedRead(c)
  BY <1>1, ConnectionAssumption, LenProperties
  DEF InputTyped, ReadTyped, Local, Bounded, TypedRead
<1>3. TypedSes(c)
  BY <1>1, ConcatProperties DEF SesTyped, Sessions, TypedSes, Owed
<1>4. TypedOut(c) /\ received[c] \in Seq(Receipts)
  BY <1>1, ConcatProperties DEF OutputTyped, HistoryTyped, TypedOut, Out
<1>5. TypedHand(c)
  <2>1. pc[c] \in InHand => buf[c] # <<>>
    BY <1>1 DEF InHand, Local, ReadInHand, Holding
  <2>2. ASSUME buf[c] # <<>>
        PROVE  /\ Req(c) = buf[c][1] /\ 1 \in DOMAIN buf[c]
               /\ Req(c).id \in Nat \ {0} /\ Len(buf[c]) \in Nat \ {0}
    <3>1. Req(c) = buf[c][1] /\ 1 \in DOMAIN buf[c] /\ Req(c).id \in Id
      BY <1>1, <2>2, ReqTyped
    <3> QED BY <1>2, <3>1 DEF TypedRead, Id
  <2> QED BY <2>1, <2>2 DEF TypedHand
<1> QED BY <1>2, <1>3, <1>4, <1>5 DEF Typed

\* The same after a step.
LEMMA TypedThen == ASSUME IInv', NEW c \in Conn PROVE Typed(c)'
<1>1. /\ InputTyped' /\ ReadTyped' /\ SesTyped' /\ OutputTyped' /\ HistoryTyped' /\ Local(c)'
  BY DEF IInv, TypeOK, InputTyped, ReadTyped, SesTyped, OutputTyped, HistoryTyped
<1>2. TypedRead(c)'
  BY <1>1, ConnectionAssumption, LenProperties
  DEF InputTyped, ReadTyped, Local, Bounded, TypedRead
<1>3. TypedSes(c)'
  BY <1>1, ConcatProperties DEF SesTyped, Sessions, TypedSes, Owed
<1>4. TypedOut(c)' /\ received'[c] \in Seq(Receipts)
  BY <1>1, ConcatProperties DEF OutputTyped, HistoryTyped, TypedOut, Out
<1>5. TypedHand(c)'
  <2>1. pc'[c] \in InHand => buf'[c] # <<>>
    BY <1>1 DEF InHand, Local, ReadInHand, Holding
  <2>2. ASSUME buf'[c] # <<>>
        PROVE  /\ Req(c)' = buf'[c][1] /\ 1 \in DOMAIN buf'[c]
               /\ Req(c)'.id \in Nat \ {0} /\ Len(buf'[c]) \in Nat \ {0}
    <3>1. buf'[c] \in Seq(Requests)
      BY <1>1 DEF ReadTyped
    <3>2. Req(c)' = buf'[c][1] /\ 1 \in DOMAIN buf'[c] /\ buf'[c][1] \in Requests
      BY <2>2, <3>1, EmptySeq, LenProperties, ElementOfSeq DEF Req
    <3>3. Req(c)'.id \in Id
      BY <3>2 DEF Requests
    <3> QED BY <1>2, <3>2, <3>3 DEF TypedRead, Id
  <2> QED BY <2>1, <2>2 DEF TypedHand
<1> QED BY <1>2, <1>3, <1>4, <1>5 DEF Typed

-----------------------------------------------------------------------------
(***************************************************************************)
(* The kinds of steps of a connection, by what they do to it.              *)
(***************************************************************************)
Unmoved(d) ==
  /\ client'[d] = client[d] /\ stream'[d] = stream[d] /\ next'[d] = next[d]
  /\ pc'[d] = pc[d] /\ buf'[d] = buf[d] /\ ses'[d] = ses[d]
  /\ wbuf'[d] = wbuf[d] /\ answers'[d] = answers[d]
  /\ received'[d] = received[d] /\ failed'[d] = failed[d]

\* What the client sent and servers received stays as it is.
Alone(c) ==
  /\ client'[c] = client[c] /\ stream'[c] = stream[c]
  /\ received'[c] = received[c] /\ failed'[c] = failed[c]

SameOut(c) == wbuf'[c] = wbuf[c] /\ answers'[c] = answers[c]
SameRead(c) == next'[c] = next[c] /\ buf'[c] = buf[c]

Sends(c) ==
  /\ \E r \in Requests :
       r.id = Len(stream[c]) + 1 /\ stream'[c] = Append(stream[c], r)
  /\ pc[c] # "closed" /\ (Polite => Len(answers[c]) = Len(stream[c]))
  /\ client'[c] = client[c] /\ client[c] = "open"
  /\ received'[c] = received[c] /\ failed'[c] = failed[c]
  /\ pc'[c] = pc[c] /\ ses'[c] = ses[c] /\ SameRead(c) /\ SameOut(c)

Leaves(c) ==
  /\ client[c] # "gone" /\ client'[c] \in {"half", "gone"}
  /\ \/ next'[c] = next[c]
     \/ client'[c] = "gone" /\ next'[c] = Len(stream[c])
  /\ stream'[c] = stream[c] /\ received'[c] = received[c] /\ failed'[c] = failed[c]
  /\ pc'[c] = pc[c] /\ ses'[c] = ses[c] /\ buf'[c] = buf[c] /\ SameOut(c)

Responds(c) ==
  /\ InSession(c) /\ ses[c].server = "up" /\ ses[c].asked # <<>>
  /\ ses'[c] = [ses[c] EXCEPT !.resp = Append(ses[c].resp, Head(ses[c].asked)),
                              !.asked = Tail(ses[c].asked)]
  /\ pc'[c] = pc[c] /\ Alone(c) /\ SameRead(c) /\ SameOut(c)

\* The server ends its stream or resets it, or the end is read.
Breaks(c) ==
  /\ InSession(c)
  /\ \E s \in {"eof", "reset"}, f \in BOOLEAN :
       /\ ses'[c] = [ses[c] EXCEPT !.server = s, !.flushing = f]
       /\ s = "reset" /\ "idle_reset" \notin Faults => ses[c].asked # <<>>
  /\ pc'[c] = pc[c] /\ Alone(c) /\ SameRead(c) /\ SameOut(c)

Reads(c) ==
  \E n \in next[c] + 1 .. Len(stream[c]) :
    buf'[c] = SubSeq(stream[c], next[c] + 1, n) /\ next'[c] = n

\* A read is taken to be served, to be forwarded, to the favicon channel, or
\* is the last.
Takes(c) ==
  /\ Reads(c) /\ Alone(c)
  /\ \/ pc[c] \in {"start", "read"} /\ pc'[c] = "serve" /\ ses'[c] = ses[c] /\ SameOut(c)
     \/ pc[c] = "pipe" /\ pc'[c] = "serve" /\ ses'[c] = NoSession /\ SameOut(c)
     \/ pc[c] = "pipe" /\ pc'[c] = "forward" /\ ses'[c] = ses[c] /\ SameOut(c)
     \/ /\ pc[c] = "pipe" /\ pc'[c] = "pipe" /\ buf'[c][1].to = "favicon"
        /\ ses'[c] = [ses[c] EXCEPT !.ico = Append(ses[c].ico, buf'[c][1].id)]
        /\ SameOut(c)
     \/ pc[c] = "start" /\ pc'[c] = "closed" /\ ses'[c] = ses[c] /\ SameOut(c)
     \/ /\ pc[c] = "pipe" /\ pc'[c] = "closed" /\ ses'[c] = NoSession
        /\ wbuf'[c] = <<>> /\ answers'[c] = answers[c]

\* The session ends, if there is one.
Ends(c) ==
  ses'[c] = NoSession \/ (pc[c] \in {"start", "read", "serve", "delete", "connect"} /\ ses'[c] = ses[c])

Skips(c) ==
  /\ pc[c] = "serve" /\ pc'[c] = "read" /\ buf'[c] = <<>> /\ next'[c] = next[c]
  /\ ses'[c] = ses[c] /\ Alone(c) /\ SameOut(c)

Closes(c) ==
  /\ pc'[c] = "closed" /\ buf'[c] = <<>> /\ next'[c] = next[c]
  /\ wbuf'[c] = <<>> /\ answers'[c] = answers[c]
  /\ Ends(c) /\ Alone(c)

\* What is answered: the request in hand, the end of the client's stream, or
\* what the server that broke off has yet to answer.
Replies(c) ==
  /\ pc'[c] \in {"read", "closed"} /\ buf'[c] = <<>> /\ next'[c] = next[c]
  /\ Ends(c) /\ Alone(c)
  /\ wbuf'[c] = <<>>
  /\ \E what \in {"html", "200", "400", "404", "405", "500"}, re \in 0 .. MaxSend :
       /\ client[c] # "gone" =>
            answers'[c] = answers[c] \o Append(wbuf[c], Entry(what, re))
       /\ client[c] = "gone" => answers'[c] = answers[c]
       /\ \/ pc[c] \in InHand /\ re = Req(c).id
          \/ /\ pc[c] \in {"start", "read"} /\ pc'[c] = "closed"
             /\ client[c] # "open" /\ what = "400" /\ re = 0
          \/ InSession(c) /\ ses[c].server = "reset" /\ re = Unanswered(c)

Goes(c) ==
  /\ pc[c] = "serve" /\ pc'[c] \in {"delete", "connect"}
  /\ ses'[c] = ses[c] /\ Alone(c) /\ SameRead(c) /\ SameOut(c)

Forwards(c) ==
  /\ pc[c] \in {"connect", "forward"} /\ pc'[c] = "pipe"
  /\ \E s \in Site : Forward(c, s)
  /\ client'[c] = client[c] /\ stream'[c] = stream[c] /\ failed'[c] = failed[c]
  /\ SameRead(c) /\ SameOut(c)

\* An answer of the server or of the favicon channel.
Writes(c) ==
  /\ InSession(c) /\ ~ses[c].flushing
  /\ \/ /\ ses[c].resp # <<>>
        /\ ses'[c] = [ses[c] EXCEPT !.resp = Tail(ses[c].resp), !.flushing = TRUE]
        /\ wbuf'[c] = Append(wbuf[c], Entry("server", Head(ses[c].resp)))
     \/ /\ ses[c].ico # <<>>
        /\ ses'[c] = [ses[c] EXCEPT !.ico = Tail(ses[c].ico), !.flushing = TRUE]
        /\ wbuf'[c] = Append(wbuf[c], Entry("icon", Head(ses[c].ico)))
  /\ answers'[c] = answers[c]
  /\ pc'[c] = pc[c] /\ Alone(c) /\ SameRead(c)

Flushes(c) ==
  /\ InSession(c) /\ ses'[c] = [ses[c] EXCEPT !.flushing = FALSE]
  /\ wbuf'[c] = <<>>
  /\ client[c] # "gone" => answers'[c] = answers[c] \o wbuf[c]
  /\ client[c] = "gone" => answers'[c] = answers[c]
  /\ pc'[c] = pc[c] /\ Alone(c) /\ SameRead(c)

Fails(c) ==
  /\ client[c] = "gone" /\ client'[c] = client[c] /\ failed'[c]
  /\ stream'[c] = stream[c] /\ answers'[c] = answers[c] /\ next'[c] = next[c]

StepKind(c) ==
  \/ Sends(c) \/ Leaves(c) \/ Responds(c) \/ Breaks(c)
  \/ Takes(c) \/ Skips(c) \/ Closes(c) \/ Replies(c) \/ Goes(c)
  \/ Forwards(c) \/ Writes(c) \/ Flushes(c) \/ Fails(c)

\* The variables, as functions of the connection.
LEMMA Maps ==
  ASSUME TypeOK
  PROVE  /\ DOMAIN client = Conn /\ DOMAIN stream = Conn /\ DOMAIN next = Conn
         /\ DOMAIN pc = Conn /\ DOMAIN buf = Conn /\ DOMAIN len = Conn /\ DOMAIN ses = Conn
         /\ DOMAIN wbuf = Conn /\ DOMAIN answers = Conn
         /\ DOMAIN received = Conn /\ DOMAIN failed = Conn
         /\ client = [c \in Conn |-> client[c]] /\ stream = [c \in Conn |-> stream[c]]
         /\ next = [c \in Conn |-> next[c]] /\ pc = [c \in Conn |-> pc[c]]
         /\ buf = [c \in Conn |-> buf[c]] /\ ses = [c \in Conn |-> ses[c]]
         /\ wbuf = [c \in Conn |-> wbuf[c]] /\ answers = [c \in Conn |-> answers[c]]
         /\ received = [c \in Conn |-> received[c]] /\ failed = [c \in Conn |-> failed[c]]
BY DEF TypeOK

\* A step of c and the other connections.
LEMMA OthersUnmoved ==
  ASSUME IInv, NEW c \in Conn,
         Send(c) \/ Leave(c) \/ Respond(c) \/ Break(c) \/ Task(c)
  PROVE  \A d \in Conn \ {c} : Unmoved(d)
<1> SUFFICES ASSUME NEW d \in Conn, d # c PROVE Unmoved(d)
  OBVIOUS
<1>0. TypeOK
  BY DEF IInv
<1> USE <1>0, Maps DEF Unmoved, shared, input, output, history
<1>1. CASE Send(c) \/ Leave(c) \/ Respond(c) \/ Break(c)
  BY <1>1 DEF Send, Leave, Respond, Break
<1> USE DEF Goto, Take, Flush, Answer, Drop, Close, Continue, ServeRead, ReadOrEnd,
            Reply, EndSession
<1>2. CASE ReadFirst(c) \/ ReadNext(c)
  BY <1>2 DEF ReadFirst, ReadNext
<1>3. CASE Serve(c)
  BY <1>3 DEF Serve, Unparsable, ServeBase, Route
<1>4. CASE DeleteServer(c)
  BY <1>4 DEF DeleteServer
<1>5. CASE Connect(c)
  BY <1>5 DEF Connect, Forward
<1>6. CASE ClientFut(c)
  <2>1. CASE PipeRead(c) \/ PipePanics(c) \/ PipeFavicon(c) \/ PipeSwitch(c)
    BY <1>6, <2>1 DEF ClientFut, PipeRead, PipePanics, PipeFavicon, PipeSwitch
  <2>2. CASE PipeForward(c)
    BY <1>6, <2>2 DEF ClientFut, PipeForward, Forward
  <2>3. CASE PipeForwardFails(c) \/ PipeClientEnds(c)
    BY <1>6, <2>3 DEF ClientFut, PipeForwardFails, PipeClientEnds
  <2> QED BY <1>6, <2>1, <2>2, <2>3 DEF ClientFut
<1>7. CASE ServerFut(c)
  BY <1>7 DEF ServerFut, PipeAnswer, PipeServerEnds, PipeFlush, PipeFlushFails, PipeServerFails
<1> QED BY <1>1, <1>2, <1>3, <1>4, <1>5, <1>6, <1>7 DEF Task

\* The clients and the servers.
LEMMA OutsideKind ==
  ASSUME IInv, NEW c \in Conn, Send(c) \/ Leave(c) \/ Respond(c) \/ Break(c)
  PROVE  StepKind(c)
<1>0. TypeOK /\ Typed(c) /\ SharedTyped
  BY TypedAt, TypeParts DEF IInv
<1> USE Maps DEF shared, input, output, history, Alone, SameOut, SameRead
<1>1. CASE Send(c)
  <2>1. PICK k \in Kinds, s \in Site \cup {NoSite} :
          stream' = [stream EXCEPT ![c] = Append(@,
            [id |-> Len(@) + 1, to |-> k, target |-> s, late |-> deleted])]
    BY <1>1 DEF Send
  <2> DEFINE r == [id |-> Len(stream[c]) + 1, to |-> k, target |-> s, late |-> deleted]
  <2>2. Len(stream[c]) + 1 \in Id /\ k \in Kind /\ deleted \subseteq Site
    BY <1>0, <1>1, ConnectionAssumption, LenProperties DEF Id, SharedTyped, Send, Typed, TypedRead
  <2>3. r \in Requests /\ r.id = Len(stream[c]) + 1
    BY <2>2 DEF Requests
  <2>4. stream'[c] = Append(stream[c], r)
    BY <1>0, <2>1
  <2>5. Sends(c)
    <3> HIDE DEF r
    <3> QED BY <1>0, <1>1, <2>3, <2>4 DEF Send, Sends
  <2> QED BY <2>5 DEF StepKind
<1>2. CASE Leave(c)
  <2>1. client[c] \in {"open", "half", "gone"}
    BY <1>0 DEF TypeOK
  <2>2. Leaves(c)
    BY <1>0, <1>2, <2>1 DEF Leave, Leaves
  <2> QED BY <2>2 DEF StepKind
<1>3. CASE Respond(c)
  <2>1. Responds(c)
    BY <1>0, <1>3 DEF Respond, Responds
  <2> QED BY <2>1 DEF StepKind
<1>4. CASE Break(c)
  <2>1. /\ ses[c] \in Sessions /\ ses[c].flushing \in BOOLEAN
        /\ \A s \in {"eof", "reset"} :
             [ses[c] EXCEPT !.server = s]
               = [ses[c] EXCEPT !.server = s, !.flushing = ses[c].flushing]
    BY <1>0 DEF TypeOK, Sessions
  <2>2. /\ InSession(c) /\ pc'[c] = pc[c] /\ Alone(c) /\ SameRead(c) /\ SameOut(c)
        /\ \E s \in {"eof", "reset"} :
             /\ ses'[c] = [ses[c] EXCEPT !.server = s]
             /\ s = "reset" /\ "idle_reset" \notin Faults => ses[c].asked # <<>>
    BY <1>0, <1>4 DEF Break
  <2>3. Breaks(c)
    BY <2>1, <2>2 DEF Breaks
  <2> QED BY <2>3 DEF StepKind
<1> QED BY <1>1, <1>2, <1>3, <1>4

\* An answer to the request in hand.
LEMMA ReplyKind ==
  ASSUME IInv, NEW c \in Conn, pc[c] \in InHand,
         NEW what \in {"html", "200", "400", "404", "405", "500"},
         Answer(c, what, Req(c).id), Continue(c) \/ Close(c), Alone(c), next'[c] = next[c],
         Ends(c)
  PROVE  StepKind(c)
<1>0. TypeOK /\ ReadTyped /\ buf[c] # <<>>
  BY TypeParts DEF IInv, InHand, Local, ReadInHand, Holding
<1>1. Req(c).id \in 0 .. MaxSend
  BY <1>0, ReqTyped
<1>2. Replies(c)
  <2>1. pc'[c] \in {"read", "closed"} /\ buf'[c] = <<>>
    BY <1>0, Maps DEF Continue, Close, Goto
  <2>2. /\ wbuf'[c] = <<>>
        /\ client[c] # "gone" =>
             answers'[c] = answers[c] \o Append(wbuf[c], Entry(what, Req(c).id))
        /\ client[c] = "gone" => answers'[c] = answers[c]
    BY <1>0, Maps DEF Answer, Flush
  <2> QED BY <1>1, <2>1, <2>2 DEF Replies
<1> QED BY <1>2 DEF StepKind

\* The end of a connection without an answer.
LEMMA CloseKind ==
  ASSUME IInv, NEW c \in Conn, Drop(c), Close(c), Alone(c), next'[c] = next[c], Ends(c)
  PROVE  StepKind(c)
<1>0. TypeOK
  BY DEF IInv
<1>1. Closes(c)
  BY <1>0, Maps DEF Closes, Drop, Close, Goto
<1> QED BY <1>1 DEF StepKind

\* The task of a connection outside a session.
LEMMA LoopKind ==
  ASSUME IInv, NEW c \in Conn,
         ReadFirst(c) \/ ReadNext(c) \/ Serve(c) \/ DeleteServer(c) \/ Connect(c)
  PROVE  StepKind(c)
<1>0. TypeOK /\ Typed(c) /\ Local(c)
  BY TypedAt DEF IInv
<1>1. ASSUME ReadOrEnd(c), pc[c] \in {"start", "read"}, UNCHANGED <<input, ses, history>>
      PROVE  StepKind(c)
  <2>1. Alone(c) /\ Ends(c) /\ ses'[c] = ses[c]
    BY <1>1 DEF Alone, Ends, input, history
  <2>2. CASE Take(c) /\ ServeRead(c) /\ UNCHANGED output
    <3>1. Takes(c)
      BY <1>0, <1>1, <2>1, <2>2, Maps
      DEF Takes, Take, Reads, ServeRead, Goto, SameOut, output
    <3> QED BY <3>1 DEF StepKind
  <2>3. CASE /\ AllRead(c) /\ client[c] # "open" /\ Answer(c, "400", 0) /\ Close(c)
             /\ UNCHANGED next
    <3>1. pc'[c] = "closed" /\ buf'[c] = <<>> /\ 0 \in 0 .. MaxSend
      BY <1>0, <2>3, Maps, ConnectionAssumption DEF Close, Goto
    <3>2. /\ wbuf'[c] = <<>>
          /\ client[c] # "gone" => answers'[c] = answers[c] \o Append(wbuf[c], Entry("400", 0))
          /\ client[c] = "gone" => answers'[c] = answers[c]
      BY <1>0, <2>3, Maps DEF Answer, Flush
    <3>3. Replies(c)
      BY <1>1, <2>1, <2>3, <3>1, <3>2 DEF Replies
    <3> QED BY <3>3 DEF StepKind
  <2>4. CASE AllRead(c) /\ Drop(c) /\ Close(c) /\ UNCHANGED next
    BY <2>1, <2>4, CloseKind
  <2> QED BY <1>1, <2>2, <2>3, <2>4 DEF ReadOrEnd
<1>2. CASE ReadFirst(c)
  <2>1. CASE Take(c) /\ Goto(c, "closed") /\ UNCHANGED <<len, output>>
    <3>1. Takes(c)
      BY <1>0, <1>2, <2>1, Maps
      DEF ReadFirst, Takes, Take, Reads, Goto, SameOut, output, Alone, input, history
    <3> QED BY <3>1 DEF StepKind
  <2> QED BY <1>1, <1>2, <2>1 DEF ReadFirst
<1>3. CASE ReadNext(c)
  BY <1>1, <1>3 DEF ReadNext
<1>4. CASE Serve(c)
  <2>1. /\ pc[c] = "serve" /\ pc[c] \in InHand /\ Alone(c) /\ Ends(c)
        /\ ses'[c] = ses[c] /\ next'[c] = next[c]
    BY <1>4 DEF Serve, InHand, Alone, Ends, input, history
  <2>2. ASSUME NEW what \in {"html", "200", "400", "404", "405", "500"}, Reply(c, what)
        PROVE  StepKind(c)
    BY <2>1, <2>2, ReplyKind DEF Reply
  <2>3. ASSUME NEW label \in {"delete", "connect"}, Goto(c, label), UNCHANGED <<buf, len, output>>
        PROVE  StepKind(c)
    <3>1. Goes(c)
      BY <1>0, <2>1, <2>3, Maps DEF Goes, Goto, SameRead, SameOut, output
    <3> QED BY <3>1 DEF StepKind
  <2>4. CASE Unparsable(c)
    BY <2>1, <2>4, ReplyKind, CloseKind DEF Unparsable
  <2>5. CASE ServeBase(c)
    <3>1. CASE Continue(c) /\ UNCHANGED output
      <4>1. Skips(c)
        BY <1>0, <2>1, <3>1, Maps DEF Skips, Continue, Goto, SameOut, output
      <4> QED BY <4>1 DEF StepKind
    <3> QED BY <2>2, <2>3, <2>5, <3>1 DEF ServeBase
  <2>6. CASE Route(c)
    BY <2>2, <2>3, <2>6 DEF Route
  <2> QED BY <1>4, <2>4, <2>5, <2>6 DEF Serve
<1>5. CASE DeleteServer(c)
  BY <1>5, ReplyKind DEF DeleteServer, Reply, InHand, Alone, Ends, input, history
<1>6. CASE Connect(c)
  <2>1. pc[c] = "connect" /\ pc[c] \in InHand /\ next'[c] = next[c] /\ Req(c).to \in Site
    BY <1>0, <1>6 DEF Connect, InHand, Local, ReadInHand
  <2>2. CASE Forward(c, Req(c).to) /\ Goto(c, "pipe") /\ UNCHANGED <<buf, len, output>>
    <3>1. Forwards(c)
      <4>1. /\ pc'[c] = "pipe" /\ SameRead(c) /\ SameOut(c) /\ client'[c] = client[c]
            /\ stream'[c] = stream[c] /\ failed'[c] = failed[c]
        BY <1>0, <1>6, <2>2, Maps DEF Connect, Goto, SameRead, SameOut, input, output
      <4> QED BY <2>1, <2>2, <4>1 DEF Forwards
    <3> QED BY <3>1 DEF StepKind
  <2>3. ASSUME UNCHANGED <<ses, received>> PROVE Alone(c) /\ Ends(c)
    BY <1>6, <2>1, <2>3 DEF Connect, Alone, Ends, input
  <2>4. CASE Reply(c, "500") /\ UNCHANGED <<ses, received>>
    BY <2>1, <2>3, <2>4, ReplyKind DEF Reply
  <2>5. CASE Drop(c) /\ Close(c) /\ UNCHANGED <<ses, received>>
    BY <2>1, <2>3, <2>5, CloseKind
  <2> QED BY <1>6, <2>2, <2>4, <2>5 DEF Connect
<1> QED BY <1>2, <1>3, <1>4, <1>5, <1>6

\* client_fut.
LEMMA ClientFutKind ==
  ASSUME IInv, NEW c \in Conn, ClientFut(c)
  PROVE  StepKind(c)
<1>0. TypeOK /\ Typed(c) /\ Local(c) /\ UNCHANGED input
  BY TypedAt DEF IInv, ClientFut
<1>1. UNCHANGED history => Alone(c)
  BY <1>0 DEF Alone, input, history
<1>2. EndSession(c) => ses'[c] = NoSession /\ Ends(c)
  BY <1>0, Maps DEF EndSession, Ends
<1>3. Take(c) => Reads(c)
  BY <1>0, Maps DEF Take, Reads
<1>4. CASE PipeRead(c) \/ PipePanics(c) \/ PipeFavicon(c) \/ PipeSwitch(c)
  <2>1. Reads(c) /\ Alone(c) /\ pc[c] = "pipe"
    BY <1>1, <1>3, <1>4 DEF PipeRead, PipePanics, PipeFavicon, PipeSwitch, Reading
  <2>2. CASE PipeRead(c)
    BY <1>0, <2>1, <2>2, Maps DEF PipeRead, Goto, SameOut, output, Takes, StepKind
  <2>3. CASE PipePanics(c)
    BY <1>0, <1>2, <2>1, <2>3, Maps DEF PipePanics, Goto, Drop, Takes, StepKind
  <2>4. CASE PipeFavicon(c)
    <3>1. ses'[c] = [ses[c] EXCEPT !.ico = Append(ses[c].ico, buf'[c][1].id)]
      BY <1>0, <2>4, Maps DEF PipeFavicon
    <3>2. pc'[c] = "pipe" /\ buf'[c][1].to = "favicon" /\ SameOut(c)
      BY <2>1, <2>4 DEF PipeFavicon, SameOut, output
    <3> QED BY <2>1, <3>1, <3>2 DEF Takes, StepKind
  <2>5. CASE PipeSwitch(c)
    BY <1>0, <1>2, <2>1, <2>5, Maps
    DEF PipeSwitch, ServeRead, Goto, SameOut, output, Takes, StepKind
  <2> QED BY <1>4, <2>2, <2>3, <2>4, <2>5
<1>5. CASE PipeForward(c)
  <2>1. ses[c].site \in Site /\ pc[c] = "forward"
    BY <1>0, <1>5 DEF PipeForward, Local, ReadInHand, InSession
  <2>2. Forwards(c)
    <3>1. /\ pc'[c] = "pipe" /\ SameRead(c) /\ SameOut(c) /\ client'[c] = client[c]
          /\ stream'[c] = stream[c] /\ failed'[c] = failed[c]
      BY <1>0, <1>5, Maps DEF PipeForward, Goto, SameRead, SameOut, input, output
    <3> QED BY <1>5, <2>1, <3>1 DEF Forwards, PipeForward
  <2> QED BY <2>2 DEF StepKind
<1>6. CASE PipeForwardFails(c)
  BY <1>1, <1>2, <1>6, ReplyKind DEF PipeForwardFails, Reply, InHand
<1>7. CASE PipeClientEnds(c)
  BY <1>1, <1>2, <1>7, CloseKind DEF PipeClientEnds
<1> QED BY <1>4, <1>5, <1>6, <1>7 DEF ClientFut

\* server_fut.
LEMMA ServerFutKind ==
  ASSUME IInv, NEW c \in Conn, ServerFut(c)
  PROVE  StepKind(c)
<1>0. TypeOK /\ Typed(c) /\ Local(c) /\ UNCHANGED input /\ UNCHANGED next
  BY TypedAt DEF IInv, ServerFut
<1>1. CASE PipeAnswer(c)
  <2>1. /\ pc'[c] = pc[c] /\ Alone(c) /\ SameRead(c) /\ answers'[c] = answers[c]
        /\ InSession(c) /\ ~ses[c].flushing
    BY <1>0, <1>1 DEF PipeAnswer, Alone, SameRead, input, history
  <2>2. CASE /\ ses[c].resp # <<>>
             /\ ses' = [ses EXCEPT ![c].resp = Tail(@), ![c].flushing = TRUE]
             /\ wbuf' = [wbuf EXCEPT ![c] = Append(@, Entry("server", Head(ses[c].resp)))]
    <3>1. /\ ses'[c] = [ses[c] EXCEPT !.resp = Tail(ses[c].resp), !.flushing = TRUE]
          /\ wbuf'[c] = Append(wbuf[c], Entry("server", Head(ses[c].resp)))
      BY <1>0, <2>2, Maps
    <3> QED BY <2>1, <2>2, <3>1 DEF Writes, StepKind
  <2>3. CASE /\ ses[c].ico # <<>>
             /\ ses' = [ses EXCEPT ![c].ico = Tail(@), ![c].flushing = TRUE]
             /\ wbuf' = [wbuf EXCEPT ![c] = Append(@, Entry("icon", Head(ses[c].ico)))]
    <3>1. /\ ses'[c] = [ses[c] EXCEPT !.ico = Tail(ses[c].ico), !.flushing = TRUE]
          /\ wbuf'[c] = Append(wbuf[c], Entry("icon", Head(ses[c].ico)))
      BY <1>0, <2>3, Maps
    <3> QED BY <2>1, <2>3, <3>1 DEF Writes, StepKind
  <2> QED BY <1>1, <2>2, <2>3 DEF PipeAnswer
<1>2. CASE PipeFlush(c)
  <2>1. Flushes(c)
    BY <1>0, <1>2, Maps DEF PipeFlush, Flush, Flushes, Alone, SameRead, input, history
  <2> QED BY <2>1 DEF StepKind
<1>3. CASE PipeFlushFails(c)
  <2>1. Fails(c)
    BY <1>0, <1>3, Maps DEF PipeFlushFails, Fails, Drop, input
  <2> QED BY <2>1 DEF StepKind
<1>4. CASE PipeServerFails(c)
  <2>1. /\ pc'[c] = "read" /\ buf'[c] = <<>> /\ ses'[c] = NoSession /\ wbuf'[c] = <<>>
        /\ client[c] # "gone" =>
             answers'[c] = answers[c] \o Append(wbuf[c], Entry("500", Unanswered(c)))
        /\ client[c] = "gone" => answers'[c] = answers[c]
        /\ InSession(c) /\ ses[c].server = "reset"
    BY <1>0, <1>4, Maps DEF PipeServerFails, Answer, Flush, Continue, Goto, EndSession
  <2>2. Alone(c)
    BY <1>0, <1>4 DEF PipeServerFails, Alone, input, history
  <2>3. Unanswered(c) \in 0 .. MaxSend
    <3>1. CASE ses[c].asked # <<>>
      BY <1>0, <3>1, HeadTailProperties, ConnectionAssumption DEF Unanswered, Id, Typed, TypedSes
    <3>2. CASE ses[c].asked = <<>> /\ pc[c] = "forward"
      <4>1. ReadTyped /\ buf[c] # <<>>
        BY <1>0, <3>2, TypeParts DEF Local, ReadInHand, Holding
      <4> QED BY <3>2, <4>1, ReqTyped DEF Unanswered
    <3>3. CASE ses[c].asked = <<>> /\ pc[c] # "forward"
      BY <3>3, ConnectionAssumption DEF Unanswered
    <3> QED BY <3>1, <3>2, <3>3
  <2>4. Replies(c)
    BY <1>0, <2>1, <2>2, <2>3 DEF Replies, Ends
  <2> QED BY <2>4 DEF StepKind
<1>5. CASE PipeServerEnds(c)
  <2>1. /\ ses[c] \in Sessions /\ ses[c].server = "eof"
        /\ ses'[c] = [ses[c] EXCEPT !.flushing = TRUE]
    BY <1>0, <1>5, Maps DEF PipeServerEnds, TypeOK
  <2>2. ses'[c] = [ses[c] EXCEPT !.server = "eof", !.flushing = TRUE]
    BY <2>1 DEF Sessions
  <2>3. /\ InSession(c) /\ pc'[c] = pc[c] /\ Alone(c) /\ SameRead(c) /\ SameOut(c)
    BY <1>0, <1>5 DEF PipeServerEnds, Alone, SameRead, SameOut, input, output, history
  <2>4. Breaks(c)
    BY <2>2, <2>3 DEF Breaks
  <2> QED BY <2>4 DEF StepKind
<1> QED BY <1>1, <1>2, <1>3, <1>4, <1>5 DEF ServerFut

\* Every step of a connection is of one of the kinds.
LEMMA KindStep ==
  ASSUME IInv, NEW c \in Conn,
         Send(c) \/ Leave(c) \/ Respond(c) \/ Break(c) \/ Task(c)
  PROVE  StepKind(c)
BY OutsideKind, LoopKind, ClientFutKind, ServerFutKind DEF Task

-----------------------------------------------------------------------------
(***************************************************************************)
(* The numbers of what is read.                                            *)
(***************************************************************************)

\* What a read brings: requests numbered from the first not read yet.
LEMMA ReadsRun ==
  ASSUME IInv, NEW c \in Conn, Numbered(c), Reads(c)
  PROVE  /\ buf'[c] # <<>> /\ next'[c] \in Nat
         /\ next[c] < next'[c] /\ next'[c] <= Len(stream[c])
         /\ Len(buf'[c]) = next'[c] - next[c]
         /\ \A i \in DOMAIN buf'[c] :
              buf'[c][i] = stream[c][next[c] + i] /\ buf'[c][i].id = next[c] + i
         /\ buf'[c][1].id = next[c] + 1 /\ buf'[c][1] = stream[c][next[c] + 1]
         /\ Req(c)' = buf'[c][1]
<1>1. PICK n \in next[c] + 1 .. Len(stream[c]) :
        buf'[c] = SubSeq(stream[c], next[c] + 1, n) /\ next'[c] = n
  BY DEF Reads
<1>2. /\ stream[c] \in Seq(Requests) /\ next[c] \in Nat /\ Len(stream[c]) \in Nat
      /\ DOMAIN stream[c] = 1 .. Len(stream[c])
  BY TypedAt DEF Typed, TypedRead
<1> DEFINE s == SubSeq(stream[c], next[c] + 1, n)
<1>3. n \in Nat /\ \A i \in next[c] + 1 .. n : stream[c][i] \in Requests
  BY <1>1, <1>2, ElementOfSeq
<1>4. /\ s \in Seq(Requests) /\ Len(s) = n - next[c] /\ DOMAIN s = 1 .. n - next[c]
      /\ \A i \in 1 .. n - next[c] : s[i] = stream[c][next[c] + i]
  BY <1>1, <1>2, <1>3, SubSeqProperties
<1>5. \A i \in 1 .. n - next[c] : stream[c][next[c] + i].id = next[c] + i
  <2> SUFFICES ASSUME NEW i \in 1 .. n - next[c]
               PROVE  stream[c][next[c] + i].id = next[c] + i
    OBVIOUS
  <2>1. next[c] + i \in 1 .. Len(stream[c])
    BY <1>1, <1>2
  <2> QED BY <1>2, <2>1 DEF Numbered
<1>6. 1 \in 1 .. n - next[c] /\ n - next[c] # 0
  BY <1>1, <1>2, <1>3
<1>7. s # <<>>
  BY <1>4, <1>6, EmptySeq
<1>8. Head(s) = s[1]
  BY <1>4, <1>7, HeadTailProperties
<1> HIDE DEF s
<1>9. buf'[c] = s
  BY <1>1 DEF s
<1>a. next[c] < n /\ n <= Len(stream[c])
  BY <1>2, <1>3
<1>10. /\ next[c] < next'[c] /\ next'[c] <= Len(stream[c]) /\ next'[c] \in Nat
       /\ Len(buf'[c]) = next'[c] - next[c] /\ buf'[c] # <<>>
  BY <1>1, <1>3, <1>4, <1>7, <1>9, <1>a
<1>11. \A i \in DOMAIN buf'[c] :
         buf'[c][i] = stream[c][next[c] + i] /\ buf'[c][i].id = next[c] + i
  BY <1>4, <1>5, <1>9
<1>12. /\ buf'[c][1].id = next[c] + 1 /\ buf'[c][1] = stream[c][next[c] + 1]
       /\ Req(c)' = buf'[c][1]
  BY <1>4, <1>6, <1>8, <1>9, <1>11 DEF Req
<1> QED BY <1>10, <1>11, <1>12

\* Reads stay runs of numbered requests.
LEMMA NumberedStep ==
  ASSUME IInv, IInv', NEW c \in Conn, Numbered(c), StepKind(c)
  PROVE  Numbered(c)'
<1>0. TypedRead(c) /\ TypedRead(c)'
  BY TypedAt, TypedThen DEF Typed
<1>1. CASE Sends(c)
  <2>1. PICK r \in Requests :
          r.id = Len(stream[c]) + 1 /\ stream'[c] = Append(stream[c], r)
    BY <1>1 DEF Sends
  <2>2. \A i \in DOMAIN stream'[c] : stream'[c][i].id = i
    <3>1. stream[c] \in Seq(Requests)
      BY <1>0 DEF TypedRead
    <3>2. \A i \in DOMAIN stream[c] : stream[c][i].id = i
      BY DEF Numbered
    <3> QED BY <2>1, <3>1, <3>2, Behind
  <2>3. client[c] # "gone" /\ ~Cut(c)
    BY <1>1 DEF Sends, Cut
  <2> QED BY <1>1, <2>2, <2>3 DEF Sends, SameRead, Numbered
<1>2. CASE Leaves(c)
  <2>1. client[c] # "gone" /\ ~Cut(c)
    BY <1>2 DEF Leaves, Cut
  <2>2. next[c] <= next'[c] /\ (next'[c] = next[c] \/ Cut(c)') /\ next'[c] \in Nat
    BY <1>0, <1>2 DEF Leaves, Cut, TypedRead
  <2>3. buf'[c] = buf[c] /\ stream'[c] = stream[c] /\ failed'[c] = failed[c]
    BY <1>2 DEF Leaves
  <2>4. ASSUME buf[c] # <<>> PROVE buf[c][1].id \in Nat /\ Len(buf[c]) \in Nat
    BY <2>4, TypedAt DEF Typed, TypedHand
  <2>5. next[c] \in Nat
    BY <1>0 DEF TypedRead
  <2> QED BY <2>1, <2>2, <2>3, <2>4, <2>5 DEF Numbered
<1>3. CASE Takes(c)
  <2>1. /\ Reads(c) /\ stream'[c] = stream[c] /\ failed'[c] = failed[c]
        /\ client'[c] = client[c]
    BY <1>3 DEF Takes, Alone
  <2>2. next[c] \in Nat /\ next'[c] \in Nat /\ DOMAIN buf'[c] = 1 .. Len(buf'[c])
    BY <1>0 DEF TypedRead
  <2>0. /\ buf'[c][1].id = next[c] + 1 /\ Len(buf'[c]) = next'[c] - next[c]
        /\ \A i \in DOMAIN buf'[c] : buf'[c][i].id = next[c] + i
    BY <2>1, ReadsRun
  <2>3. ASSUME NEW i \in DOMAIN buf'[c] PROVE buf'[c][i].id = buf'[c][1].id + i - 1
    <3>1. buf'[c][i].id = next[c] + i /\ i \in Nat
      BY <2>0, <2>2
    <3> QED BY <2>0, <2>2, <3>1
  <2>4. buf'[c][1].id + Len(buf'[c]) - 1 = next'[c]
    BY <2>0, <2>2
  <2> QED BY <2>1, <2>2, <2>3, <2>4 DEF Numbered
<1>4. CASE Skips(c) \/ Closes(c) \/ Replies(c)
  BY <1>4 DEF Skips, Closes, Replies, Alone, Numbered
<1>5. CASE Responds(c) \/ Breaks(c) \/ Goes(c) \/ Forwards(c) \/ Writes(c) \/ Flushes(c)
  BY <1>5 DEF Responds, Breaks, Goes, Forwards, Writes, Flushes, Alone, SameRead,
              Numbered, Cut
<1>6. CASE Fails(c)
  BY <1>6 DEF Fails, Numbered
<1> QED BY <1>1, <1>2, <1>3, <1>4, <1>5, <1>6 DEF StepKind

\* The mark is not beyond what was read.
LEMMA MarkRead ==
  ASSUME IInv, NEW c \in Conn, Numbered(c)
  PROVE  /\ Mark(c) \in Nat /\ next[c] \in Nat
         /\ ~failed[c] => Mark(c) <= next[c]
         /\ pc[c] \notin InHand => Mark(c) = next[c]
         /\ pc[c] \in InHand => Mark(c) = buf[c][1].id - 1 /\ buf[c][1].id \in Nat \ {0}
<1>1. next[c] \in Nat /\ TypedHand(c)
  BY TypedAt DEF Typed, TypedRead
<1>2. CASE pc[c] \in InHand
  <2>1. buf[c] # <<>> /\ Req(c) = buf[c][1] /\ Len(buf[c]) \in Nat \ {0}
        /\ Req(c).id \in Nat \ {0}
    BY <1>1, <1>2 DEF TypedHand
  <2>2. ~failed[c] => Req(c).id <= next[c]
    BY <1>1, <2>1 DEF Numbered
  <2> QED BY <1>1, <1>2, <2>1, <2>2 DEF Mark
<1>3. CASE pc[c] \notin InHand
  BY <1>1, <1>3 DEF Mark
<1> QED BY <1>2, <1>3

\* The mark moves on.
LEMMA MarkMoves ==
  ASSUME IInv, IInv', NEW c \in Conn, Numbered(c), StepKind(c), ~failed'[c]
  PROVE  Mark(c)' \in Nat /\ Mark(c) <= Mark(c)' /\ ~failed[c]
<1>1. ~failed[c] /\ ~Fails(c)
  BY DEF StepKind, Sends, Leaves, Responds, Breaks, Takes, Skips, Closes, Replies,
         Goes, Forwards, Writes, Flushes, Fails, Alone
<1>2. /\ Mark(c) \in Nat /\ Mark(c) <= next[c] /\ (pc[c] \notin InHand => Mark(c) = next[c])
      /\ next[c] \in Nat /\ next'[c] \in Nat
  BY <1>1, MarkRead, TypedThen DEF Typed, TypedRead
<1>3. Mark(c)' = IF pc'[c] \in InHand THEN Req(c)'.id - 1 ELSE next'[c]
  BY DEF Mark
<1>4. pc'[c] \in InHand => Req(c)'.id \in Nat \ {0}
  BY TypedThen DEF Typed, TypedHand
<1>5. Mark(c)' \in Nat
  BY <1>2, <1>3, <1>4
<1>6. Mark(c) <= Mark(c)'
  <2>1. CASE Sends(c) \/ Responds(c) \/ Breaks(c) \/ Writes(c) \/ Flushes(c)
    <3>1. pc'[c] = pc[c] /\ next'[c] = next[c] /\ buf'[c] = buf[c]
      BY <2>1 DEF Sends, Responds, Breaks, Writes, Flushes, SameRead
    <3> QED BY <1>2, <3>1 DEF Mark, Req
  <2>2. CASE Leaves(c)
    <3>1. pc'[c] = pc[c] /\ buf'[c] = buf[c] /\ next[c] <= next'[c]
      BY <1>2, <2>2, TypedAt DEF Leaves, Typed, TypedRead
    <3>2. Req(c)' = Req(c)
      BY <3>1 DEF Req
    <3>3. CASE pc[c] \in InHand
      BY <1>2, <3>1, <3>2, <3>3 DEF Mark
    <3>4. CASE pc[c] \notin InHand
      BY <1>2, <1>3, <3>1, <3>4
    <3> QED BY <3>3, <3>4
  <2>3. CASE Takes(c)
    <3>1. Reads(c) /\ pc[c] \notin InHand
      BY <2>3 DEF Takes, InHand
    <3>2. Req(c)'.id = next[c] + 1 /\ next[c] < next'[c]
      BY <3>1, ReadsRun
    <3> QED BY <1>2, <1>3, <3>1, <3>2
  <2>4. CASE Skips(c) \/ Closes(c) \/ Replies(c) \/ Forwards(c)
    <3>1. next'[c] = next[c] /\ pc'[c] \notin InHand
      BY <2>4 DEF Skips, Closes, Replies, Forwards, InHand, SameRead
    <3> QED BY <1>2, <1>3, <3>1
  <2>5. CASE Goes(c)
    <3>1. pc[c] \in InHand /\ pc'[c] \in InHand /\ Req(c)' = Req(c)
      BY <2>5 DEF Goes, InHand, SameRead, Req
    <3> QED BY <1>2, <3>1 DEF Mark
  <2> QED BY <1>1, <2>1, <2>2, <2>3, <2>4, <2>5 DEF StepKind
<1> QED BY <1>1, <1>5, <1>6

-----------------------------------------------------------------------------
(***************************************************************************)
(* What servers receive.                                                   *)
(***************************************************************************)

\* What was sent stays as it is.
LEMMA StreamStays ==
  ASSUME IInv, NEW c \in Conn, StepKind(c)
  PROVE  \A i \in 1 .. Len(stream[c]) : stream'[c][i] = stream[c][i]
<1>1. CASE Sends(c)
  <2>1. stream[c] \in Seq(Requests)
    BY TypedAt DEF Typed, TypedRead
  <2> QED BY <1>1, <2>1, Behind DEF Sends
<1>2. CASE ~Sends(c)
  BY <1>2 DEF StepKind, Leaves, Responds, Breaks, Takes, Skips, Closes, Replies, Goes,
              Forwards, Writes, Flushes, Fails, Alone
<1> QED BY <1>1, <1>2

\* The numbers of what was received.
LEMMA ReceivedIds ==
  ASSUME IInv, NEW c \in Conn
  PROVE  /\ received[c] \in Seq(Receipts) /\ Len(received[c]) \in Nat
         /\ DOMAIN received[c] = 1 .. Len(received[c])
         /\ \A i \in DOMAIN received[c] : received[c][i].id \in Nat \ {0}
<1>1. received[c] \in Seq(Receipts)
  BY TypedAt DEF Typed
<1>2. \A i \in DOMAIN received[c] : received[c][i] \in Receipts
  BY <1>1, LenProperties, ElementOfSeq
<1> QED BY <1>1, <1>2, LenProperties DEF Receipts, Id

\* A receipt stays as it should be while the reading goes on.
LEMMA ReceiptStays ==
  ASSUME IInv, IInv', NEW c \in Conn, Numbered(c), StepKind(c), ~failed'[c],
         NEW i \in DOMAIN received[c], Receipt(c, i), i > 1 => i - 1 \in DOMAIN received[c],
         NEW q, q[i] = received[c][i], i > 1 => q[i - 1] = received[c][i - 1]
  PROVE  /\ i <= q[i].id /\ q[i].id <= Mark(c)'
         /\ ~q[i].opens =>
              /\ i > 1 /\ q[i - 1].id < q[i].id
              /\ q[i].id = q[i - 1].id + 1 \/ stream'[c][q[i - 1].id + 1].to = "favicon"
<1>1. /\ Mark(c) \in Nat /\ Mark(c)' \in Nat /\ Mark(c) <= Mark(c)'
      /\ Mark(c) <= next[c] /\ next[c] \in Nat
  BY MarkMoves, MarkRead
<1>2. Len(stream[c]) \in Nat /\ next[c] <= Len(stream[c])
  BY TypedAt DEF Typed, TypedRead
<1>3. i \in Nat /\ received[c][i].id \in Nat
  BY ReceivedIds
<1>4. i <= q[i].id /\ q[i].id <= Mark(c)'
  BY <1>1, <1>3 DEF Receipt
<1>5. ASSUME ~q[i].opens
      PROVE  /\ i > 1 /\ q[i - 1].id < q[i].id
             /\ q[i].id = q[i - 1].id + 1 \/ stream'[c][q[i - 1].id + 1].to = "favicon"
  <2>1. i > 1 /\ q[i - 1].id < q[i].id /\ Follows(c, q[i - 1].id, q[i].id)
    BY <1>5 DEF Receipt
  <2>2. q[i - 1].id \in Nat \ {0}
    BY <2>1, ReceivedIds
  <2>3. q[i - 1].id + 1 \in 1 .. Len(stream[c])
    BY <1>1, <1>2, <1>3, <2>1, <2>2 DEF Receipt
  <2>4. stream'[c][q[i - 1].id + 1] = stream[c][q[i - 1].id + 1]
    BY <2>3, StreamStays
  <2> QED BY <2>1, <2>4 DEF Follows
<1> QED BY <1>4, <1>5

\* A step that forwards nothing keeps what was delivered as it should be.
LEMMA DeliveredKeeps ==
  ASSUME IInv, IInv', NEW c \in Conn, Numbered(c), StepKind(c), Delivered(c),
         received'[c] = received[c], ~failed'[c] /\ InSession(c)' => Linked(c)'
  PROVE  Delivered(c)'
<1> SUFFICES ASSUME ~failed'[c] PROVE Delivered(c)'
  BY DEF Delivered
<1>1. InOrder(c) /\ \A i \in DOMAIN received[c] : Receipt(c, i)
  BY MarkMoves DEF Delivered
<1>2. InOrder(c)'
  BY <1>1 DEF InOrder
<1>3. ASSUME NEW i \in DOMAIN received[c] PROVE Receipt(c, i)'
  <2>1. i > 1 => i - 1 \in DOMAIN received[c]
    BY ReceivedIds
  <2> QED BY <1>1, <2>1, ReceiptStays DEF Receipt, Follows
<1> QED BY <1>2, <1>3 DEF Delivered

\* A session whose reading goes on, or not.
LEMMA LinkedStays ==
  ASSUME IInv, IInv', NEW c \in Conn, Numbered(c), Delivered(c), ~failed'[c],
         StepKind(c), received'[c] = received[c], InSession(c)', ~Forwards(c)
  PROVE  Linked(c)'
<1>0. /\ ~failed[c] /\ Mark(c) \in Nat /\ Mark(c)' \in Nat /\ Mark(c) <= Mark(c)'
      /\ Mark(c) <= next[c] /\ next[c] \in Nat
  BY MarkMoves, MarkRead
<1>1. Len(stream[c]) \in Nat /\ next[c] <= Len(stream[c])
  BY TypedAt DEF Typed, TypedRead
<1>2. InSession(c) /\ ~Skips(c) /\ ~Closes(c) /\ ~Replies(c) /\ ~Goes(c) /\ ~Fails(c)
  BY DEF StepKind, InSession, Sends, Leaves, Responds, Breaks, Takes, Skips, Closes,
         Replies, Goes, Writes, Flushes, Fails
<1>3. received[c] # <<>> /\ Linked(c)
  BY <1>0, <1>2 DEF Delivered, Linked
<1> DEFINE last == received[c][Len(received[c])].id
<1>4. last \in Nat \ {0}
  BY <1>3, ReceivedIds, EmptySeq
<1>5. \/ pc[c] = "pipe" /\ Cut(c)
      \/ last = Mark(c)
      \/ last < Mark(c) /\ stream[c][last + 1].to = "favicon"
  BY <1>3 DEF Linked
<1>6. last < Mark(c) /\ stream[c][last + 1].to = "favicon"
        => last < Mark(c)' /\ stream'[c][last + 1].to = "favicon"
  <2> SUFFICES ASSUME last < Mark(c), stream[c][last + 1].to = "favicon"
               PROVE  last < Mark(c)' /\ stream'[c][last + 1].to = "favicon"
    OBVIOUS
  <2>1. last + 1 \in 1 .. Len(stream[c])
    BY <1>0, <1>1, <1>4
  <2> HIDE DEF last
  <2> QED BY <1>0, <1>4, <2>1, StreamStays
<1> SUFFICES \/ pc'[c] = "pipe" /\ Cut(c)'
             \/ last = Mark(c)'
             \/ last < Mark(c)' /\ stream'[c][last + 1].to = "favicon"
  BY <1>3 DEF Linked
<1> HIDE DEF last
<1>7. CASE Sends(c)
  <2>1. ~Cut(c) /\ Mark(c)' = Mark(c)
    BY <1>7 DEF Sends, Cut, Mark, SameRead, Req
  <2> QED BY <1>5, <1>6, <2>1
<1>8. CASE Leaves(c)
  <2>1. ~Cut(c) /\ pc'[c] = pc[c] /\ buf'[c] = buf[c] /\ stream'[c] = stream[c]
    BY <1>8 DEF Leaves, Cut
  <2>2. CASE pc[c] = "forward" \/ next'[c] = next[c]
    <3>1. Mark(c)' = Mark(c)
      BY <2>1, <2>2 DEF Mark, Req, InHand
    <3> QED BY <1>5, <1>6, <2>1, <3>1
  <2>3. CASE pc[c] # "forward" /\ next'[c] # next[c]
    BY <1>2, <1>8, <2>1, <2>3 DEF Leaves, Cut, InSession
  <2> QED BY <2>2, <2>3
<1>9. CASE Responds(c) \/ Breaks(c) \/ Writes(c) \/ Flushes(c)
  <2>1. /\ pc'[c] = pc[c] /\ next'[c] = next[c] /\ buf'[c] = buf[c]
        /\ stream'[c] = stream[c] /\ client'[c] = client[c]
    BY <1>9 DEF Responds, Breaks, Writes, Flushes, SameRead, Alone
  <2>2. Mark(c)' = Mark(c) /\ (Cut(c) => Cut(c)')
    BY <2>1 DEF Mark, Req, Cut
  <2> QED BY <1>5, <1>6, <2>1, <2>2
<1>10. CASE Takes(c)
  <2>1. /\ Reads(c) /\ pc[c] = "pipe" /\ stream'[c] = stream[c]
        /\ \/ pc'[c] = "forward"
           \/ pc'[c] = "pipe" /\ buf'[c][1].to = "favicon"
    BY <1>2, <1>10 DEF Takes, Alone, InSession
  <2>2. /\ next[c] < next'[c] /\ next'[c] <= Len(stream[c]) /\ next'[c] \in Nat
        /\ buf'[c][1] = stream[c][next[c] + 1] /\ Req(c)'.id = next[c] + 1
    BY <2>1, ReadsRun
  <2>3. ~Cut(c) /\ Mark(c) = next[c]
    BY <1>0, <1>1, <2>1, <2>2 DEF Cut, Mark, InHand
  <2>4. CASE pc'[c] = "forward"
    <3>1. Mark(c)' = next[c]
      BY <1>0, <2>2, <2>4 DEF Mark, InHand
    <3> QED BY <1>5, <1>6, <2>3, <3>1
  <2>5. CASE pc'[c] = "pipe" /\ buf'[c][1].to = "favicon"
    <3>1. Mark(c)' = next'[c]
      BY <2>5 DEF Mark, InHand
    <3> QED BY <1>5, <1>6, <2>1, <2>2, <2>3, <2>5, <3>1
  <2> QED BY <2>1, <2>4, <2>5
<1> QED BY <1>2, <1>7, <1>8, <1>9, <1>10 DEF StepKind

\* What is forwarded comes next and follows what was received.
LEMMA ForwardsDelivered ==
  ASSUME IInv, IInv', NEW c \in Conn, Numbered(c), StepKind(c), Delivered(c),
         Forwards(c), ~failed'[c]
  PROVE  Delivered(c)'
<1>0. /\ ~failed[c] /\ Mark(c) \in Nat /\ Mark(c)' \in Nat /\ Mark(c) <= Mark(c)'
      /\ pc[c] \in InHand /\ pc'[c] = "pipe" /\ next[c] \in Nat
      /\ stream'[c] = stream[c] /\ SameRead(c) /\ client'[c] = client[c]
  BY MarkMoves, MarkRead DEF Forwards, InHand
<1>1. /\ buf[c] # <<>> /\ DOMAIN buf[c] = 1 .. Len(buf[c]) /\ Len(buf[c]) \in Nat \ {0}
      /\ next[c] <= MaxSend /\ MaxSend \in Nat
  BY <1>0, TypedAt DEF Typed, TypedRead, TypedHand
<1> DEFINE r == received[c]
<1>a. PICK n \in Nat, m \in Nat \ {0} : n = Len(received[c]) /\ m = Len(buf[c])
  BY <1>1, ReceivedIds
<1>2. /\ r \in Seq(Receipts) /\ n \in Nat /\ DOMAIN r = 1 .. n
      /\ \A i \in 1 .. n : r[i].id \in Nat \ {0} /\ Receipt(c, i)
      /\ InOrder(c)
  BY <1>0, <1>a, ReceivedIds DEF Delivered
<1>3. Mark(c) = buf[c][1].id - 1 /\ buf[c][1].id \in Nat \ {0} /\ Mark(c) <= next[c]
  BY <1>0, MarkRead
<1>4. /\ \A i \in 1 .. m : buf[c][i].id = Mark(c) + i
      /\ Mark(c) + m <= next[c] /\ (Cut(c) \/ Mark(c) + m = next[c])
  <2>1. /\ \A i \in 1 .. m : buf[c][i].id = buf[c][1].id + i - 1
        /\ buf[c][1].id + m - 1 <= next[c]
        /\ Cut(c) \/ buf[c][1].id + m - 1 = next[c]
    BY <1>0, <1>1, <1>a DEF Numbered
  <2>2. buf[c][1].id = Mark(c) + 1
    BY <1>0, <1>3
  <2> QED BY <1>0, <1>1, <2>1, <2>2
<1>5. n <= Mark(c)
  <2>1. CASE n = 0
    BY <1>0, <2>1
  <2>2. CASE n # 0
    <3>1. n \in 1 .. n
      BY <1>2, <2>2
    <3>2. n <= r[n].id /\ r[n].id <= Mark(c) /\ r[n].id \in Nat
      BY <1>2, <3>1 DEF Receipt
    <3> QED BY <1>0, <1>2, <3>2
  <2> QED BY <2>1, <2>2
<1>6. PICK s \in Site : Forward(c, s)
  BY DEF Forwards
<1> DEFINE new == [i \in DOMAIN buf[c] |->
                    [id |-> buf[c][i].id, to |-> buf[c][i].to, site |-> s,
                     leads |-> i = 1, opens |-> i = 1 /\ pc[c] = "connect",
                     late |-> buf[c][i].late]]
<1>7. received'[c] = r \o new
  <2>1. ~(Len(received[c]) > MaxSend)
    BY <1>0, <1>1, <1>a, <1>3, <1>5
  <2>2. TypeOK
    BY DEF IInv
  <2> QED BY <1>6, <2>1, <2>2, Maps DEF Forward
<1>8. /\ \A i \in 1 .. m : new[i].id = buf[c][i].id /\ (new[i].opens <=> i = 1 /\ pc[c] = "connect")
      /\ new \in [1 .. m -> Receipts]
  <2>1. \A i \in 1 .. m : buf[c][i] \in Requests
    BY <1>1, <1>a, TypedAt, ElementOfSeq DEF Typed, TypedRead
  <2> QED BY <1>1, <1>a, <2>1 DEF Receipts, Requests
<1>9. new \in Seq(Receipts) /\ Len(new) = m
  BY <1>8, FunctionIsSeq
<1> HIDE DEF new
<1>10. /\ Len(received'[c]) = n + m /\ DOMAIN received'[c] = 1 .. n + m
       /\ \A i \in 1 .. n : received'[c][i] = r[i]
       /\ \A i \in n + 1 .. n + m : received'[c][i] = new[i - n]
  <2>0. r \in Seq(Receipts) /\ Len(r) = n
    BY <1>2, <1>a
  <2>1. /\ Len(r \o new) = n + m
        /\ \A i \in 1 .. n + m : (r \o new)[i] = IF i <= n THEN r[i] ELSE new[i - n]
    <3> HIDE DEF r
    <3> QED BY <2>0, <1>9, ConcatProperties
  <2>2. r \o new \in Seq(Receipts) /\ DOMAIN (r \o new) = 1 .. n + m
    BY <1>2, <1>9, <2>1, ConcatProperties, LenProperties
  <2>3. \A i \in n + 1 .. n + m : i \in 1 .. n + m /\ ~(i <= n)
    BY <1>1, <1>2
  <2>4. \A i \in 1 .. n : i \in 1 .. n + m /\ i <= n
    BY <1>1, <1>2
  <2> QED BY <1>7, <2>1, <2>2, <2>3, <2>4
<1>11. \A i \in n + 1 .. n + m :
         /\ received'[c][i].id = Mark(c) + (i - n)
         /\ received'[c][i].opens <=> i = n + 1 /\ pc[c] = "connect"
  <2> SUFFICES ASSUME NEW i \in n + 1 .. n + m
               PROVE  /\ received'[c][i].id = Mark(c) + (i - n)
                      /\ received'[c][i].opens <=> i = n + 1 /\ pc[c] = "connect"
    OBVIOUS
  <2>1. i - n \in 1 .. m /\ (i - n = 1 <=> i = n + 1)
    BY <1>1, <1>2
  <2> QED BY <1>4, <1>8, <1>10, <2>1
<1>12. Mark(c)' = next[c]
  BY <1>0 DEF Mark, InHand, SameRead
<1>13. InOrder(c)'
  <2> SUFFICES ASSUME NEW i \in 1 .. n + m, NEW j \in 1 .. n + m, i < j
               PROVE  received'[c][i].id < received'[c][j].id
    BY <1>10 DEF InOrder
  <2>1. CASE j <= n
    <3>1. i \in 1 .. n /\ j \in 1 .. n
      BY <1>1, <1>2, <2>1
    <3> QED BY <1>2, <1>10, <3>1 DEF InOrder
  <2>2. CASE i <= n /\ ~(j <= n)
    <3>1. i \in 1 .. n /\ j \in n + 1 .. n + m
      BY <1>1, <1>2, <2>2
    <3>2. r[i].id <= Mark(c) /\ r[i].id \in Nat
      BY <1>2, <3>1 DEF Receipt
    <3>3. received'[c][j].id = Mark(c) + (j - n) /\ j - n \in 1 .. m
      BY <1>11, <3>1
    <3>4. received'[c][i].id = r[i].id
      BY <1>10, <3>1
    <3> QED BY <1>0, <3>2, <3>3, <3>4
  <2>3. CASE ~(i <= n)
    <3>1. i \in n + 1 .. n + m /\ j \in n + 1 .. n + m
      BY <1>1, <1>2, <2>3
    <3> QED BY <1>0, <1>2, <1>11, <3>1
  <2> QED BY <2>1, <2>2, <2>3
<1>14. ASSUME NEW i \in 1 .. n + m PROVE Receipt(c, i)'
  <2>1. CASE i <= n
    <3>1. i \in DOMAIN received[c] /\ (i > 1 => i - 1 \in DOMAIN received[c])
      BY <1>1, <1>2, <2>1
    <3>2. received'[c][i] = received[c][i] /\ (i > 1 => received'[c][i - 1] = received[c][i - 1])
      BY <1>2, <1>10, <3>1
    <3> QED BY <1>2, <3>1, <3>2, ReceiptStays DEF Receipt, Follows
  <2>2. CASE ~(i <= n)
    <3>0. n \in Nat /\ m \in Nat /\ i \in Nat /\ n + 1 <= i /\ i <= n + m
      BY <1>1, <1>2, <2>2
    <3>1. i \in n + 1 .. n + m /\ received'[c][i].id = Mark(c) + (i - n)
      BY <1>1, <1>2, <1>11, <2>2
    <3>2. i <= received'[c][i].id /\ received'[c][i].id <= Mark(c)'
      BY <1>0, <1>1, <1>2, <1>4, <1>5, <1>12, <3>1
    <3>3. ASSUME ~received'[c][i].opens
          PROVE  /\ i > 1 /\ received'[c][i - 1].id < received'[c][i].id
                 /\ \/ received'[c][i].id = received'[c][i - 1].id + 1
                    \/ stream'[c][received'[c][i - 1].id + 1].to = "favicon"
      <4>1. CASE i = n + 1
        <5>1. pc[c] = "forward"
          BY <1>0, <1>11, <3>1, <3>3, <4>1 DEF Forwards
        <5>2. Linked(c) /\ ~(pc[c] = "pipe")
          BY <1>0, <5>1 DEF Delivered, InSession
        <5>3. n # 0 /\ n \in 1 .. n
          BY <1>2, <1>a, <5>2, EmptySeq DEF Linked
        <5>4. r[n].id = Mark(c) \/ (r[n].id < Mark(c) /\ stream[c][r[n].id + 1].to = "favicon")
          BY <1>a, <5>2 DEF Linked
        <5>a. i - 1 = n /\ i - n = 1 /\ i > 1
          BY <3>0, <4>1, <5>3
        <5>5. received'[c][i - 1] = r[n] /\ r[n].id \in Nat
              /\ received'[c][i].id = Mark(c) + 1
          BY <1>2, <1>10, <3>1, <5>3, <5>a
        <5>6. i > 1 /\ received'[c][i - 1].id < received'[c][i].id
          BY <1>0, <5>4, <5>5, <5>a
        <5>7. \/ received'[c][i].id = received'[c][i - 1].id + 1
              \/ stream'[c][received'[c][i - 1].id + 1].to = "favicon"
          BY <1>0, <5>4, <5>5
        <5> QED BY <5>6, <5>7
      <4>2. CASE i # n + 1
        <5>1. i - 1 \in n + 1 .. n + m /\ i > 1
          BY <3>0, <4>2
        <5>2. /\ received'[c][i - 1].id = Mark(c) + (i - 1 - n)
              /\ received'[c][i].id = Mark(c) + (i - n)
          BY <1>11, <3>1, <5>1
        <5>a. /\ Mark(c) + (i - n) = Mark(c) + (i - 1 - n) + 1
              /\ Mark(c) + (i - 1 - n) < Mark(c) + (i - n)
          BY <1>0, <3>0
        <5>3. /\ received'[c][i].id = received'[c][i - 1].id + 1
              /\ received'[c][i - 1].id < received'[c][i].id
          BY <5>2, <5>a
        <5> QED BY <5>1, <5>3
      <4> QED BY <4>1, <4>2
    <3> QED BY <3>2, <3>3 DEF Receipt, Follows
  <2> QED BY <2>1, <2>2
<1>15. Linked(c)'
  <2>1. n + m \in n + 1 .. n + m /\ n + m # 0
    BY <1>1, <1>2
  <2>2. received'[c][n + m].id = Mark(c) + m
    BY <1>1, <1>2, <1>11, <2>1
  <2>3. received'[c] # <<>>
    BY <1>10, <2>1, EmptySeq
  <2>4. Cut(c)' \/ received'[c][n + m].id = Mark(c)'
    BY <1>0, <1>4, <1>12, <2>2 DEF Cut, SameRead
  <2> QED BY <1>0, <1>10, <2>3, <2>4 DEF Linked
<1> QED BY <1>10, <1>13, <1>14, <1>15 DEF Delivered

\* What was delivered stays as it should be.
LEMMA DeliveredStep ==
  ASSUME IInv, IInv', NEW c \in Conn, Numbered(c), StepKind(c), Delivered(c)
  PROVE  Delivered(c)'
<1> SUFFICES ASSUME ~failed'[c] PROVE Delivered(c)'
  BY DEF Delivered
<1>1. CASE Forwards(c)
  BY <1>1, ForwardsDelivered
<1>2. CASE ~Forwards(c)
  <2>1. received'[c] = received[c]
    BY <1>2 DEF StepKind, Sends, Leaves, Responds, Breaks, Takes, Skips, Closes, Replies,
                Goes, Writes, Flushes, Fails, Alone
  <2> QED BY <1>2, <2>1, LinkedStays, DeliveredKeeps
<1> QED BY <1>1, <1>2


-----------------------------------------------------------------------------
(***************************************************************************)
(* The order of answers.                                                   *)
(***************************************************************************)

\* The numbers in answers and in what is to be answered.
LEMMA AnswerNumbers ==
  ASSUME NEW out \in Seq(Answers), NEW owed \in Seq(Id), NEW ico \in Seq(Id)
  PROVE  /\ \A i \in DOMAIN out : out[i] \in Answers /\ out[i].re \in Nat
         /\ \A i \in DOMAIN owed : owed[i] \in Id /\ owed[i] \in Nat \ {0}
         /\ \A i \in DOMAIN ico : ico[i] \in Id /\ ico[i] \in Nat \ {0}
<1>1. /\ \A i \in DOMAIN out : out[i] \in Answers
      /\ \A i \in DOMAIN owed : owed[i] \in Id
      /\ \A i \in DOMAIN ico : ico[i] \in Id
  BY LenProperties, ElementOfSeq
<1>2. MaxSend \in Nat
  BY ConnectionAssumption
<1> QED BY <1>1, <1>2 DEF Answers, Id

\* The turn of an answer that is no favicon's depends on its number only.
LEMMA BeforeAny ==
  ASSUME NEW a, NEW what, NEW other, what # "icon", other # "icon", NEW re,
         Before(a, Entry(what, re))
  PROVE  Before(a, Entry(other, re))
BY DEF Before, Entry

\* An answer in its turn.
LEMMA GoodAppend ==
  ASSUME NEW q \in Seq(Answers), NEW e \in Answers, Good(q),
         \A i \in DOMAIN q : Before(q[i], e)
  PROVE  Good(Append(q, e))
<1>1. PICK n \in Nat :
        /\ DOMAIN q = 1 .. n /\ DOMAIN Append(q, e) = 1 .. n + 1
        /\ \A i \in 1 .. n : Append(q, e)[i] = q[i]
        /\ Append(q, e)[n + 1] = e
  BY Behind
<1> SUFFICES ASSUME NEW i \in 1 .. n + 1, NEW j \in 1 .. n + 1, i < j
             PROVE  Before(Append(q, e)[i], Append(q, e)[j])
  BY <1>1 DEF Good
<1>2. i \in 1 .. n /\ (j \in 1 .. n \/ j = n + 1)
  BY <1>1
<1> QED BY <1>1, <1>2 DEF Good

\* The mark may move on, and a session may end.
LEMMA OrderlyMoves ==
  ASSUME NEW out \in Seq(Answers), NEW owed \in Seq(Id), NEW ico \in Seq(Id),
         NEW mark \in Nat, NEW then \in Nat, mark <= then,
         Orderly(out, owed, ico, mark)
  PROVE  Orderly(out, owed, ico, then) /\ Orderly(out, <<>>, <<>>, then)
<1>1. /\ \A i \in DOMAIN out : out[i].re <= then
      /\ \A j \in DOMAIN owed : owed[j] <= then
      /\ \A j \in DOMAIN ico : ico[j] <= then
  BY AnswerNumbers DEF Orderly
<1>2. Orderly(out, owed, ico, then)
  BY <1>1 DEF Orderly
<1>3. DOMAIN <<>> = {}
  OBVIOUS
<1>4. Orderly(out, <<>>, <<>>, then)
  <2>1. Good(out) /\ \A i \in DOMAIN out : out[i].re <= then
    BY <1>1 DEF Orderly
  <2> QED BY <1>3, <2>1 DEF Orderly, Rising, Distinct
<1> QED BY <1>2, <1>4

\* A favicon request that was just read.
LEMMA OrderlyFavicon ==
  ASSUME NEW out \in Seq(Answers), NEW owed \in Seq(Id), NEW ico \in Seq(Id),
         NEW mark \in Nat, NEW then \in Nat, Orderly(out, owed, ico, mark),
         NEW k \in Id, mark < k, k <= then
  PROVE  Orderly(out, owed, Append(ico, k), then)
<1>0. /\ \A i \in DOMAIN out : out[i].re \in Nat
      /\ \A i \in DOMAIN owed : owed[i] \in Nat
      /\ \A i \in DOMAIN ico : ico[i] \in Nat
      /\ k \in Nat \ {0}
  BY AnswerNumbers, ConnectionAssumption DEF Id
<1>1. PICK n \in Nat :
        /\ DOMAIN ico = 1 .. n /\ DOMAIN Append(ico, k) = 1 .. n + 1
        /\ \A i \in 1 .. n : Append(ico, k)[i] = ico[i]
        /\ Append(ico, k)[n + 1] = k
  BY Behind
<1> DEFINE q == Append(ico, k)
<1>2. \A j \in DOMAIN q : (j \in DOMAIN ico /\ q[j] = ico[j]) \/ (j = n + 1 /\ q[j] = k)
  BY <1>1
<1>3. \A i \in DOMAIN ico : ico[i] < k
  BY <1>0 DEF Orderly
<1>4. Distinct(q)
  <2> SUFFICES ASSUME NEW i \in 1 .. n + 1, NEW j \in 1 .. n + 1, i < j PROVE q[i] # q[j]
    BY <1>1 DEF Distinct
  <2>1. i \in 1 .. n /\ (j \in 1 .. n \/ j = n + 1)
    BY <1>1
  <2>2. ico[i] \in Nat /\ ico[i] < k
    BY <1>0, <1>1, <1>3, <2>1
  <2>3. ico[i] # k
    BY <1>0, <2>2
  <2> QED BY <1>1, <2>1, <2>3 DEF Orderly, Distinct
<1> HIDE DEF q
<1>5. /\ \A i \in DOMAIN out : out[i].re <= then
      /\ \A j \in DOMAIN owed : owed[j] <= then
  BY <1>0 DEF Orderly
<1>6. \A j \in DOMAIN q : q[j] <= then
  BY <1>0, <1>2, <1>3
<1>7. \A i \in DOMAIN out, j \in DOMAIN q : Before(out[i], Entry("icon", q[j]))
  <2> SUFFICES ASSUME NEW i \in DOMAIN out PROVE Before(out[i], Entry("icon", k))
    BY <1>2 DEF Orderly
  <2>1. out[i].re # k
    BY <1>0 DEF Orderly
  <2> QED BY <2>1 DEF Before, Entry
<1>8. \A i \in DOMAIN owed, j \in DOMAIN q : owed[i] # q[j]
  <2> SUFFICES ASSUME NEW i \in DOMAIN owed PROVE owed[i] # k
    BY <1>2 DEF Orderly
  <2> QED BY <1>0 DEF Orderly
<1>9. Orderly(out, owed, q, then)
  BY <1>4, <1>5, <1>6, <1>7, <1>8 DEF Orderly
<1> QED BY <1>9 DEF q

\* Requests that are forwarded.
LEMMA OrderlyForward ==
  ASSUME NEW out \in Seq(Answers), NEW owed \in Seq(Id), NEW ico \in Seq(Id),
         NEW mark \in Nat, NEW then \in Nat, Orderly(out, owed, ico, mark),
         NEW ids \in Seq(Id), mark + Len(ids) <= then,
         \A i \in DOMAIN ids : ids[i] = mark + i
  PROVE  Orderly(out, owed \o ids, ico, then)
<1>0. /\ \A i \in DOMAIN out : out[i].re \in Nat
      /\ \A i \in DOMAIN owed : owed[i] \in Nat
      /\ \A i \in DOMAIN ico : ico[i] \in Nat
  BY AnswerNumbers
<1> DEFINE q == owed \o ids
<1>1. PICK n \in Nat, m \in Nat :
        /\ DOMAIN owed = 1 .. n /\ DOMAIN ids = 1 .. m /\ DOMAIN q = 1 .. n + m
        /\ m = Len(ids)
        /\ \A i \in 1 .. n + m : q[i] = IF i <= n THEN owed[i] ELSE ids[i - n]
  <2>1. PICK n \in Nat, m \in Nat : n = Len(owed) /\ m = Len(ids)
    BY LenProperties
  <2>2. /\ q \in Seq(Id) /\ Len(q) = n + m
        /\ \A i \in 1 .. n + m : q[i] = IF i <= n THEN owed[i] ELSE ids[i - n]
    BY <2>1, ConcatProperties
  <2>3. DOMAIN owed = 1 .. n /\ DOMAIN ids = 1 .. m /\ DOMAIN q = 1 .. n + m
    <3> HIDE DEF q
    <3> QED BY <2>1, <2>2, LenProperties
  <2> QED BY <2>1, <2>2, <2>3
<1> HIDE DEF q
<1>2. ASSUME NEW j \in DOMAIN q
      PROVE  \/ j \in DOMAIN owed /\ q[j] = owed[j]
             \/ j \in n + 1 .. n + m /\ q[j] = mark + (j - n)
  <2>1. CASE j <= n
    BY <1>1, <2>1
  <2>2. CASE ~(j <= n)
    <3>1. j - n \in 1 .. m /\ j \in n + 1 .. n + m
      BY <1>1, <2>2
    <3> QED BY <1>1, <2>2, <3>1
  <2> QED BY <2>1, <2>2
<1>3. \A j \in DOMAIN q : q[j] \in Nat /\ (j \in DOMAIN owed \/ mark < q[j]) /\ q[j] <= then
  <2> SUFFICES ASSUME NEW j \in DOMAIN q
               PROVE  q[j] \in Nat /\ (j \in DOMAIN owed \/ mark < q[j]) /\ q[j] <= then
    OBVIOUS
  <2>1. mark + m <= then
    BY <1>1
  <2>2. CASE j \in DOMAIN owed /\ q[j] = owed[j]
    <3>1. owed[j] <= mark
      BY <2>2 DEF Orderly
    <3> QED BY <1>0, <1>1, <2>1, <2>2, <3>1
  <2>3. CASE j \in n + 1 .. n + m /\ q[j] = mark + (j - n)
    BY <1>1, <2>1, <2>3
  <2> QED BY <1>2, <2>2, <2>3
<1>4. Rising(q)
  <2> SUFFICES ASSUME NEW i \in 1 .. n + m, NEW j \in 1 .. n + m, i < j PROVE q[i] < q[j]
    BY <1>1 DEF Rising
  <2>1. CASE j <= n
    <3>1. i \in 1 .. n /\ j \in 1 .. n
      BY <1>1, <2>1
    <3>2. q[i] = owed[i] /\ q[j] = owed[j]
      BY <1>1, <2>1, <3>1
    <3> QED BY <1>1, <3>1, <3>2 DEF Orderly, Rising
  <2>2. CASE i <= n /\ ~(j <= n)
    <3>1. i \in DOMAIN owed /\ j \notin DOMAIN owed /\ q[i] = owed[i]
      BY <1>1, <2>2
    <3>2. owed[i] <= mark /\ mark < q[j] /\ q[j] \in Nat /\ owed[i] \in Nat
      BY <1>0, <1>1, <1>3, <3>1 DEF Orderly
    <3> QED BY <3>1, <3>2
  <2>3. CASE ~(i <= n)
    <3>1. ~(i \in 1 .. n) /\ ~(j \in 1 .. n)
      BY <1>1, <2>3
    <3>2. q[i] = mark + (i - n) /\ q[j] = mark + (j - n)
      BY <1>1, <1>2, <3>1
    <3> QED BY <1>1, <3>2
  <2> QED BY <2>1, <2>2, <2>3
<1>5. /\ \A i \in DOMAIN out : out[i].re <= then
      /\ \A j \in DOMAIN ico : ico[j] <= then
  <2>1. mark <= then
    BY <1>1
  <2> QED BY <1>0, <2>1 DEF Orderly
<1>6. \A i \in DOMAIN out, j \in DOMAIN q : Before(out[i], Entry("server", q[j]))
  <2> SUFFICES ASSUME NEW i \in DOMAIN out, NEW j \in DOMAIN q
               PROVE  Before(out[i], Entry("server", q[j]))
    OBVIOUS
  <2>1. CASE j \in DOMAIN owed
    <3>1. q[j] = owed[j]
      BY <1>1, <2>1
    <3> QED BY <2>1, <3>1 DEF Orderly
  <2>2. CASE j \notin DOMAIN owed
    <3>1. out[i].re <= mark /\ mark < q[j] /\ out[i].re \in Nat /\ q[j] \in Nat
      BY <1>0, <1>3, <2>2 DEF Orderly
    <3>2. out[i].re < q[j] /\ out[i].re # q[j]
      BY <3>1
    <3> QED BY <3>2 DEF Before, Entry
  <2> QED BY <2>1, <2>2
<1>7. \A i \in DOMAIN q, j \in DOMAIN ico : q[i] # ico[j]
  <2> SUFFICES ASSUME NEW i \in DOMAIN q, NEW j \in DOMAIN ico PROVE q[i] # ico[j]
    OBVIOUS
  <2>1. CASE i \in DOMAIN owed
    <3>1. q[i] = owed[i]
      BY <1>1, <2>1
    <3> QED BY <2>1, <3>1 DEF Orderly
  <2>2. CASE i \notin DOMAIN owed
    <3>1. ico[j] <= mark /\ mark < q[i] /\ ico[j] \in Nat /\ q[i] \in Nat
      BY <1>0, <1>3, <2>2 DEF Orderly
    <3> QED BY <3>1
  <2> QED BY <2>1, <2>2
<1>8. Orderly(out, q, ico, then)
  BY <1>3, <1>4, <1>5, <1>6, <1>7 DEF Orderly
<1> QED BY <1>8 DEF q

\* The server's answer to the request it is to answer first.
LEMMA OrderlyServer ==
  ASSUME NEW out \in Seq(Answers), NEW owed \in Seq(Id), NEW ico \in Seq(Id),
         NEW mark \in Nat, Orderly(out, owed, ico, mark),
         1 \in DOMAIN owed, NEW rest \in Seq(Id),
         \A i \in DOMAIN rest : i + 1 \in DOMAIN owed /\ rest[i] = owed[i + 1]
  PROVE  Orderly(Append(out, Entry("server", owed[1])), rest, ico, mark)
<1>0. /\ \A i \in DOMAIN owed : owed[i] \in Id /\ owed[i] \in Nat
      /\ owed[1] # 0
  BY AnswerNumbers
<1> DEFINE e == Entry("server", owed[1])
<1>1. e \in Answers /\ e.re = owed[1] /\ e.what = "server"
  BY <1>0, ConnectionAssumption DEF Answers, Entry, Id
<1> DEFINE q == Append(out, e)
<1>2. \A i \in DOMAIN q : q[i] = e \/ (i \in DOMAIN out /\ q[i] = out[i])
  <2> HIDE DEF e
  <2>1. PICK n \in Nat :
          /\ DOMAIN out = 1 .. n /\ DOMAIN q = 1 .. n + 1
          /\ \A i \in 1 .. n : q[i] = out[i]
          /\ q[n + 1] = e
    BY <1>1, Behind
  <2> HIDE DEF q
  <2> QED BY <2>1
<1>3. Good(q)
  <2>1. Good(out) /\ \A i \in DOMAIN out : Before(out[i], e)
    BY DEF Orderly
  <2> HIDE DEF e
  <2> QED BY <1>1, <2>1, GoodAppend
<1> HIDE DEF e, q
<1>4. \A i \in DOMAIN rest : i \in Nat \ {0} /\ rest[i] = owed[i + 1] /\ i + 1 \in DOMAIN owed
  BY LenProperties
<1>5. Rising(rest) /\ \A j \in DOMAIN rest : rest[j] <= mark /\ owed[1] < rest[j] /\ rest[j] \in Nat
  <2>1. ASSUME NEW i \in DOMAIN rest, NEW j \in DOMAIN rest, i < j PROVE rest[i] < rest[j]
    <3>1. i + 1 < j + 1
      BY <1>4, <2>1
    <3> QED BY <1>4, <3>1 DEF Orderly, Rising
  <2>2. ASSUME NEW j \in DOMAIN rest
        PROVE  rest[j] <= mark /\ owed[1] < rest[j] /\ rest[j] \in Nat
    <3>1. 1 < j + 1
      BY <1>4
    <3> QED BY <1>0, <1>4, <3>1 DEF Orderly, Rising
  <2> QED BY <2>1, <2>2 DEF Rising
<1>6. \A i \in DOMAIN q : q[i].re <= mark
  BY <1>1, <1>2 DEF Orderly
<1>7. \A i \in DOMAIN q, j \in DOMAIN rest : Before(q[i], Entry("server", rest[j]))
  <2> SUFFICES ASSUME NEW j \in DOMAIN rest PROVE Before(e, Entry("server", rest[j]))
    BY <1>2, <1>4 DEF Orderly
  <2>1. owed[1] < rest[j] /\ owed[1] # rest[j]
    BY <1>0, <1>5
  <2> QED BY <1>1, <2>1 DEF Before, Entry
<1>8. \A i \in DOMAIN q, j \in DOMAIN ico : Before(q[i], Entry("icon", ico[j]))
  <2> SUFFICES ASSUME NEW j \in DOMAIN ico PROVE Before(e, Entry("icon", ico[j]))
    BY <1>2 DEF Orderly
  <2>1. owed[1] # ico[j]
    BY DEF Orderly
  <2> QED BY <1>1, <2>1 DEF Before, Entry
<1>9. Orderly(q, rest, ico, mark)
  <2>1. \A i \in DOMAIN rest, j \in DOMAIN ico : rest[i] # ico[j]
    BY <1>4 DEF Orderly
  <2> QED BY <1>3, <1>5, <1>6, <1>7, <1>8, <2>1 DEF Orderly
<1> QED BY <1>9 DEF q, e

\* The answer to the favicon request that is first in the channel.
LEMMA OrderlyIcon ==
  ASSUME NEW out \in Seq(Answers), NEW owed \in Seq(Id), NEW ico \in Seq(Id),
         NEW mark \in Nat, Orderly(out, owed, ico, mark), ico # <<>>
  PROVE  Orderly(Append(out, Entry("icon", Head(ico))), owed, Tail(ico), mark)
<1>0. PICK n \in Nat \ {0} :
        /\ Head(ico) = ico[1] /\ DOMAIN ico = 1 .. n /\ DOMAIN Tail(ico) = 1 .. n - 1
        /\ \A i \in 1 .. n - 1 : Tail(ico)[i] = ico[i + 1]
        /\ 1 \in 1 .. n /\ \A i \in DOMAIN ico : ico[i] \in Id
  BY HeadTailProperties, EmptySeq, LenProperties, ElementOfSeq
<1> DEFINE e == Entry("icon", Head(ico))
<1>1. e \in Answers /\ e.re = ico[1] /\ e.what = "icon"
  BY <1>0, ConnectionAssumption DEF Answers, Entry, Id
<1> DEFINE q == Append(out, e)
<1>2. \A i \in DOMAIN q : q[i] = e \/ (i \in DOMAIN out /\ q[i] = out[i])
  <2> HIDE DEF e
  <2>1. PICK k \in Nat :
          /\ DOMAIN out = 1 .. k /\ DOMAIN q = 1 .. k + 1
          /\ \A i \in 1 .. k : q[i] = out[i]
          /\ q[k + 1] = e
    BY <1>1, Behind
  <2> HIDE DEF q
  <2> QED BY <2>1
<1>3. Good(q)
  <2>1. Good(out) /\ \A i \in DOMAIN out : Before(out[i], e)
    BY <1>0 DEF Orderly
  <2> HIDE DEF e
  <2> QED BY <1>1, <2>1, GoodAppend
<1> HIDE DEF e, q
<1> DEFINE rest == Tail(ico)
<1>4. \A i \in DOMAIN rest : /\ i \in Nat \ {0} /\ rest[i] = ico[i + 1]
                             /\ i + 1 \in DOMAIN ico /\ i + 1 # 1 /\ 1 \in DOMAIN ico
  BY <1>0
<1> HIDE DEF rest
<1>5. Distinct(rest) /\ \A j \in DOMAIN rest : rest[j] <= mark /\ ico[1] # rest[j]
  <2>1. ASSUME NEW i \in DOMAIN rest, NEW j \in DOMAIN rest, i < j PROVE rest[i] # rest[j]
    <3>1. i + 1 < j + 1
      BY <1>4, <2>1
    <3> QED BY <1>4, <3>1 DEF Orderly, Distinct
  <2>2. ASSUME NEW j \in DOMAIN rest PROVE rest[j] <= mark /\ ico[1] # rest[j]
    <3>1. 1 < j + 1
      BY <1>4
    <3> QED BY <1>4, <3>1 DEF Orderly, Distinct
  <2> QED BY <2>1, <2>2 DEF Distinct
<1>6. \A i \in DOMAIN q : q[i].re <= mark
  BY <1>0, <1>1, <1>2 DEF Orderly
<1>7. \A i \in DOMAIN q, j \in DOMAIN rest : Before(q[i], Entry("icon", rest[j]))
  <2> SUFFICES ASSUME NEW j \in DOMAIN rest PROVE Before(e, Entry("icon", rest[j]))
    BY <1>2, <1>4 DEF Orderly
  <2> QED BY <1>1, <1>5 DEF Before, Entry
<1>8. \A i \in DOMAIN q, j \in DOMAIN owed : Before(q[i], Entry("server", owed[j]))
  <2> SUFFICES ASSUME NEW j \in DOMAIN owed PROVE Before(e, Entry("server", owed[j]))
    BY <1>2 DEF Orderly
  <2>1. owed[j] # ico[1]
    BY <1>0 DEF Orderly
  <2> QED BY <1>1, <2>1 DEF Before, Entry
<1>9. Orderly(q, owed, rest, mark)
  <2>1. \A i \in DOMAIN owed, j \in DOMAIN rest : owed[i] # rest[j]
    BY <1>4 DEF Orderly
  <2> QED BY <1>3, <1>5, <1>6, <1>7, <1>8, <2>1 DEF Orderly
<1> QED BY <1>9 DEF q, e, rest

\* An answer of the proxy, which ends the session: to a request not dealt
\* with before, to one the server is to answer, or to none.
LEMMA OrderlyReply ==
  ASSUME NEW out \in Seq(Answers), NEW owed \in Seq(Id), NEW ico \in Seq(Id),
         NEW mark \in Nat, NEW then \in Nat, mark <= then, Orderly(out, owed, ico, mark),
         NEW what, NEW re \in Nat, Entry(what, re) \in Answers, what # "icon",
         \/ re = 0
         \/ mark < re /\ re <= then
         \/ \E j \in DOMAIN owed : re = owed[j]
  PROVE  Orderly(Append(out, Entry(what, re)), <<>>, <<>>, then)
<1>0. \A i \in DOMAIN out : out[i].re \in Nat /\ out[i].re <= mark
  BY AnswerNumbers DEF Orderly
<1> DEFINE e == Entry(what, re)
<1>1. e.re = re
  BY DEF Entry
<1>2. \A i \in DOMAIN out : Before(out[i], e)
  <2> SUFFICES ASSUME NEW i \in DOMAIN out PROVE Before(out[i], e)
    OBVIOUS
  <2>1. CASE re = 0
    BY <2>1 DEF Before, Entry
  <2>2. CASE mark < re
    <3>1. out[i].re < re /\ out[i].re # re
      BY <1>0, <2>2
    <3> QED BY <3>1 DEF Before, Entry
  <2>3. CASE \E j \in DOMAIN owed : re = owed[j]
    <3>1. Before(out[i], Entry("server", re))
      BY <2>3 DEF Orderly
    <3> QED BY <3>1 DEF Before, Entry
  <2> QED BY <2>1, <2>2, <2>3
<1>3. re <= then
  <2>1. CASE \E j \in DOMAIN owed : re = owed[j]
    <3>1. re <= mark
      BY <2>1 DEF Orderly
    <3> QED BY <3>1
  <2> QED BY <2>1
<1> HIDE DEF e
<1>4. Good(Append(out, e))
  BY <1>2, GoodAppend DEF Orderly, e
<1>5. \A i \in DOMAIN Append(out, e) : Append(out, e)[i].re <= then
  <2>0. e \in Answers
    BY DEF e
  <2>1. /\ Len(out) \in Nat
        /\ DOMAIN out = 1 .. Len(out) /\ DOMAIN Append(out, e) = 1 .. Len(out) + 1
        /\ \A i \in 1 .. Len(out) : Append(out, e)[i] = out[i]
        /\ Append(out, e)[Len(out) + 1] = e
    BY <2>0, Behind
  <2>2. \A i \in DOMAIN Append(out, e) :
          Append(out, e)[i] = e \/ (i \in DOMAIN out /\ Append(out, e)[i] = out[i])
    BY <2>1
  <2>3. \A i \in DOMAIN out : out[i].re <= then
    BY <1>0
  <2> QED BY <1>1, <1>3, <2>2, <2>3
<1>6. DOMAIN <<>> = {}
  OBVIOUS
<1>7. Orderly(Append(out, e), <<>>, <<>>, then)
  BY <1>4, <1>5, <1>6 DEF Orderly, Rising, Distinct
<1> QED BY <1>7 DEF e

\* The numbers on the way to the client and in the session, at a step.
LEMMA OwedTyped ==
  ASSUME IInv, IInv', NEW c \in Conn
  PROVE  /\ answers[c] \in Seq(Answers) /\ wbuf[c] \in Seq(Answers) /\ Out(c) \in Seq(Answers)
         /\ ses[c].resp \in Seq(Id) /\ ses[c].asked \in Seq(Id) /\ ses[c].ico \in Seq(Id)
         /\ Owed(c) \in Seq(Id) /\ ses[c] \in Sessions
         /\ Out(c)' \in Seq(Answers) /\ Owed(c)' \in Seq(Id) /\ ses'[c].ico \in Seq(Id)
BY TypedAt, TypedThen DEF Typed, TypedOut, TypedSes

\* A step that leaves what is answered and to be answered as it is.
LEMMA AnsweredKeeps ==
  ASSUME IInv, IInv', NEW c \in Conn, Numbered(c), StepKind(c), ~failed'[c],
         client[c] # "gone", Answered(c), SameOut(c),
         ses'[c].resp \o ses'[c].asked = ses[c].resp \o ses[c].asked,
         ses'[c].ico = ses[c].ico,
         pc'[c] \notin {"pipe", "forward", "closed"} => ses'[c] = NoSession
  PROVE  Answered(c)'
<1>1. /\ Orderly(Out(c), Owed(c), ses[c].ico, Mark(c))
      /\ Out(c)' = Out(c) /\ Owed(c)' = Owed(c)
  BY DEF Answered, SameOut, Out, Owed
<1>2. Mark(c) \in Nat /\ Mark(c)' \in Nat /\ Mark(c) <= Mark(c)'
  BY MarkMoves, MarkRead
<1>3. Orderly(Out(c), Owed(c), ses[c].ico, Mark(c)')
  BY <1>1, <1>2, OwedTyped, OrderlyMoves
<1> QED BY <1>1, <1>3 DEF Answered

\* A step that ends the session, after an answer or without one.
LEMMA AnsweredEnds ==
  ASSUME IInv, IInv', NEW c \in Conn, ses'[c] = NoSession,
         Orderly(Out(c)', <<>>, <<>>, Mark(c)')
  PROVE  Answered(c)'
<1>1. Owed(c)' = <<>> /\ ses'[c].ico = <<>>
  <2>1. ses'[c].resp = <<>> /\ ses'[c].asked = <<>> /\ ses'[c].ico = <<>>
    BY DEF NoSession
  <2>2. <<>> \o <<>> = <<>>
    OBVIOUS
  <2> QED BY <2>1, <2>2 DEF Owed
<1> QED BY <1>1 DEF Answered

\* A task that ends without a flush: what is in the buffer is lost.
LEMMA DroppedOrderly ==
  ASSUME IInv, IInv', NEW c \in Conn, wbuf'[c] = <<>>, answers'[c] = answers[c],
         Orderly(Out(c), Owed(c), ses[c].ico, Mark(c)),
         Mark(c) \in Nat, Mark(c)' \in Nat, Mark(c) <= Mark(c)'
  PROVE  Orderly(Out(c)', <<>>, <<>>, Mark(c)')
<1>1. Orderly(Out(c), <<>>, <<>>, Mark(c)')
  BY OwedTyped, OrderlyMoves
<1>2. Out(c)' = answers[c]
  BY OwedTyped, ConcatEmptySeq DEF Out
<1>3. \A i \in DOMAIN answers[c] : i \in DOMAIN Out(c) /\ Out(c)[i] = answers[c][i]
  <2>1. answers[c] \in Seq(Answers) /\ wbuf[c] \in Seq(Answers)
    BY OwedTyped
  <2> QED BY <2>1, Joined DEF Out
<1>4. Good(answers[c]) /\ \A i \in DOMAIN answers[c] : answers[c][i].re <= Mark(c)'
  BY <1>1, <1>3 DEF Orderly, Good
<1>5. DOMAIN <<>> = {}
  OBVIOUS
<1> QED BY <1>2, <1>4, <1>5 DEF Orderly, Rising, Distinct

\* An answer of the proxy.
LEMMA ReplyAnswered ==
  ASSUME IInv, IInv', NEW c \in Conn, Numbered(c), StepKind(c), ~failed'[c],
         client[c] # "gone", Answered(c), Replies(c)
  PROVE  Answered(c)'
<1>0. /\ Mark(c) \in Nat /\ Mark(c)' \in Nat /\ Mark(c) <= Mark(c)' /\ ~failed[c]
      /\ next[c] \in Nat /\ Mark(c)' = next[c]
  <2>1. pc'[c] \notin InHand /\ next'[c] = next[c]
    BY DEF Replies, InHand
  <2> QED BY <2>1, MarkMoves, MarkRead DEF Mark
<1>1. PICK what \in {"html", "200", "400", "404", "405", "500"}, re \in 0 .. MaxSend :
        /\ answers'[c] = answers[c] \o Append(wbuf[c], Entry(what, re))
        /\ \/ pc[c] \in InHand /\ re = Req(c).id
           \/ pc[c] \in {"start", "read"} /\ re = 0
           \/ InSession(c) /\ re = Unanswered(c)
  BY DEF Replies
<1>2. re \in Nat /\ Entry(what, re) \in Answers /\ what # "icon"
  BY ConnectionAssumption DEF Entry, Answers
<1>3. pc[c] \in InHand => Mark(c) < Req(c).id /\ Req(c).id <= next[c]
  <2> SUFFICES ASSUME pc[c] \in InHand PROVE Mark(c) < Req(c).id /\ Req(c).id <= next[c]
    OBVIOUS
  <2>1. buf[c] # <<>> /\ Req(c) = buf[c][1] /\ Len(buf[c]) \in Nat \ {0} /\ Req(c).id \in Nat
    BY TypedAt DEF Typed, TypedHand
  <2>2. buf[c][1].id + Len(buf[c]) - 1 <= next[c]
    BY <1>0, <2>1 DEF Numbered
  <2> QED BY <1>0, <2>1, <2>2 DEF Mark
<1>4. \/ re = 0
      \/ Mark(c) < re /\ re <= Mark(c)'
      \/ \E j \in DOMAIN Owed(c) : re = Owed(c)[j]
  <2>1. CASE pc[c] \in InHand /\ re = Req(c).id
    BY <1>0, <1>3, <2>1
  <2>2. CASE pc[c] \in {"start", "read"} /\ re = 0
    BY <2>2
  <2>3. CASE InSession(c) /\ re = Unanswered(c)
    <3>1. CASE ses[c].asked # <<>>
      <4>1. ses[c].resp \in Seq(Id) /\ ses[c].asked \in Seq(Id)
        BY OwedTyped
      <4>2. \E j \in DOMAIN Owed(c) : Head(ses[c].asked) = Owed(c)[j]
        BY <3>1, <4>1, JoinedOwed DEF Owed
      <4> QED BY <2>3, <3>1, <4>2 DEF Unanswered
    <3>2. CASE ses[c].asked = <<>> /\ pc[c] = "forward"
      BY <1>0, <1>3, <2>3, <3>2 DEF Unanswered, InHand
    <3>3. CASE ses[c].asked = <<>> /\ pc[c] # "forward"
      BY <2>3, <3>3 DEF Unanswered
    <3> QED BY <3>1, <3>2, <3>3
  <2> QED BY <1>1, <2>1, <2>2, <2>3
<1>5. Orderly(Append(Out(c), Entry(what, re)), <<>>, <<>>, Mark(c)')
  <2>1. Orderly(Out(c), Owed(c), ses[c].ico, Mark(c))
    BY DEF Answered
  <2> QED BY <1>0, <1>2, <1>4, <2>1, OwedTyped, OrderlyReply
<1>6. Out(c)' = Append(Out(c), Entry(what, re))
  <2>1. wbuf'[c] = <<>>
    BY DEF Replies
  <2>2. Out(c)' = (answers[c] \o Append(wbuf[c], Entry(what, re))) \o <<>>
    BY <1>1, <2>1 DEF Out
  <2>3. answers[c] \in Seq(Answers) /\ wbuf[c] \in Seq(Answers)
    BY OwedTyped
  <2>4. Append(wbuf[c], Entry(what, re)) \in Seq(Answers)
    BY <1>2, <2>3, AppendProperties
  <2>5. answers[c] \o Append(wbuf[c], Entry(what, re)) \in Seq(Answers)
    BY <2>3, <2>4, ConcatProperties
  <2>6. Out(c)' = answers[c] \o Append(wbuf[c], Entry(what, re))
    BY <2>2, <2>5, ConcatEmptySeq
  <2> QED BY <1>2, <2>3, <2>6, AppendConcat DEF Out
<1>7. ses'[c] = NoSession
  BY DEF Replies, Ends, Answered
<1> QED BY <1>5, <1>6, <1>7, AnsweredEnds

\* An answer of the server, or of the favicon channel, is written.
LEMMA WriteAnswered ==
  ASSUME IInv, IInv', NEW c \in Conn, Numbered(c), StepKind(c), ~failed'[c],
         client[c] # "gone", Answered(c), Writes(c)
  PROVE  Answered(c)'
<1>0. /\ Mark(c) \in Nat /\ Mark(c)' = Mark(c) /\ pc'[c] = pc[c] /\ answers'[c] = answers[c]
      /\ Orderly(Out(c), Owed(c), ses[c].ico, Mark(c)) /\ InSession(c)
  BY MarkRead DEF Writes, SameRead, Mark, Req, Answered
<1>1. CASE /\ ses[c].resp # <<>>
           /\ ses'[c] = [ses[c] EXCEPT !.resp = Tail(ses[c].resp), !.flushing = TRUE]
           /\ wbuf'[c] = Append(wbuf[c], Entry("server", Head(ses[c].resp)))
  <2>1. /\ ses'[c].resp = Tail(ses[c].resp) /\ ses'[c].asked = ses[c].asked
        /\ ses'[c].ico = ses[c].ico
    BY <1>1, OwedTyped DEF Sessions
  <2>2. /\ Head(ses[c].resp) = Owed(c)[1] /\ 1 \in DOMAIN Owed(c)
        /\ \A i \in DOMAIN Owed(c)' : i + 1 \in DOMAIN Owed(c) /\ Owed(c)'[i] = Owed(c)[i + 1]
    <3>1. ses[c].resp \in Seq(Id) /\ ses[c].asked \in Seq(Id)
      BY OwedTyped
    <3>2. Owed(c) = ses[c].resp \o ses[c].asked /\ Owed(c)' = Tail(ses[c].resp) \o ses[c].asked
      BY <2>1 DEF Owed
    <3>3. /\ Head(ses[c].resp) = (ses[c].resp \o ses[c].asked)[1]
          /\ 1 \in DOMAIN (ses[c].resp \o ses[c].asked)
          /\ \A i \in DOMAIN (Tail(ses[c].resp) \o ses[c].asked) :
               /\ i + 1 \in DOMAIN (ses[c].resp \o ses[c].asked)
               /\ (Tail(ses[c].resp) \o ses[c].asked)[i] = (ses[c].resp \o ses[c].asked)[i + 1]
      BY <1>1, <3>1, TailConcat
    <3> QED BY <3>2, <3>3
  <2>3. Orderly(Append(Out(c), Entry("server", Owed(c)[1])), Owed(c)', ses[c].ico, Mark(c))
    BY <1>0, <2>2, OwedTyped, OrderlyServer
  <2>4. Head(ses[c].resp) \in Id
    BY <1>1, OwedTyped, HeadTailProperties
  <2>5. Entry("server", Head(ses[c].resp)) \in Answers
    BY <2>4, ConnectionAssumption DEF Entry, Answers, Id
  <2>6. Out(c)' = Append(Out(c), Entry("server", Owed(c)[1]))
    <3>1. answers[c] \in Seq(Answers) /\ wbuf[c] \in Seq(Answers)
      BY OwedTyped
    <3>2. Out(c)' = answers[c] \o Append(wbuf[c], Entry("server", Head(ses[c].resp)))
      BY <1>0, <1>1 DEF Out
    <3>3. Out(c)' = Append(Out(c), Entry("server", Head(ses[c].resp)))
      BY <2>5, <3>1, <3>2, AppendConcat DEF Out
    <3> QED BY <2>2, <3>3
  <2> QED BY <1>0, <2>1, <2>3, <2>6 DEF Answered, InSession
<1>2. CASE /\ ses[c].ico # <<>>
           /\ ses'[c] = [ses[c] EXCEPT !.ico = Tail(ses[c].ico), !.flushing = TRUE]
           /\ wbuf'[c] = Append(wbuf[c], Entry("icon", Head(ses[c].ico)))
  <2>1. /\ ses'[c].resp = ses[c].resp /\ ses'[c].asked = ses[c].asked
        /\ ses'[c].ico = Tail(ses[c].ico)
    BY <1>2, OwedTyped DEF Sessions
  <2>2. Owed(c)' = Owed(c)
    BY <2>1 DEF Owed
  <2>3. Orderly(Append(Out(c), Entry("icon", Head(ses[c].ico))), Owed(c), Tail(ses[c].ico), Mark(c))
    BY <1>0, <1>2, OwedTyped, OrderlyIcon
  <2>4. Head(ses[c].ico) \in Id
    BY <1>2, OwedTyped, HeadTailProperties
  <2>5. Entry("icon", Head(ses[c].ico)) \in Answers
    BY <2>4, ConnectionAssumption DEF Entry, Answers, Id
  <2>6. Out(c)' = Append(Out(c), Entry("icon", Head(ses[c].ico)))
    <3>1. answers[c] \in Seq(Answers) /\ wbuf[c] \in Seq(Answers)
      BY OwedTyped
    <3>2. Out(c)' = answers[c] \o Append(wbuf[c], Entry("icon", Head(ses[c].ico)))
      BY <1>0, <1>2 DEF Out
    <3> QED BY <2>5, <3>1, <3>2, AppendConcat DEF Out
  <2> QED BY <1>0, <2>1, <2>2, <2>3, <2>6 DEF Answered, InSession
<1> QED BY <1>1, <1>2 DEF Writes

\* Requests are forwarded.
LEMMA ForwardAnswered ==
  ASSUME IInv, IInv', NEW c \in Conn, Numbered(c), StepKind(c), ~failed'[c],
         client[c] # "gone", Answered(c), Forwards(c)
  PROVE  Answered(c)'
<1>0. /\ Mark(c) \in Nat /\ Mark(c)' \in Nat /\ ~failed[c] /\ pc[c] \in InHand
      /\ pc'[c] = "pipe" /\ SameRead(c) /\ SameOut(c) /\ Mark(c)' = next[c]
  BY MarkRead, MarkMoves DEF Forwards, InHand, Mark, SameRead
<1>1. /\ buf[c] # <<>> /\ DOMAIN buf[c] = 1 .. Len(buf[c]) /\ Len(buf[c]) \in Nat
      /\ buf[c] \in Seq(Requests)
  BY <1>0, TypedAt DEF Typed, TypedRead, TypedHand
<1>a. PICK m \in Nat : m = Len(buf[c])
  BY <1>1
<1>2. PICK s \in Site : Forward(c, s)
  BY DEF Forwards
<1> DEFINE ids == [i \in DOMAIN buf[c] |-> buf[c][i].id]
<1>3. /\ ses'[c].asked = ses[c].asked \o ids /\ ses'[c].resp = ses[c].resp
      /\ ses'[c].ico = ses[c].ico
  <2>1. ses' = [ses EXCEPT ![c].site = s, ![c].asked = @ \o ids]
    BY <1>2 DEF Forward
  <2>2. ses \in [Conn -> Sessions]
    BY DEF IInv, TypeOK
  <2> HIDE DEF ids
  <2> QED BY <2>1, <2>2, OwedTyped DEF Sessions
<1>4. ids \in Seq(Id) /\ Len(ids) = m /\ DOMAIN ids = 1 .. m
  <2>1. \A i \in 1 .. m : buf[c][i].id \in Id
    <3>1. \A i \in 1 .. m : buf[c][i] \in Requests
      BY <1>1, <1>a, ElementOfSeq
    <3> QED BY <3>1 DEF Requests
  <2>2. ids \in [1 .. m -> Id]
    BY <1>1, <1>a, <2>1
  <2> HIDE DEF ids
  <2> QED BY <2>2, FunctionIsSeq
<1>5. \A i \in 1 .. m : ids[i] = Mark(c) + i
  <2>1. Mark(c) = buf[c][1].id - 1 /\ buf[c][1].id \in Nat \ {0}
    BY <1>0, MarkRead
  <2>2. \A i \in 1 .. m : ids[i] = buf[c][1].id + i - 1
    BY <1>0, <1>1, <1>a DEF Numbered
  <2> HIDE DEF ids
  <2> QED BY <2>1, <2>2
<1>6. Mark(c) + m <= next[c]
  <2>1. Mark(c) = buf[c][1].id - 1 /\ buf[c][1].id \in Nat \ {0}
    BY <1>0, MarkRead
  <2>2. buf[c][1].id + m - 1 <= next[c] /\ next[c] \in Nat
    BY <1>0, <1>1, <1>a, MarkRead DEF Numbered
  <2> QED BY <2>1, <2>2
<1> HIDE DEF ids
<1>7. Orderly(Out(c), Owed(c) \o ids, ses[c].ico, Mark(c)')
  <2>1. Orderly(Out(c), Owed(c), ses[c].ico, Mark(c))
    BY DEF Answered
  <2>2. Mark(c) + Len(ids) <= Mark(c)' /\ \A i \in DOMAIN ids : ids[i] = Mark(c) + i
    BY <1>0, <1>4, <1>5, <1>6
  <2> QED BY <1>0, <1>4, <2>1, <2>2, OwedTyped, OrderlyForward
<1>8. Owed(c)' = Owed(c) \o ids /\ Out(c)' = Out(c)
  <2>1. ses[c].resp \in Seq(Id) /\ ses[c].asked \in Seq(Id)
    BY OwedTyped
  <2>2. Owed(c)' = ses[c].resp \o (ses[c].asked \o ids)
    BY <1>3 DEF Owed
  <2>3. Owed(c)' = Owed(c) \o ids
    BY <1>4, <2>1, <2>2, ConcatOwed DEF Owed
  <2> QED BY <1>0, <2>3 DEF Out, SameOut
<1> QED BY <1>0, <1>3, <1>7, <1>8 DEF Answered

\* A read is taken.
LEMMA TakeAnswered ==
  ASSUME IInv, IInv', NEW c \in Conn, Numbered(c), StepKind(c), ~failed'[c],
         client[c] # "gone", Answered(c), Takes(c)
  PROVE  Answered(c)'
<1>0. /\ Mark(c) \in Nat /\ Mark(c)' \in Nat /\ Mark(c) <= Mark(c)'
      /\ Orderly(Out(c), Owed(c), ses[c].ico, Mark(c))
  BY MarkRead, MarkMoves DEF Answered
<1>1. CASE pc[c] \in {"start", "read"}
  <2>1. ses'[c] = ses[c] /\ ses[c] = NoSession /\ SameOut(c)
    BY <1>1 DEF Takes, Answered
  <2> QED BY <2>1, AnsweredKeeps
<1>2. CASE pc'[c] = "forward" /\ ses'[c] = ses[c] /\ SameOut(c)
  BY <1>2, AnsweredKeeps
<1>3. CASE /\ pc[c] = "pipe" /\ pc'[c] = "pipe" /\ SameOut(c)
           /\ ses'[c] = [ses[c] EXCEPT !.ico = Append(ses[c].ico, buf'[c][1].id)]
  <2>1. /\ ses'[c].resp = ses[c].resp /\ ses'[c].asked = ses[c].asked
        /\ ses'[c].ico = Append(ses[c].ico, buf'[c][1].id)
    BY <1>3, OwedTyped DEF Sessions
  <2>2. /\ buf'[c][1].id = next[c] + 1 /\ next[c] < next'[c] /\ next'[c] \in Nat
        /\ next'[c] <= Len(stream[c])
    BY ReadsRun DEF Takes
  <2>3. Mark(c) = next[c] /\ Mark(c)' = next'[c] /\ next[c] \in Nat
    BY <1>3, MarkRead DEF Mark, InHand
  <2>4. buf'[c][1].id \in Id /\ Mark(c) < buf'[c][1].id /\ buf'[c][1].id <= Mark(c)'
    <3>1. Len(stream[c]) \in Nat /\ Len(stream[c]) <= MaxSend /\ MaxSend \in Nat
      BY TypedAt DEF Typed, TypedRead
    <3>2. next[c] + 1 \in Nat \ {0} /\ next[c] < next[c] + 1 /\ next[c] + 1 <= next'[c]
          /\ next[c] + 1 <= MaxSend
      BY <2>2, <2>3, <3>1
    <3> QED BY <2>2, <2>3, <3>1, <3>2 DEF Id
  <2>5. Orderly(Out(c), Owed(c), Append(ses[c].ico, buf'[c][1].id), Mark(c)')
    BY <1>0, <2>4, OwedTyped, OrderlyFavicon
  <2>6. Out(c)' = Out(c) /\ Owed(c)' = Owed(c)
    BY <1>3, <2>1 DEF SameOut, Out, Owed
  <2> QED BY <1>3, <2>1, <2>5, <2>6 DEF Answered
<1>4. CASE ses'[c] = NoSession /\ SameOut(c)
  <2>1. Orderly(Out(c), <<>>, <<>>, Mark(c)') /\ Out(c)' = Out(c)
    BY <1>0, <1>4, OwedTyped, OrderlyMoves DEF SameOut, Out
  <2> QED BY <1>4, <2>1, AnsweredEnds
<1>5. CASE ses'[c] = NoSession /\ wbuf'[c] = <<>> /\ answers'[c] = answers[c]
  <2>1. Orderly(Out(c)', <<>>, <<>>, Mark(c)')
    BY <1>0, <1>5, DroppedOrderly
  <2> QED BY <1>5, <2>1, AnsweredEnds
<1> QED BY <1>1, <1>2, <1>3, <1>4, <1>5 DEF Takes

\* What is answered and to be answered stays in order.
LEMMA AnsweredStep ==
  ASSUME IInv, IInv', NEW c \in Conn, Numbered(c), StepKind(c), Answered(c)
  PROVE  Answered(c)'
<1> SUFFICES ASSUME client'[c] # "gone" PROVE Answered(c)'
  BY DEF Answered
<1>0. client[c] # "gone" /\ ~failed'[c] /\ ~Fails(c)
  <2>1. client[c] # "gone"
    BY DEF StepKind, Sends, Leaves, Responds, Breaks, Takes, Skips, Closes, Replies,
           Goes, Forwards, Writes, Flushes, Fails, Alone
  <2> QED BY <2>1, NumberedStep DEF Numbered, Fails
<1>1. CASE Sends(c) \/ Leaves(c) \/ Goes(c) \/ Skips(c)
  <2>1. /\ ses'[c] = ses[c] /\ SameOut(c)
        /\ pc'[c] \notin {"pipe", "forward", "closed"} =>
             pc[c] \notin {"pipe", "forward", "closed"}
    BY <1>1 DEF Sends, Leaves, Goes, Skips
  <2>2. pc'[c] \notin {"pipe", "forward", "closed"} => ses'[c] = NoSession
    BY <1>0, <2>1 DEF Answered
  <2> QED BY <1>0, <2>1, <2>2, AnsweredKeeps
<1>2. CASE Responds(c)
  <2>1. /\ ses'[c].resp = Append(ses[c].resp, Head(ses[c].asked))
        /\ ses'[c].asked = Tail(ses[c].asked) /\ ses'[c].ico = ses[c].ico
        /\ ses[c].asked # <<>> /\ SameOut(c) /\ pc'[c] \in {"pipe", "forward"}
    BY <1>2, OwedTyped DEF Responds, Sessions, InSession
  <2>2. ses'[c].resp \o ses'[c].asked = ses[c].resp \o ses[c].asked
    BY <2>1, OwedTyped, MoveHead
  <2> QED BY <1>0, <2>1, <2>2, AnsweredKeeps
<1>3. CASE Breaks(c)
  <2>1. /\ ses'[c].resp = ses[c].resp /\ ses'[c].asked = ses[c].asked
        /\ ses'[c].ico = ses[c].ico /\ SameOut(c) /\ pc'[c] \in {"pipe", "forward"}
    BY <1>3, OwedTyped DEF Breaks, Sessions, InSession
  <2> QED BY <1>0, <2>1, AnsweredKeeps
<1>4. CASE Flushes(c)
  <2>1. /\ ses'[c].resp = ses[c].resp /\ ses'[c].asked = ses[c].asked
        /\ ses'[c].ico = ses[c].ico /\ pc'[c] \in {"pipe", "forward"}
    BY <1>4, OwedTyped DEF Flushes, Sessions, InSession
  <2>2. Out(c)' = Out(c)
    <3>1. wbuf'[c] = <<>> /\ answers'[c] = answers[c] \o wbuf[c]
      BY <1>0, <1>4 DEF Flushes
    <3>2. (answers[c] \o wbuf[c]) \o <<>> = answers[c] \o wbuf[c]
      BY OwedTyped, ConcatEmptySeq DEF Out
    <3> QED BY <3>1, <3>2 DEF Out
  <2>3. Owed(c)' = Owed(c) /\ Mark(c)' = Mark(c)
    BY <1>4, <2>1 DEF Owed, Flushes, SameRead, Mark, Req
  <2> QED BY <1>0, <2>1, <2>2, <2>3 DEF Answered
<1>5. CASE Closes(c)
  <2>1. ses'[c] = NoSession /\ wbuf'[c] = <<>> /\ answers'[c] = answers[c]
    BY <1>0, <1>5 DEF Closes, Ends, Answered
  <2>2. /\ Mark(c) \in Nat /\ Mark(c)' \in Nat /\ Mark(c) <= Mark(c)'
        /\ Orderly(Out(c), Owed(c), ses[c].ico, Mark(c))
    BY <1>0, MarkRead, MarkMoves DEF Answered
  <2>3. Orderly(Out(c)', <<>>, <<>>, Mark(c)')
    BY <2>1, <2>2, DroppedOrderly
  <2> QED BY <2>1, <2>3, AnsweredEnds
<1> QED BY <1>0, <1>1, <1>2, <1>3, <1>4, <1>5, TakeAnswered, ReplyAnswered,
           ForwardAnswered, WriteAnswered DEF StepKind

-----------------------------------------------------------------------------
(***************************************************************************)
(* The inductive invariant.                                                *)
(***************************************************************************)

\* A connection that does not move keeps its part of the invariant.
LEMMA UnmovedKeeps ==
  ASSUME NEW c \in Conn, Unmoved(c), Numbered(c), Delivered(c), Answered(c),
         Good(answers[c])
  PROVE  Numbered(c)' /\ Delivered(c)' /\ Answered(c)' /\ Good(answers[c])'
<1> USE DEF Unmoved
<1>1. Numbered(c)'
  BY DEF Numbered, Cut
<1>2. Mark(c)' = Mark(c) /\ (Cut(c)' <=> Cut(c)) /\ Out(c)' = Out(c) /\ Owed(c)' = Owed(c)
  BY DEF Mark, Req, Cut, Out, Owed
<1>3. Delivered(c)'
  <2> SUFFICES ASSUME ~failed[c] PROVE Delivered(c)'
    BY DEF Delivered
  <2>1. InOrder(c)'
    BY DEF Delivered, InOrder
  <2>2. \A i \in DOMAIN received'[c] : Receipt(c, i)'
    BY <1>2 DEF Delivered, Receipt, Follows
  <2>3. InSession(c)' => Linked(c)'
    BY <1>2 DEF Delivered, InSession, Linked
  <2> QED BY <2>1, <2>2, <2>3 DEF Delivered
<1>4. Answered(c)'
  BY <1>2 DEF Answered
<1>5. Good(answers[c])'
  BY DEF Good
<1> QED BY <1>1, <1>3, <1>4, <1>5

\* The answers a client got are in order, also once it is gone.
LEMMA AnswersStayGood ==
  ASSUME IInv, IInv', NEW c \in Conn, StepKind(c), Good(answers[c]), Answered(c)'
  PROVE  Good(answers[c])'
<1>1. CASE client'[c] = "gone"
  <2>1. answers'[c] = answers[c]
    BY <1>1 DEF StepKind, Sends, Leaves, Responds, Breaks, Takes, Skips, Closes, Replies,
                Goes, Forwards, Writes, Flushes, Fails, Alone, SameOut
  <2> QED BY <2>1 DEF Good
<1>2. CASE client'[c] # "gone"
  <2>1. Good(Out(c)')
    BY <1>2 DEF Answered, Orderly
  <2>2. PICK p \in Seq(Answers), q \in Seq(Answers) :
          p = answers'[c] /\ q = wbuf'[c] /\ Out(c)' = p \o q
    BY TypedThen DEF Typed, TypedOut, Out
  <2>3. \A i \in DOMAIN p : i \in DOMAIN (p \o q) /\ (p \o q)[i] = p[i]
    BY Joined
  <2> QED BY <2>1, <2>2, <2>3 DEF Good
<1> QED BY <1>1, <1>2

\* The end of the program closes every connection.
LEMMA AcceptFailsOrder ==
  ASSUME OrderInv, IInv', AcceptFails, NEW c \in Conn
  PROVE  Numbered(c)' /\ Delivered(c)' /\ Answered(c)' /\ Good(answers[c])'
<1>1. /\ pc'[c] = "closed"
      /\ UNCHANGED <<client, stream, next, buf, ses, wbuf, answers, received, failed>>
  BY DEF AcceptFails, input, output, history
<1>2. IInv /\ Numbered(c) /\ Delivered(c) /\ Answered(c) /\ Good(answers[c])
  BY DEF OrderInv
<1>3. Numbered(c)'
  BY <1>1, <1>2 DEF Numbered, Cut
<1>4. /\ Mark(c)' = next[c] /\ Mark(c) \in Nat /\ next[c] \in Nat
      /\ ~failed[c] => Mark(c) <= next[c]
  BY <1>1, <1>2, MarkRead DEF Mark, InHand
<1>5. Delivered(c)'
  <2> SUFFICES ASSUME ~failed[c] PROVE Delivered(c)'
    BY <1>1 DEF Delivered
  <2>1. InOrder(c)'
    BY <1>1, <1>2 DEF Delivered, InOrder
  <2>2. ASSUME NEW i \in DOMAIN received[c] PROVE Receipt(c, i)'
    <3>1. Receipt(c, i) /\ received[c][i].id \in Nat
      BY <1>2, ReceivedIds DEF Delivered
    <3>2. received[c][i].id <= Mark(c)'
      BY <1>4, <3>1 DEF Receipt
    <3> QED BY <1>1, <3>1, <3>2 DEF Receipt, Follows
  <2>3. ~InSession(c)'
    BY <1>1 DEF InSession
  <2> QED BY <1>1, <2>1, <2>2, <2>3 DEF Delivered
<1>6. Answered(c)'
  <2> SUFFICES ASSUME client[c] # "gone" PROVE Answered(c)'
    BY <1>1 DEF Answered
  <2>1. Orderly(Out(c), Owed(c), ses[c].ico, Mark(c)) /\ Mark(c) <= next[c]
    BY <1>2, <1>4 DEF Answered, Numbered
  <2>2. Orderly(Out(c), Owed(c), ses[c].ico, next[c])
    BY <1>2, <1>4, <2>1, TypedAt, OrderlyMoves DEF Typed, TypedOut, TypedSes
  <2>3. Out(c)' = Out(c) /\ Owed(c)' = Owed(c)
    BY <1>1 DEF Out, Owed
  <2> QED BY <1>1, <1>4, <2>2, <2>3 DEF Answered
<1>7. Good(answers[c])'
  BY <1>1, <1>2 DEF Good
<1> QED BY <1>3, <1>5, <1>6, <1>7

\* The invariant holds when the program starts.
LEMMA InitOrder == Init => OrderInv
<1> SUFFICES ASSUME Init PROVE OrderInv
  OBVIOUS
<1>1. ASSUME NEW c \in Conn
      PROVE  Numbered(c) /\ Delivered(c) /\ Answered(c) /\ Good(answers[c])
  <2>1. /\ stream[c] = <<>> /\ buf[c] = <<>> /\ received[c] = <<>> /\ ~failed[c]
        /\ ses[c] = NoSession /\ pc[c] = "start" /\ wbuf[c] = <<>> /\ answers[c] = <<>>
    BY DEF Init
  <2>2. DOMAIN <<>> = {} /\ <<>> \o <<>> = <<>>
    OBVIOUS
  <2>3. Numbered(c)
    BY <2>1, <2>2 DEF Numbered
  <2>4. Delivered(c)
    BY <2>1, <2>2 DEF Delivered, InOrder, InSession
  <2>5. Out(c) = <<>> /\ Owed(c) = <<>> /\ ses[c].ico = <<>>
    BY <2>1, <2>2 DEF Out, Owed, NoSession
  <2>6. Answered(c)
    BY <2>1, <2>2, <2>5 DEF Answered, Orderly, Good, Rising, Distinct
  <2>7. Good(answers[c])
    BY <2>1, <2>2 DEF Good
  <2> QED BY <2>3, <2>4, <2>6, <2>7
<1> QED BY <1>1, InitIInv DEF OrderInv

\* Every step keeps it.
LEMMA NextOrder == OrderInv /\ [Next]_vars => OrderInv'
<1> SUFFICES ASSUME OrderInv, [Next]_vars PROVE OrderInv'
  OBVIOUS
<1> DEFINE Kept(d) == Numbered(d) /\ Delivered(d) /\ Answered(d) /\ Good(answers[d])
<1>0. IInv /\ IInv' /\ \A c \in Conn : Kept(c)
  BY NextIInv DEF OrderInv
<1> SUFFICES ASSUME NEW c \in Conn PROVE Kept(c)'
  BY <1>0 DEF OrderInv
<1>1. ASSUME NEW d \in Conn, Send(d) \/ Leave(d) \/ Respond(d) \/ Break(d) \/ Task(d)
      PROVE  Kept(c)'
  <2>1. CASE c = d
    <3>1. StepKind(c)
      BY <1>0, <1>1, <2>1, KindStep
    <3> QED BY <1>0, <3>1, NumberedStep, DeliveredStep, AnsweredStep, AnswersStayGood
  <2>2. CASE c # d
    <3>1. Unmoved(c)
      BY <1>0, <1>1, <2>2, OthersUnmoved
    <3> QED BY <1>0, <3>1, UnmovedKeeps
  <2> QED BY <2>1, <2>2
<1>2. CASE AcceptFails
  BY <1>0, <1>2, AcceptFailsOrder
<1>3. CASE UNCHANGED vars
  <2>1. Unmoved(c)
    BY <1>3 DEF vars, input, output, history, Unmoved
  <2> QED BY <1>0, <2>1, UnmovedKeeps
<1> QED BY <1>1, <1>2, <1>3 DEF Next

-----------------------------------------------------------------------------
(***************************************************************************)
(* The theorems.                                                           *)
(***************************************************************************)

\* The inductive invariant holds always.
THEOREM OrderInvariant == Spec => []OrderInv
BY InitOrder, NextOrder, PTL DEF Spec

\* However reads cut and join what a client sends and whatever sessions are
\* opened, broken off and replaced, servers receive its requests in the order
\* they were sent and none twice, until a write to the client fails.
THEOREM RequestsArriveInOrder == Spec => []DeliveredInOrder
<1>1. OrderInv => DeliveredInOrder
  BY DEF OrderInv, Delivered, DeliveredInOrder
<1> QED BY <1>1, OrderInvariant, PTL

\* And nothing of a session is lost on the way: a request or a piece of a
\* body follows the one sent before it, but for reads that begin with a
\* favicon request.
THEOREM RequestsArriveWhole == Spec => []NothingSkipped
<1>1. OrderInv => NothingSkipped
  <2> SUFFICES ASSUME OrderInv, NEW c \in Conn, NEW i \in DOMAIN received[c],
                      ~failed[c], ~received[c][i].opens
               PROVE  /\ i > 1 /\ received[c][i].id > received[c][i - 1].id
                      /\ \/ received[c][i].id = received[c][i - 1].id + 1
                         \/ stream[c][received[c][i - 1].id + 1].to = "favicon"
    BY DEF NothingSkipped
  <2>1. Receipt(c, i)
    BY DEF OrderInv, Delivered
  <2> QED BY <2>1 DEF Receipt, Follows
<1> QED BY <1>1, OrderInvariant, PTL

\* No request is answered twice, by a server, by the proxy or by the favicon
\* channel, and but for favicons the answers come in the order of the
\* requests, however many sessions there were and however they ended.
THEOREM AnswersComeInOrder == Spec => []AnsweredOnceInOrder
<1>1. OrderInv => AnsweredOnceInOrder
  <2> SUFFICES ASSUME OrderInv, NEW c \in Conn, NEW i \in DOMAIN answers[c],
                      NEW j \in DOMAIN answers[c], i < j
               PROVE  Before(answers[c][i], answers[c][j])
    BY DEF AnsweredOnceInOrder, Before
  <2> QED BY DEF OrderInv, Good
<1> QED BY <1>1, OrderInvariant, PTL

-----------------------------------------------------------------------------
(***************************************************************************)
(* Clients that wait for each answer before they send again.               *)
(***************************************************************************)

\* What is pending if it is nothing, or one.
LEMMA PendingCases ==
  ASSUME IInv, NEW c \in Conn
  PROVE  /\ Pending(c) = 0 <=> /\ ses[c].resp = <<>> /\ ses[c].asked = <<>>
                               /\ ses[c].ico = <<>> /\ wbuf[c] = <<>>
         /\ Pending(c) <= 1 =>
              /\ ses[c].resp # <<>> => /\ Len(ses[c].resp) = 1 /\ ses[c].asked = <<>>
                                       /\ ses[c].ico = <<>> /\ wbuf[c] = <<>>
              /\ ses[c].asked # <<>> => /\ Len(ses[c].asked) = 1 /\ ses[c].resp = <<>>
                                        /\ ses[c].ico = <<>> /\ wbuf[c] = <<>>
              /\ ses[c].ico # <<>> => /\ Len(ses[c].ico) = 1 /\ ses[c].resp = <<>>
                                      /\ ses[c].asked = <<>> /\ wbuf[c] = <<>>
              /\ wbuf[c] # <<>> => /\ Len(wbuf[c]) = 1 /\ ses[c].resp = <<>>
                                   /\ ses[c].asked = <<>> /\ ses[c].ico = <<>>
<1>1. /\ ses[c].resp \in Seq(Id) /\ ses[c].asked \in Seq(Id) /\ ses[c].ico \in Seq(Id)
      /\ wbuf[c] \in Seq(Answers)
  BY TypedAt DEF Typed, TypedSes, TypedOut
<1>2. /\ Len(ses[c].resp) \in Nat /\ Len(ses[c].asked) \in Nat
      /\ Len(ses[c].ico) \in Nat /\ Len(wbuf[c]) \in Nat
  BY <1>1, LenProperties
<1>3. PICK i \in Nat, j \in Nat, k \in Nat, l \in Nat :
        /\ i = Len(ses[c].resp) /\ j = Len(ses[c].asked)
        /\ k = Len(ses[c].ico) /\ l = Len(wbuf[c])
        /\ Pending(c) = i + j + k + l
  BY <1>2 DEF Pending
<1>4. /\ ses[c].resp = <<>> <=> i = 0
      /\ ses[c].asked = <<>> <=> j = 0
      /\ ses[c].ico = <<>> <=> k = 0
  BY <1>1, <1>3, EmptySeq
<1>5. wbuf[c] = <<>> <=> l = 0
  BY <1>1, <1>3, EmptySeq
<1>6. i \in Nat /\ j \in Nat /\ k \in Nat /\ l \in Nat
  BY <1>3
<1>7. /\ Pending(c) = 0 <=> i = 0 /\ j = 0 /\ k = 0 /\ l = 0
      /\ Pending(c) <= 1 =>
           /\ i # 0 => i = 1 /\ j = 0 /\ k = 0 /\ l = 0
           /\ j # 0 => j = 1 /\ i = 0 /\ k = 0 /\ l = 0
           /\ k # 0 => k = 1 /\ i = 0 /\ j = 0 /\ l = 0
           /\ l # 0 => l = 1 /\ i = 0 /\ j = 0 /\ k = 0
  <2>1. Pending(c) = i + j + k + l
    BY <1>3
  <2> QED BY <1>6, <2>1
<1>8. /\ i = Len(ses[c].resp) /\ j = Len(ses[c].asked)
      /\ k = Len(ses[c].ico) /\ l = Len(wbuf[c])
  BY <1>3
<1> QED BY <1>4, <1>5, <1>7, <1>8

\* One sequence of one number, to be moved or put behind another.
LEMMA Single ==
  ASSUME NEW q \in Seq(Id), Len(q) = 1
  PROVE  Head(q) = q[1] /\ 1 \in DOMAIN q /\ Tail(q) = <<>> /\ q[1] \in Id
<1>1. q # <<>> /\ DOMAIN q = 1 .. 1
  BY EmptySeq, LenProperties
<1>2. Tail(q) \in Seq(Id) /\ Len(Tail(q)) = 0 /\ Head(q) = q[1]
  BY <1>1, HeadTailProperties
<1> QED BY <1>1, <1>2, EmptySeq, ElementOfSeq

\* One element put behind an empty sequence.
LEMMA First ==
  ASSUME NEW S, NEW e \in S
  PROVE  Append(<<>>, e) = <<e>> /\ Len(<<e>>) = 1 /\ <<e>>[1] = e /\ DOMAIN <<e>> = {1}
OBVIOUS

\* A connection that waits, and the numbers of it.
Waiting(c) ==
  client[c] # "gone" /\ pc[c] # "closed" /\ Settled(c) /\ Awaited(c) /\ Busy(c)

\* A client that waits, before a step that does not end its connection.
LEMMA TurnBefore ==
  ASSUME IInv, IInv', NEW c \in Conn, Numbered(c), Turn(c), StepKind(c),
         client'[c] # "gone", pc'[c] # "closed"
  PROVE  Waiting(c) /\ ~failed[c] /\ ~failed'[c] /\ ~Fails(c) /\ ~Closes(c)
<1>1. client[c] # "gone" /\ ~Fails(c)
  BY DEF StepKind, Sends, Leaves, Responds, Breaks, Takes, Skips, Closes, Replies,
         Goes, Forwards, Writes, Flushes, Fails, Alone
<1>2. pc[c] # "closed" /\ ~Closes(c)
  BY <1>1 DEF StepKind, Sends, Leaves, Responds, Breaks, Takes, Skips, Closes, Replies,
         Goes, Forwards, Writes, Flushes, InSession, InHand
<1>3. ~failed[c] /\ ~failed'[c]
  BY <1>1, NumberedStep DEF Numbered
<1> QED BY <1>1, <1>2, <1>3 DEF Turn, Waiting

\* What is awaited was read.
LEMMA AwaitedRead ==
  ASSUME IInv, NEW c \in Conn, Numbered(c), Answered(c), Waiting(c), ~failed[c],
         Pending(c) # 0 \/ pc[c] \in InHand
  PROVE  Len(answers[c]) + 1 <= next[c]
<1>0. /\ Len(answers[c]) \in Nat /\ next[c] \in Nat /\ Mark(c) \in Nat /\ Mark(c) <= next[c]
  <2>1. answers[c] \in Seq(Answers)
    BY TypedAt DEF Typed, TypedOut
  <2> QED BY <2>1, MarkRead, LenProperties
<1>1. CASE pc[c] \in InHand
  <2>1. buf[c] # <<>> /\ Req(c) = buf[c][1]
    BY <1>1, TypedAt DEF Typed, TypedHand
  <2>2. buf[c][1].id = Len(answers[c]) + 1 /\ Len(buf[c]) = 1
    BY <1>1, <2>1 DEF Waiting, Awaited
  <2>3. buf[c][1].id + Len(buf[c]) - 1 <= next[c]
    BY <2>1 DEF Numbered
  <2> QED BY <1>0, <2>2, <2>3
<1>2. CASE Pending(c) # 0
  <2>1. /\ ses[c].resp \in Seq(Id) /\ ses[c].asked \in Seq(Id) /\ ses[c].ico \in Seq(Id)
        /\ wbuf[c] \in Seq(Answers) /\ answers[c] \in Seq(Answers)
    BY TypedAt DEF Typed, TypedSes, TypedOut
  <2>2. \E k \in Nat : k = Len(answers[c]) + 1 /\ k <= Mark(c)
    <3>1. CASE wbuf[c] # <<>>
      <4>1. 1 \in DOMAIN wbuf[c]
        BY <2>1, <3>1, EmptySeq, LenProperties
      <4>2. \E j \in DOMAIN Out(c) : Out(c)[j] = wbuf[c][1]
        <5>1. answers[c] \in Seq(Answers) /\ wbuf[c] \in Seq(Answers)
          BY <2>1
        <5> QED BY <3>1, <5>1, JoinedOut DEF Out
      <4>3. wbuf[c][1].re = Len(answers[c]) + 1
        BY <4>1 DEF Waiting, Awaited
      <4>4. wbuf[c][1].re <= Mark(c)
        BY <4>2 DEF Answered, Orderly, Waiting
      <4> QED BY <1>0, <4>3, <4>4
    <3>2. CASE ses[c].ico # <<>>
      <4>1. 1 \in DOMAIN ses[c].ico
        BY <2>1, <3>2, EmptySeq, LenProperties
      <4>2. ses[c].ico[1] <= Mark(c) /\ ses[c].ico[1] = Len(answers[c]) + 1
        BY <4>1 DEF Answered, Orderly, Waiting, Awaited, Only
      <4> QED BY <1>0, <4>2
    <3>3. CASE ses[c].asked # <<>>
      <4>1. Head(ses[c].asked) = ses[c].asked[1] /\ 1 \in DOMAIN ses[c].asked
        BY <2>1, <3>3, HeadTailProperties, EmptySeq, LenProperties
      <4>2. Head(ses[c].asked) = Len(answers[c]) + 1
        BY <4>1 DEF Waiting, Awaited, Only
      <4>3. \E j \in DOMAIN Owed(c) : Head(ses[c].asked) = Owed(c)[j]
        BY <2>1, <3>3, JoinedOwed DEF Owed
      <4>4. Head(ses[c].asked) <= Mark(c)
        BY <4>3 DEF Answered, Orderly, Waiting
      <4> QED BY <1>0, <4>2, <4>4
    <3>4. CASE ses[c].resp # <<>>
      <4>1. 1 \in DOMAIN ses[c].resp
        BY <2>1, <3>4, EmptySeq, LenProperties
      <4>2. \E j \in DOMAIN Owed(c) : Owed(c)[j] = ses[c].resp[1]
        <5>1. ses[c].resp \in Seq(Id) /\ ses[c].asked \in Seq(Id)
          BY <2>1
        <5>2. Head(ses[c].resp) = ses[c].resp[1]
          BY <3>4, <5>1, HeadTailProperties
        <5>3. Head(ses[c].resp) = Owed(c)[1] /\ 1 \in DOMAIN Owed(c)
          BY <3>4, <5>1, TailConcat DEF Owed
        <5> QED BY <5>2, <5>3
      <4>3. ses[c].resp[1] = Len(answers[c]) + 1
        BY <4>1 DEF Waiting, Awaited, Only
      <4>4. ses[c].resp[1] <= Mark(c)
        BY <4>2 DEF Answered, Orderly, Waiting
      <4> QED BY <1>0, <4>3, <4>4
    <3> QED BY <1>2, <3>1, <3>2, <3>3, <3>4, PendingCases
  <2> QED BY <1>0, <2>2
<1> QED BY <1>1, <1>2

\* Nothing is pending after a step.
LEMMA AwaitedNone ==
  ASSUME NEW c \in Conn, NEW n \in Nat, Len(answers'[c]) = n,
         ses'[c].resp = <<>>, ses'[c].asked = <<>>, ses'[c].ico = <<>>, wbuf'[c] = <<>>,
         pc'[c] \in InHand => Req(c)'.id = n + 1 /\ Len(buf'[c]) = 1
  PROVE  Awaited(c)'
<1>1. DOMAIN <<>> = {} /\ Len(<<>>) = 0 /\ 0 + 0 + 0 + 0 = 0
  OBVIOUS
<1>2. Pending(c)' = 0
  BY <1>1 DEF Pending
<1>3. /\ Only(ses'[c].resp, n + 1) /\ Only(ses'[c].asked, n + 1) /\ Only(ses'[c].ico, n + 1)
      /\ \A i \in DOMAIN wbuf'[c] : wbuf'[c][i].re = n + 1
  BY <1>1 DEF Only
<1> QED BY <1>2, <1>3 DEF Awaited

\* One request is pending after a step.
LEMMA AwaitedOne ==
  ASSUME NEW c \in Conn, NEW n \in Nat, Len(answers'[c]) = n,
         next'[c] # n, pc'[c] = "pipe",
         NEW q, q = <<n + 1>>, NEW e, e.re = n + 1,
         \/ /\ ses'[c].resp = q /\ ses'[c].asked = <<>>
            /\ ses'[c].ico = <<>> /\ wbuf'[c] = <<>>
         \/ /\ ses'[c].resp = <<>> /\ ses'[c].asked = q
            /\ ses'[c].ico = <<>> /\ wbuf'[c] = <<>>
         \/ /\ ses'[c].resp = <<>> /\ ses'[c].asked = <<>>
            /\ ses'[c].ico = q /\ wbuf'[c] = <<>>
         \/ /\ ses'[c].resp = <<>> /\ ses'[c].asked = <<>>
            /\ ses'[c].ico = <<>> /\ wbuf'[c] = <<e>>
  PROVE  Awaited(c)'
<1>1. DOMAIN <<>> = {} /\ Len(<<>>) = 0
  OBVIOUS
<1>2. Len(q) = 1 /\ Only(q, n + 1) /\ Len(<<e>>) = 1 /\ \A i \in DOMAIN <<e>> : <<e>>[i] = e
  BY DEF Only
<1>3. /\ Only(ses'[c].resp, n + 1) /\ Only(ses'[c].asked, n + 1) /\ Only(ses'[c].ico, n + 1)
      /\ \A i \in DOMAIN wbuf'[c] : wbuf'[c][i].re = n + 1
  BY <1>1, <1>2 DEF Only
<1>4. Pending(c)' = 1
  <2>1. Pending(c)' = Len(ses'[c].resp) + Len(ses'[c].asked) + Len(ses'[c].ico) + Len(wbuf'[c])
    BY DEF Pending
  <2>2. \/ /\ Len(ses'[c].resp) = 1 /\ Len(ses'[c].asked) = 0
           /\ Len(ses'[c].ico) = 0 /\ Len(wbuf'[c]) = 0
        \/ /\ Len(ses'[c].resp) = 0 /\ Len(ses'[c].asked) = 1
           /\ Len(ses'[c].ico) = 0 /\ Len(wbuf'[c]) = 0
        \/ /\ Len(ses'[c].resp) = 0 /\ Len(ses'[c].asked) = 0
           /\ Len(ses'[c].ico) = 1 /\ Len(wbuf'[c]) = 0
        \/ /\ Len(ses'[c].resp) = 0 /\ Len(ses'[c].asked) = 0
           /\ Len(ses'[c].ico) = 0 /\ Len(wbuf'[c]) = 1
    BY <1>1, <1>2
  <2>3. /\ 1 + 0 + 0 + 0 = 1 /\ 0 + 1 + 0 + 0 = 1
        /\ 0 + 0 + 1 + 0 = 1 /\ 0 + 0 + 0 + 1 = 1
    OBVIOUS
  <2> QED BY <2>1, <2>2, <2>3
<1> QED BY <1>3, <1>4 DEF Awaited, InHand

\* The numbers of a client that waits.
LEMMA WaitingAt ==
  ASSUME IInv, NEW c \in Conn, Waiting(c)
  PROVE  /\ answers[c] \in Seq(Answers) /\ Len(answers[c]) \in Nat
         /\ next[c] \in Nat /\ Len(stream[c]) \in Nat
         /\ Len(stream[c]) <= Len(answers[c]) + 1 /\ Len(answers[c]) <= next[c]
         /\ ses[c] \in Sessions
         /\ next[c] = Len(answers[c]) \/ pc[c] # "pipe" =>
              /\ ses[c].resp = <<>> /\ ses[c].asked = <<>>
              /\ ses[c].ico = <<>> /\ wbuf[c] = <<>>
<1>1. /\ answers[c] \in Seq(Answers) /\ next[c] \in Nat /\ Len(stream[c]) \in Nat
      /\ ses[c] \in Sessions
  BY TypedAt DEF Typed, TypedOut, TypedRead, TypedSes
<1>2. Len(answers[c]) \in Nat
  BY <1>1, LenProperties
<1>3. Len(stream[c]) <= Len(answers[c]) + 1 /\ Len(answers[c]) <= next[c]
  BY DEF Waiting, Settled
<1>4. next[c] = Len(answers[c]) \/ pc[c] # "pipe" => Pending(c) = 0
  BY DEF Waiting, Awaited
<1> QED BY <1>1, <1>2, <1>3, <1>4, PendingCases

\* Steps that leave what is read, answered and to be answered as it is.
LEMMA TurnIdle ==
  ASSUME IInv, IInv', NEW c \in Conn, Waiting(c),
         Sends(c) \/ Leaves(c) \/ Goes(c) \/ Skips(c) \/ Breaks(c),
         Polite, "idle_reset" \notin Faults, client'[c] # "gone"
  PROVE  Turn(c)'
<1>0. Settled(c) /\ Awaited(c) /\ Busy(c)
  BY DEF Waiting
<1>1. /\ answers'[c] = answers[c] /\ wbuf'[c] = wbuf[c] /\ next'[c] = next[c]
      /\ ses'[c].resp = ses[c].resp /\ ses'[c].asked = ses[c].asked
      /\ ses'[c].ico = ses[c].ico
  BY WaitingAt DEF Sends, Leaves, Goes, Skips, Breaks, SameOut, SameRead, Sessions
<1>2. Settled(c)'
  <2>1. CASE Sends(c)
    <3>1. stream[c] \in Seq(Requests)
      BY TypedAt DEF Typed, TypedRead
    <3>2. Len(stream'[c]) = Len(answers[c]) + 1
      BY <2>1, <3>1, Behind DEF Sends
    <3>3. Len(answers[c]) + 1 <= Len(answers[c]) + 1
      BY WaitingAt
    <3> QED BY <1>0, <1>1, <3>2, <3>3 DEF Settled
  <2>2. CASE ~Sends(c)
    <3>1. stream'[c] = stream[c]
      BY <2>2 DEF Leaves, Goes, Skips, Breaks, Alone
    <3> QED BY <1>0, <1>1, <3>1 DEF Settled
  <2> QED BY <2>1, <2>2
<1>3. Awaited(c)'
  <2>1. Pending(c)' = Pending(c)
    BY <1>1 DEF Pending
  <2>2. pc'[c] # "pipe" => pc[c] # "pipe"
    BY DEF Sends, Leaves, Goes, Skips, Breaks
  <2>3. pc'[c] \in InHand => pc[c] \in InHand /\ buf'[c] = buf[c] /\ Req(c)' = Req(c)
    BY DEF Sends, Leaves, Goes, Skips, Breaks, InHand, SameRead, Req
  <2> QED BY <1>0, <1>1, <2>1, <2>2, <2>3 DEF Awaited
<1>4. Busy(c)'
  <2>1. CASE Breaks(c)
    <3>1. /\ ses'[c].server = "reset" => ses[c].asked # <<>>
          /\ pc'[c] = pc[c]
      BY <2>1, WaitingAt DEF Breaks, Sessions
    <3>2. pc[c] = "forward" => ses[c].asked = <<>>
      BY WaitingAt
    <3> QED BY <1>1, <3>1, <3>2 DEF Busy
  <2>2. CASE ~Breaks(c)
    BY <1>0, <2>2 DEF Busy, Sends, Leaves, Goes, Skips
  <2> QED BY <2>1, <2>2
<1> QED BY <1>2, <1>3, <1>4 DEF Turn

\* The request that is pending moves on.
LEMMA TurnMoves ==
  ASSUME IInv, IInv', NEW c \in Conn, Waiting(c), Responds(c) \/ Writes(c)
  PROVE  Turn(c)'
<1>0. PICK n \in Nat : n = Len(answers[c])
  BY WaitingAt
<1>1. /\ answers'[c] = answers[c] /\ next'[c] = next[c] /\ pc'[c] = pc[c]
      /\ stream'[c] = stream[c] /\ pc[c] = "pipe" /\ ses[c].server = ses'[c].server
  BY WaitingAt DEF Responds, Writes, SameOut, SameRead, Alone, InSession, Sessions
<1>2. /\ ses[c] \in Sessions /\ Settled(c) /\ Awaited(c) /\ Busy(c) /\ Pending(c) <= 1
  BY WaitingAt DEF Waiting, Awaited
<1>3. next[c] # n
  BY <1>0, WaitingAt DEF Responds, Writes
<1>t. ses[c].resp \in Seq(Id) /\ ses[c].asked \in Seq(Id) /\ ses[c].ico \in Seq(Id)
  BY TypedAt DEF Typed, TypedSes
<1>a. ASSUME NEW q \in Seq(Id), Only(q, n + 1), Len(q) = 1
      PROVE  Head(q) = n + 1 /\ Tail(q) = <<>>
  <2>1. Head(q) = q[1] /\ 1 \in DOMAIN q /\ Tail(q) = <<>>
    BY <1>a, Single
  <2> QED BY <1>a, <2>1 DEF Only
<1>b. Only(ses[c].resp, n + 1) /\ Only(ses[c].asked, n + 1) /\ Only(ses[c].ico, n + 1)
  BY <1>0, <1>2 DEF Awaited
<1>4. Awaited(c)'
  <2>1. CASE Responds(c)
    <3>1. /\ ses[c].asked # <<>> /\ SameOut(c)
          /\ ses'[c].resp = Append(ses[c].resp, Head(ses[c].asked))
          /\ ses'[c].asked = Tail(ses[c].asked) /\ ses'[c].ico = ses[c].ico
      BY <1>2, <2>1 DEF Responds, Sessions
    <3>2. /\ Len(ses[c].asked) = 1 /\ ses[c].resp = <<>> /\ ses[c].ico = <<>>
          /\ wbuf[c] = <<>>
      BY <1>2, <3>1, PendingCases
    <3>3. Head(ses[c].asked) = n + 1 /\ Tail(ses[c].asked) = <<>>
      BY <1>a, <1>b, <1>t, <3>2
    <3>4. ses'[c].resp = <<n + 1>>
      BY <3>1, <3>2, <3>3, First
    <3>5. /\ ses'[c].asked = <<>> /\ ses'[c].ico = <<>> /\ wbuf'[c] = <<>>
          /\ Entry("server", n + 1).re = n + 1
      BY <3>1, <3>2, <3>3 DEF SameOut, Entry
    <3> QED BY <1>0, <1>1, <1>3, <3>4, <3>5, AwaitedOne
  <2>2. CASE /\ ses[c].resp # <<>>
             /\ ses'[c] = [ses[c] EXCEPT !.resp = Tail(ses[c].resp), !.flushing = TRUE]
             /\ wbuf'[c] = Append(wbuf[c], Entry("server", Head(ses[c].resp)))
    <3>1. /\ ses'[c].resp = Tail(ses[c].resp)
          /\ ses'[c].asked = ses[c].asked /\ ses'[c].ico = ses[c].ico
      BY <1>2, <2>2 DEF Sessions
    <3>2. /\ Len(ses[c].resp) = 1 /\ ses[c].asked = <<>> /\ ses[c].ico = <<>>
          /\ wbuf[c] = <<>>
      BY <1>2, <2>2, PendingCases
    <3>3. Head(ses[c].resp) = n + 1 /\ Tail(ses[c].resp) = <<>>
      BY <1>a, <1>b, <1>t, <3>2
    <3>4. wbuf'[c] = <<Entry("server", n + 1)>> /\ Entry("server", n + 1).re = n + 1
      BY <2>2, <3>2, <3>3, First DEF Entry
    <3> QED BY <1>0, <1>1, <1>3, <3>1, <3>2, <3>3, <3>4, AwaitedOne
  <2>3. CASE /\ ses[c].ico # <<>>
             /\ ses'[c] = [ses[c] EXCEPT !.ico = Tail(ses[c].ico), !.flushing = TRUE]
             /\ wbuf'[c] = Append(wbuf[c], Entry("icon", Head(ses[c].ico)))
    <3>1. /\ ses'[c].ico = Tail(ses[c].ico)
          /\ ses'[c].asked = ses[c].asked /\ ses'[c].resp = ses[c].resp
      BY <1>2, <2>3 DEF Sessions
    <3>2. /\ Len(ses[c].ico) = 1 /\ ses[c].asked = <<>> /\ ses[c].resp = <<>>
          /\ wbuf[c] = <<>>
      BY <1>2, <2>3, PendingCases
    <3>3. Head(ses[c].ico) = n + 1 /\ Tail(ses[c].ico) = <<>>
      BY <1>a, <1>b, <1>t, <3>2
    <3>4. wbuf'[c] = <<Entry("icon", n + 1)>> /\ Entry("icon", n + 1).re = n + 1
      BY <2>3, <3>2, <3>3, First DEF Entry
    <3> QED BY <1>0, <1>1, <1>3, <3>1, <3>2, <3>3, <3>4, AwaitedOne
  <2> QED BY <2>1, <2>2, <2>3 DEF Writes
<1>5. Settled(c)'
  BY <1>1, <1>2 DEF Settled
<1>6. Busy(c)'
  <2>1. CASE Responds(c)
    BY <1>1, <2>1 DEF Responds, Busy
  <2>2. CASE Writes(c)
    <3>1. ses'[c].asked = ses[c].asked
      BY <1>2, <2>2 DEF Writes, Sessions
    <3> QED BY <1>1, <1>2, <3>1 DEF Busy
  <2> QED BY <2>1, <2>2
<1> QED BY <1>4, <1>5, <1>6 DEF Turn

\* One answer behind others.
LEMMA JoinOne ==
  ASSUME NEW p \in Seq(Answers), NEW n \in Nat, Len(p) = n,
         NEW w \in Seq(Answers), Len(w) = 1
  PROVE  /\ Len(p \o w) = n + 1 /\ DOMAIN (p \o w) = 1 .. n + 1
         /\ \A i \in 1 .. n : (p \o w)[i] = p[i]
         /\ (p \o w)[n + 1] = w[1]
<1>1. Len(p \o w) = n + 1 /\ p \o w \in Seq(Answers)
  <2>1. Len(p \o w) = Len(p) + Len(w) /\ p \o w \in Seq(Answers)
    BY ConcatProperties
  <2> QED BY <2>1
<1>2. DOMAIN (p \o w) = 1 .. n + 1 /\ DOMAIN p = 1 .. n /\ DOMAIN w = 1 .. 1
  BY <1>1, LenProperties
<1>3. \A i \in DOMAIN p : (p \o w)[i] = p[i]
  BY Joined
<1>4. \A i \in DOMAIN w : (p \o w)[Len(p) + i] = w[i]
  BY Joined
<1>5. 1 \in DOMAIN w
  BY <1>2
<1>6. (p \o w)[n + 1] = w[1]
  BY <1>4, <1>5
<1> QED BY <1>1, <1>2, <1>3, <1>6

\* One answer more, to the request that was awaited.
LEMMA TurnSettles ==
  ASSUME IInv, NEW c \in Conn, Waiting(c),
         NEW w \in Seq(Answers), Len(w) = 1, w[1].re = Len(answers[c]) + 1,
         answers'[c] = answers[c] \o w,
         stream'[c] = stream[c], next'[c] = next[c], Len(answers[c]) + 1 <= next[c]
  PROVE  Settled(c)' /\ Len(answers'[c]) = Len(answers[c]) + 1
<1>0. PICK n \in Nat : n = Len(answers[c])
  BY WaitingAt
<1>1. answers[c] \in Seq(Answers) /\ Settled(c)
  BY WaitingAt DEF Waiting
<1>2. /\ Len(answers'[c]) = n + 1 /\ DOMAIN answers'[c] = 1 .. n + 1
      /\ \A i \in 1 .. n : answers'[c][i] = answers[c][i]
      /\ answers'[c][n + 1] = w[1]
  <2>1. answers[c] \in Seq(Answers) /\ Len(answers[c]) = n
    BY <1>0, <1>1
  <2>2. /\ Len(answers[c] \o w) = n + 1 /\ DOMAIN (answers[c] \o w) = 1 .. n + 1
        /\ \A i \in 1 .. n : (answers[c] \o w)[i] = answers[c][i]
        /\ (answers[c] \o w)[n + 1] = w[1]
    <3> HIDE <1>0
    <3> QED BY <2>1, JoinOne
  <2> QED BY <2>2
<1>3. DOMAIN answers[c] = 1 .. n
  BY <1>0, <1>1, LenProperties
<1>4. \A i \in 1 .. n : answers[c][i].re = i
  BY <1>1, <1>3 DEF Settled
<1>5. \A i \in 1 .. n + 1 : answers'[c][i].re = i
  BY <1>0, <1>2, <1>4
<1>6. Len(stream[c]) <= n + 1 /\ Len(stream[c]) \in Nat
  BY <1>0, WaitingAt
<1>7. Len(stream[c]) <= n + 1 + 1
  BY <1>6
<1> QED BY <1>0, <1>2, <1>5, <1>7 DEF Settled

\* The request that is awaited is read.
LEMMA TurnTakes ==
  ASSUME IInv, IInv', NEW c \in Conn, Numbered(c), Waiting(c), Takes(c), pc'[c] # "closed"
  PROVE  Turn(c)'
<1>0. PICK n \in Nat : n = Len(answers[c])
  BY WaitingAt
<1>1. /\ next[c] = n /\ next'[c] = n + 1 /\ Len(buf'[c]) = 1
      /\ Req(c)' = buf'[c][1] /\ buf'[c][1].id = n + 1
  <2>1. Reads(c)
    BY DEF Takes
  <2>2. /\ next[c] < next'[c] /\ next'[c] <= Len(stream[c]) /\ next'[c] \in Nat
        /\ Len(buf'[c]) = next'[c] - next[c] /\ buf'[c][1].id = next[c] + 1
        /\ Req(c)' = buf'[c][1]
    BY <2>1, ReadsRun
  <2>3. /\ next[c] \in Nat /\ Len(stream[c]) \in Nat
        /\ Len(stream[c]) <= n + 1 /\ n <= next[c]
    BY <1>0, WaitingAt
  <2>4. next[c] = n /\ next'[c] = n + 1
    BY <2>2, <2>3
  <2>5. n + 1 - n = 1
    OBVIOUS
  <2> QED BY <2>2, <2>4, <2>5
<1>2. /\ ses[c].resp = <<>> /\ ses[c].asked = <<>>
      /\ ses[c].ico = <<>> /\ wbuf[c] = <<>> /\ ses[c] \in Sessions
  BY <1>0, <1>1, WaitingAt
<1>3. /\ answers'[c] = answers[c] /\ wbuf'[c] = <<>> /\ stream'[c] = stream[c]
      /\ Settled(c) /\ Busy(c)
  BY <1>2 DEF Takes, SameOut, Alone, Waiting
<1>4. Settled(c)'
  BY <1>0, <1>1, <1>3 DEF Settled
<1>5. CASE ses'[c] = NoSession \/ ses'[c] = ses[c]
  <2>1. /\ ses'[c].resp = <<>> /\ ses'[c].asked = <<>> /\ ses'[c].ico = <<>>
    BY <1>2, <1>5 DEF NoSession
  <2>2. Awaited(c)'
    BY <1>0, <1>1, <1>3, <2>1, AwaitedNone
  <2>3. Busy(c)'
    <3>1. pc'[c] = "serve" \/ (pc[c] = "pipe" /\ ses'[c] = ses[c] /\ pc'[c] = "forward")
      \/ ses'[c].ico # <<>>
      <4>1. buf'[c][1].id \in Nat /\ Append(<<>>, buf'[c][1].id) # <<>>
        BY <1>1
      <4>2. ses'[c] = [ses[c] EXCEPT !.ico = Append(ses[c].ico, buf'[c][1].id)]
              => ses'[c].ico # <<>>
        BY <1>2, <4>1 DEF Sessions
      <4> QED BY <4>2 DEF Takes
    <3> QED BY <1>2, <1>3, <2>1, <3>1 DEF Busy
  <2> QED BY <1>4, <2>2, <2>3 DEF Turn
<1>6. CASE /\ pc[c] = "pipe" /\ pc'[c] = "pipe"
           /\ ses'[c] = [ses[c] EXCEPT !.ico = Append(ses[c].ico, buf'[c][1].id)]
  <2>1. /\ ses'[c].resp = <<>> /\ ses'[c].asked = <<>> /\ ses'[c].ico = Append(<<>>, n + 1)
        /\ ses'[c].server = ses[c].server
    BY <1>1, <1>2, <1>6 DEF Sessions
  <2>2. ses'[c].ico = <<n + 1>> /\ next'[c] # n /\ Entry("icon", n + 1).re = n + 1
    BY <1>1, <2>1, First DEF Entry
  <2>3. Awaited(c)'
    BY <1>0, <1>3, <1>6, <2>1, <2>2, AwaitedOne
  <2>4. Busy(c)'
    BY <1>2, <1>3, <1>6, <2>1 DEF Busy
  <2> QED BY <1>4, <2>3, <2>4 DEF Turn
<1> QED BY <1>5, <1>6 DEF Takes

\* It is forwarded.
LEMMA TurnForwards ==
  ASSUME IInv, IInv', NEW c \in Conn, Numbered(c), Answered(c), Waiting(c), ~failed[c],
         Forwards(c)
  PROVE  Turn(c)'
<1>0. PICK n \in Nat : n = Len(answers[c])
  BY WaitingAt
<1>1. pc[c] \in InHand /\ pc[c] # "pipe" /\ pc'[c] = "pipe"
  BY DEF Forwards, InHand
<1>2. /\ ses[c].resp = <<>> /\ ses[c].asked = <<>>
      /\ ses[c].ico = <<>> /\ wbuf[c] = <<>> /\ ses[c] \in Sessions
  BY <1>1, WaitingAt
<1>3. Req(c).id = n + 1 /\ Len(buf[c]) = 1 /\ Settled(c)
  BY <1>0, <1>1 DEF Waiting, Awaited
<1>4. buf[c] \in Seq(Requests) /\ buf[c] # <<>> /\ Req(c) = buf[c][1]
  BY <1>1, TypedAt DEF Typed, TypedHand, TypedRead
<1>5. next[c] # n
  <2>1. n + 1 <= next[c] /\ next[c] \in Nat
    BY <1>0, <1>1, AwaitedRead, WaitingAt
  <2> QED BY <2>1
<1>6. /\ answers'[c] = answers[c] /\ wbuf'[c] = <<>> /\ stream'[c] = stream[c]
      /\ next'[c] = next[c]
  BY <1>2 DEF Forwards, SameOut, SameRead
<1>7. DOMAIN buf[c] = {1}
  BY <1>3, <1>4, LenProperties
<1>8. [i \in DOMAIN buf[c] |-> buf[c][i].id] = <<n + 1>>
  <2>1. [i \in {1} |-> buf[c][i].id] = [i \in {1} |-> n + 1]
    BY <1>3, <1>4
  <2>2. <<n + 1>> = [i \in {1} |-> n + 1]
    OBVIOUS
  <2> QED BY <1>7, <2>1, <2>2
<1>9. /\ ses'[c].resp = <<>> /\ ses'[c].ico = <<>>
      /\ ses'[c].asked = <<>> \o [i \in DOMAIN buf[c] |-> buf[c][i].id]
  <2>1. PICK s \in Site :
          ses' = [ses EXCEPT ![c].site = s,
                    ![c].asked = @ \o [i \in DOMAIN buf[c] |-> buf[c][i].id]]
    BY DEF Forwards, Forward
  <2>2. ses \in [Conn -> Sessions]
    BY TypeParts DEF SesTyped, IInv
  <2> QED BY <1>2, <2>1, <2>2 DEF Sessions
<1>10. ses'[c].asked = <<n + 1>> /\ <<n + 1>> # <<>>
  <2>1. <<n + 1>> \in Seq(Nat)
    OBVIOUS
  <2>2. <<>> \o <<n + 1>> = <<n + 1>>
    BY <2>1
  <2> QED BY <1>8, <1>9, <2>2
<1>11. Awaited(c)'
  <2>1. Entry("server", n + 1).re = n + 1
    BY DEF Entry
  <2> QED BY <1>0, <1>1, <1>5, <1>6, <1>9, <1>10, <2>1, AwaitedOne
<1>12. Settled(c)'
  BY <1>3, <1>6 DEF Settled
<1>13. Busy(c)'
  BY <1>1, <1>10 DEF Busy
<1> QED BY <1>11, <1>12, <1>13 DEF Turn

\* What was written is flushed.
LEMMA TurnFlushes ==
  ASSUME IInv, IInv', NEW c \in Conn, Numbered(c), Answered(c), Waiting(c), ~failed[c],
         Flushes(c)
  PROVE  Turn(c)'
<1>0. PICK n \in Nat : n = Len(answers[c])
  BY WaitingAt
<1>1. /\ client[c] # "gone" /\ ses[c] \in Sessions /\ answers[c] \in Seq(Answers)
      /\ wbuf[c] \in Seq(Answers) /\ Settled(c) /\ Awaited(c) /\ Busy(c) /\ Pending(c) <= 1
  BY WaitingAt, TypedAt DEF Waiting, Awaited, Typed, TypedOut
<1>2. /\ ses'[c].resp = ses[c].resp /\ ses'[c].asked = ses[c].asked
      /\ ses'[c].ico = ses[c].ico /\ ses'[c].server = ses[c].server
      /\ wbuf'[c] = <<>> /\ answers'[c] = answers[c] \o wbuf[c]
      /\ pc'[c] = pc[c] /\ next'[c] = next[c] /\ stream'[c] = stream[c]
      /\ buf'[c] = buf[c] /\ Req(c)' = Req(c)
  BY <1>1 DEF Flushes, Sessions, SameRead, Alone, Req
<1>3. Busy(c)'
  BY <1>1, <1>2 DEF Busy
<1>4. CASE wbuf[c] = <<>>
  <2>1. answers'[c] = answers[c]
    BY <1>1, <1>2, <1>4, ConcatEmptySeq
  <2>2. Settled(c)'
    BY <1>1, <1>2, <2>1 DEF Settled
  <2>3. Pending(c)' = Pending(c)
    BY <1>2, <1>4 DEF Pending
  <2>4. Awaited(c)'
    BY <1>1, <1>2, <1>4, <2>1, <2>3 DEF Awaited
  <2> QED BY <1>3, <2>2, <2>4 DEF Turn
<1>5. CASE wbuf[c] # <<>>
  <2>1. /\ Len(wbuf[c]) = 1 /\ ses[c].resp = <<>> /\ ses[c].asked = <<>> /\ ses[c].ico = <<>>
    BY <1>1, <1>5, PendingCases
  <2>2. wbuf[c][1].re = n + 1
    <3>1. 1 \in DOMAIN wbuf[c]
      BY <1>1, <2>1, LenProperties
    <3> QED BY <1>0, <1>1, <3>1 DEF Awaited
  <2>3. Pending(c) # 0 /\ pc[c] = "pipe"
    BY <1>5, PendingCases, WaitingAt
  <2>4. n + 1 <= next[c]
    BY <1>0, <2>3, AwaitedRead
  <2>5. Settled(c)' /\ Len(answers'[c]) = n + 1
    BY <1>0, <1>1, <1>2, <2>1, <2>2, <2>4, TurnSettles
  <2>6. Awaited(c)'
    <3>1. pc'[c] \notin InHand /\ n + 1 \in Nat
      BY <1>2, <2>3 DEF InHand
    <3> QED BY <1>2, <2>1, <2>5, <3>1, AwaitedNone
  <2> QED BY <1>3, <2>5, <2>6 DEF Turn
<1> QED BY <1>4, <1>5

\* An answer of the proxy is the one that is awaited, or the 400 at the end
\* of the stream.
LEMMA ReplyAwaited ==
  ASSUME IInv, NEW c \in Conn, Numbered(c), Answered(c), Waiting(c), ~failed[c], Replies(c)
  PROVE  /\ ses'[c].resp = <<>> /\ ses'[c].asked = <<>> /\ ses'[c].ico = <<>>
         /\ wbuf'[c] = <<>> /\ next'[c] = next[c] /\ stream'[c] = stream[c]
         /\ client'[c] = client[c]
         /\ \E w \in Seq(Answers) :
              /\ Len(w) = 1 /\ answers'[c] = answers[c] \o w
              /\ \/ w[1].re = Len(answers[c]) + 1 /\ Len(answers[c]) + 1 <= next[c]
                 \/ pc'[c] = "closed" /\ client[c] # "open" /\ w[1] = Entry("400", 0)
<1>0. PICK n \in Nat : n = Len(answers[c])
  BY WaitingAt
<1>1. /\ client[c] # "gone" /\ ses[c] \in Sessions
      /\ Awaited(c) /\ Busy(c) /\ Pending(c) <= 1
  BY WaitingAt DEF Waiting, Awaited
<1>2. PICK what \in {"html", "200", "400", "404", "405", "500"}, re \in 0 .. MaxSend :
        /\ answers'[c] = answers[c] \o Append(wbuf[c], Entry(what, re))
        /\ \/ pc[c] \in InHand /\ re = Req(c).id
           \/ /\ pc[c] \in {"start", "read"} /\ pc'[c] = "closed"
              /\ client[c] # "open" /\ what = "400" /\ re = 0
           \/ InSession(c) /\ ses[c].server = "reset" /\ re = Unanswered(c)
  BY <1>1 DEF Replies
<1>3. /\ ses[c].resp = <<>> /\ ses[c].ico = <<>> /\ wbuf[c] = <<>>
      /\ pc[c] # "pipe" => ses[c].asked = <<>>
  <2>1. CASE pc[c] # "pipe"
    BY <2>1, WaitingAt
  <2>2. CASE pc[c] = "pipe"
    <3>1. ses[c].server = "reset"
      BY <1>2, <2>2 DEF InHand
    <3>2. ses[c].asked # <<>>
      BY <1>1, <2>2, <3>1 DEF Busy
    <3> QED BY <1>1, <2>2, <3>2, PendingCases
  <2> QED BY <2>1, <2>2
<1>4. \/ re = n + 1 /\ n + 1 <= next[c]
      \/ pc'[c] = "closed" /\ client[c] # "open" /\ what = "400" /\ re = 0
  <2>1. CASE pc[c] \in InHand /\ re = Req(c).id
    <3>1. Req(c).id = n + 1 /\ n + 1 <= next[c]
      BY <1>0, <1>1, <2>1, AwaitedRead DEF Awaited
    <3> QED BY <2>1, <3>1
  <2>2. CASE InSession(c) /\ ses[c].server = "reset" /\ re = Unanswered(c)
    <3>1. pc[c] = "pipe" /\ ses[c].asked # <<>>
      BY <1>1, <2>2 DEF InSession, Busy
    <3>2. re = Head(ses[c].asked)
      BY <2>2, <3>1 DEF Unanswered
    <3>3. ses[c].asked \in Seq(Id) /\ Only(ses[c].asked, n + 1) /\ Len(ses[c].asked) = 1
      BY <1>0, <1>1, <3>1, PendingCases, TypedAt DEF Awaited, Typed, TypedSes
    <3>4. Head(ses[c].asked) = n + 1
      <4>1. Head(ses[c].asked) = ses[c].asked[1] /\ 1 \in DOMAIN ses[c].asked
        BY <3>3, Single
      <4> QED BY <3>3, <4>1 DEF Only
    <3>5. Pending(c) # 0
      BY <3>1, PendingCases
    <3>6. n + 1 <= next[c]
      BY <1>0, <3>5, AwaitedRead
    <3> QED BY <3>2, <3>4, <3>6
  <2> QED BY <1>2, <2>1, <2>2
<1>5. /\ ses'[c].resp = <<>> /\ ses'[c].asked = <<>> /\ ses'[c].ico = <<>>
      /\ wbuf'[c] = <<>> /\ next'[c] = next[c] /\ stream'[c] = stream[c]
      /\ client'[c] = client[c]
  BY <1>3 DEF Replies, Ends, Alone, NoSession
<1> DEFINE w == <<Entry(what, re)>>
<1>6. /\ w \in Seq(Answers) /\ Len(w) = 1 /\ w[1] = Entry(what, re)
  <2>1. Entry(what, re) \in Answers
    BY <1>2 DEF Entry, Answers
  <2> QED BY <2>1
<1>7. answers'[c] = answers[c] \o w
  BY <1>2, <1>3
<1>8. \/ w[1].re = n + 1 /\ n + 1 <= next[c]
      \/ pc'[c] = "closed" /\ client[c] # "open" /\ w[1] = Entry("400", 0)
  BY <1>4, <1>6 DEF Entry
<1> HIDE DEF w
<1> QED BY <1>0, <1>5, <1>6, <1>7, <1>8

\* The proxy answers what is awaited.
LEMMA TurnReplies ==
  ASSUME IInv, IInv', NEW c \in Conn, Numbered(c), Answered(c), Waiting(c), ~failed[c],
         Replies(c), pc'[c] # "closed"
  PROVE  Turn(c)'
<1>1. PICK w \in Seq(Answers) :
        /\ Len(w) = 1 /\ answers'[c] = answers[c] \o w
        /\ w[1].re = Len(answers[c]) + 1 /\ Len(answers[c]) + 1 <= next[c]
  BY ReplyAwaited
<1>2. /\ ses'[c].resp = <<>> /\ ses'[c].asked = <<>> /\ ses'[c].ico = <<>>
      /\ wbuf'[c] = <<>> /\ next'[c] = next[c] /\ stream'[c] = stream[c]
      /\ pc'[c] = "read"
  BY ReplyAwaited DEF Replies
<1>3. Settled(c)' /\ Len(answers'[c]) = Len(answers[c]) + 1
  BY <1>1, <1>2, TurnSettles
<1>4. Awaited(c)'
  <2>1. PICK n \in Nat : n = Len(answers[c]) + 1
    BY WaitingAt
  <2>2. pc'[c] \notin InHand
    BY <1>2 DEF InHand
  <2> QED BY <1>2, <1>3, <2>1, <2>2, AwaitedNone
<1>5. Busy(c)'
  BY <1>2 DEF Busy
<1> QED BY <1>3, <1>4, <1>5 DEF Turn

\* Every step of a connection keeps its turn.
LEMMA TurnStep ==
  ASSUME IInv, IInv', NEW c \in Conn, Numbered(c), Answered(c), Turn(c), StepKind(c),
         Polite, "idle_reset" \notin Faults
  PROVE  Turn(c)'
<1> SUFFICES ASSUME client'[c] # "gone", pc'[c] # "closed" PROVE Turn(c)'
  BY DEF Turn
<1>1. Waiting(c) /\ ~failed[c] /\ ~Fails(c) /\ ~Closes(c)
  BY TurnBefore
<1>2. CASE Sends(c) \/ Leaves(c) \/ Goes(c) \/ Skips(c) \/ Breaks(c)
  BY <1>1, <1>2, TurnIdle
<1>3. CASE Responds(c) \/ Writes(c)
  BY <1>1, <1>3, TurnMoves
<1>4. CASE Takes(c)
  BY <1>1, <1>4, TurnTakes
<1>5. CASE Forwards(c)
  BY <1>1, <1>5, TurnForwards
<1>6. CASE Flushes(c)
  BY <1>1, <1>6, TurnFlushes
<1>7. CASE Replies(c)
  BY <1>1, <1>7, TurnReplies
<1> QED BY <1>1, <1>2, <1>3, <1>4, <1>5, <1>6, <1>7 DEF StepKind

\* The part of AnswersMatch for one connection.
Matching(c) ==
  \A i \in DOMAIN answers[c] :
    \/ answers[c][i].re = i
    \/ client[c] # "open" /\ answers[c][i] = Entry("400", 0) /\ i = Len(answers[c])

\* Every step keeps it.
LEMMA MatchStep ==
  ASSUME IInv, NEW c \in Conn, Numbered(c), Answered(c), Turn(c), Turn(c)', StepKind(c),
         Matching(c)
  PROVE  Matching(c)'
<1>1. CASE client'[c] # "gone" /\ pc'[c] # "closed"
  BY <1>1 DEF Turn, Settled, Matching
<1>2. CASE answers'[c] = answers[c]
  <2>1. client[c] # "open" => client'[c] # "open"
    BY DEF StepKind, Sends, Leaves, Responds, Breaks, Takes, Skips, Closes, Replies,
           Goes, Forwards, Writes, Flushes, Fails, Alone
  <2> QED BY <1>2, <2>1 DEF Matching
<1>3. CASE answers'[c] # answers[c] /\ (client'[c] = "gone" \/ pc'[c] = "closed")
  <2>1. Replies(c) /\ client[c] # "gone" /\ pc'[c] = "closed" /\ client'[c] = client[c]
    BY <1>3 DEF StepKind, Sends, Leaves, Responds, Breaks, Takes, Skips, Closes, Replies,
           Goes, Forwards, Writes, Flushes, Fails, Alone, SameOut, InSession
  <2>2. Waiting(c) /\ ~failed[c]
    BY <2>1 DEF Replies, Turn, Waiting, InHand, InSession, Numbered
  <2>3. PICK w \in Seq(Answers) :
          /\ Len(w) = 1 /\ answers'[c] = answers[c] \o w
          /\ \/ w[1].re = Len(answers[c]) + 1
             \/ client[c] # "open" /\ w[1] = Entry("400", 0)
    BY <2>1, <2>2, ReplyAwaited
  <2>4. PICK n \in Nat : n = Len(answers[c])
    BY <2>2, WaitingAt
  <2>5. answers[c] \in Seq(Answers) /\ Len(answers[c]) = n
    BY <2>2, <2>4, WaitingAt
  <2>6. /\ Len(answers[c] \o w) = n + 1 /\ DOMAIN (answers[c] \o w) = 1 .. n + 1
        /\ \A i \in 1 .. n : (answers[c] \o w)[i] = answers[c][i]
        /\ (answers[c] \o w)[n + 1] = w[1]
    <3>1. Len(w) = 1
      BY <2>3
    <3> QED BY <2>5, <3>1, JoinOne
  <2>7. DOMAIN answers[c] = 1 .. n /\ \A i \in 1 .. n : answers[c][i].re = i
    <3>1. DOMAIN answers[c] = 1 .. n
      BY <2>5, LenProperties
    <3> QED BY <2>2, <3>1 DEF Waiting, Settled
  <2>8. ASSUME NEW i \in 1 .. n + 1
        PROVE  \/ answers'[c][i].re = i
               \/ client'[c] # "open" /\ answers'[c][i] = Entry("400", 0) /\ i = n + 1
    <3>1. CASE i \in 1 .. n
      BY <2>3, <2>6, <2>7, <3>1
    <3>2. CASE i = n + 1
      BY <2>1, <2>3, <2>4, <2>6, <3>2
    <3> QED BY <3>1, <3>2
  <2> QED BY <2>3, <2>6, <2>8 DEF Matching
<1> QED BY <1>1, <1>2, <1>3

\* A connection that does not move keeps its turn.
LEMMA UnmovedTurn ==
  ASSUME NEW c \in Conn, Unmoved(c), Turn(c), Matching(c)
  PROVE  Turn(c)' /\ Matching(c)'
<1> USE DEF Unmoved
<1>1. Settled(c)' <=> Settled(c)
  BY DEF Settled
<1>2. Awaited(c)' <=> Awaited(c)
  <2>1. Pending(c)' = Pending(c) /\ Req(c)' = Req(c)
    BY DEF Pending, Req
  <2> QED BY <2>1 DEF Awaited
<1>3. Busy(c)' <=> Busy(c)
  BY DEF Busy
<1> QED BY <1>1, <1>2, <1>3 DEF Turn, Matching

\* The invariant of clients that wait holds when the program starts.
LEMMA InitTurn == Init => TurnInv
<1> SUFFICES ASSUME Init PROVE TurnInv
  OBVIOUS
<1>1. ASSUME NEW c \in Conn PROVE Turn(c) /\ Matching(c)
  <2>1. /\ stream[c] = <<>> /\ answers[c] = <<>> /\ wbuf[c] = <<>> /\ next[c] = 0
        /\ pc[c] = "start" /\ ses[c].resp = <<>> /\ ses[c].asked = <<>> /\ ses[c].ico = <<>>
    BY DEF Init, NoSession
  <2>2. DOMAIN <<>> = {} /\ Len(<<>>) = 0 /\ 0 + 0 + 0 + 0 = 0
    OBVIOUS
  <2>3. Pending(c) = 0
    BY <2>1, <2>2 DEF Pending
  <2>4. Settled(c) /\ Busy(c)
    BY <2>1, <2>2 DEF Settled, Busy
  <2>5. Awaited(c)
    BY <2>1, <2>2, <2>3 DEF Awaited, Only, InHand
  <2> QED BY <2>1, <2>2, <2>4, <2>5 DEF Turn, Matching
<1> QED BY <1>1, InitOrder DEF TurnInv, AnswersMatch, Matching

\* And every step keeps it, if clients wait and servers do not break off
\* without cause.
LEMMA NextTurn ==
  ASSUME Polite, "idle_reset" \notin Faults
  PROVE  TurnInv /\ [Next]_vars => TurnInv'
<1> SUFFICES ASSUME TurnInv, [Next]_vars PROVE TurnInv'
  OBVIOUS
<1>0. OrderInv /\ OrderInv' /\ IInv /\ IInv'
      /\ \A c \in Conn : Numbered(c) /\ Answered(c) /\ Turn(c) /\ Matching(c)
  BY NextOrder DEF TurnInv, OrderInv, AnswersMatch, Matching
<1> DEFINE Kept(d) == Turn(d) /\ Matching(d)
<1> SUFFICES ASSUME NEW c \in Conn PROVE Kept(c)'
  BY <1>0 DEF TurnInv, AnswersMatch, Matching
<1>1. ASSUME NEW d \in Conn, Send(d) \/ Leave(d) \/ Respond(d) \/ Break(d) \/ Task(d)
      PROVE  Kept(c)'
  <2>1. CASE c = d
    <3>1. StepKind(c)
      BY <1>0, <1>1, <2>1, KindStep
    <3>2. Turn(c)'
      BY <1>0, <3>1, TurnStep
    <3> QED BY <1>0, <3>1, <3>2, MatchStep
  <2>2. CASE c # d
    <3>1. Unmoved(c)
      BY <1>0, <1>1, <2>2, OthersUnmoved
    <3> QED BY <1>0, <3>1, UnmovedTurn
  <2> QED BY <2>1, <2>2
<1>2. CASE AcceptFails
  <2>1. pc'[c] = "closed" /\ UNCHANGED <<client, answers>>
    BY <1>2 DEF AcceptFails, input, output
  <2> QED BY <1>0, <2>1 DEF Turn, Matching
<1>3. CASE UNCHANGED vars
  <2>1. Unmoved(c)
    BY <1>3 DEF vars, input, output, history, Unmoved
  <2> QED BY <1>0, <2>1, UnmovedTurn
<1> QED BY <1>1, <1>2, <1>3 DEF Next

\* A client that waits for its answers can take the n-th answer for that of
\* its n-th request, if servers break off only while they have a request to
\* answer: neither switches of site nor favicons nor failures shift them.
THEOREM AnswersFollowRequests ==
  ASSUME Polite, "idle_reset" \notin Faults
  PROVE  Spec => []AnswersMatch
<1>1. TurnInv => AnswersMatch
  BY DEF TurnInv
<1> QED BY <1>1, InitTurn, NextTurn, PTL DEF Spec
=============================================================================
