-------------------------- MODULE ConnectionProofs --------------------------
(***************************************************************************)
(* What Connection keeps for any number of connections and sites, whatever *)
(* is sent and whatever fails: its types, the routing of reads by their    *)
(* first request, and that a deleted route stays deleted.                  *)
(***************************************************************************)
EXTENDS Connection, SequenceTheorems, TLAPS

(***************************************************************************)
(* The inductive invariant, by parts.                                      *)
(***************************************************************************)

\* Where the read in req_buf is still to be dealt with, or is the last one of
\* a session.
Holding == {"serve", "delete", "connect", "pipe", "forward"}

\* What the place of a task says about the read and the session.
ReadInHand(c) ==
  /\ pc[c] \in Holding => buf[c] # <<>>
  /\ pc[c] = "delete" => Req(c).target \in Site
  /\ pc[c] = "connect" => Req(c).to \in Site /\ Req(c).to \notin Req(c).late
  /\ pc[c] = "forward" => Req(c).to \in ForSession(c)
  /\ InSession(c) => ses[c].site \in Site

\* A client sends within its bound, and no more is read than was sent.
Bounded(c) == Len(stream[c]) <= MaxSend /\ next[c] <= Len(stream[c])

\* What a request found deleted when it was sent still is.
LateIn(q) == \A i \in DOMAIN q : q[i].late \subseteq deleted

Local(c) == Bounded(c) /\ ReadInHand(c) /\ LateIn(stream[c]) /\ LateIn(buf[c])

IInv ==
  /\ TypeOK
  /\ \A c \in Conn : Local(c)
  /\ routes \cap deleted = {}
  /\ RoutedBySite
  /\ DeletedStaysDeleted

-----------------------------------------------------------------------------
(***************************************************************************)
(* Sequences.                                                              *)
(***************************************************************************)

\* A function on 1 .. n is a sequence.
LEMMA FunctionIsSeq ==
  ASSUME NEW S, NEW n \in Nat, NEW f \in [1 .. n -> S]
  PROVE  f \in Seq(S) /\ Len(f) = n
OBVIOUS

\* What a read takes out of a sequence is a sequence, and not empty.
LEMMA SubSeqTyped ==
  \A S : \A s \in Seq(S) : \A m \in Nat : \A k \in m + 1 .. Len(s) :
    /\ SubSeq(s, m + 1, k) \in Seq(S) /\ SubSeq(s, m + 1, k) # <<>>
    /\ \A i \in DOMAIN SubSeq(s, m + 1, k) :
         \E l \in DOMAIN s : SubSeq(s, m + 1, k)[i] = s[l]
<1> SUFFICES ASSUME NEW S, NEW s \in Seq(S), NEW m \in Nat, NEW k \in m + 1 .. Len(s)
             PROVE  /\ SubSeq(s, m + 1, k) \in Seq(S) /\ SubSeq(s, m + 1, k) # <<>>
                    /\ \A i \in DOMAIN SubSeq(s, m + 1, k) :
                         \E l \in DOMAIN s : SubSeq(s, m + 1, k)[i] = s[l]
  OBVIOUS
<1>1. \A i \in m + 1 .. k : s[i] \in S
  OBVIOUS
<1>2. SubSeq(s, m + 1, k) \in Seq(S) /\ Len(SubSeq(s, m + 1, k)) = k - m
  BY <1>1, SubSeqProperties
<1>3. \A i \in 1 .. k - m : SubSeq(s, m + 1, k)[i] = s[m + i]
  BY <1>1, SubSeqProperties
<1> QED BY <1>2, <1>3

\* What is put behind a sequence is a sequence, with the elements of both.
LEMMA ConcatTyped ==
  ASSUME NEW S, NEW p \in Seq(S), NEW q \in Seq(S)
  PROVE  /\ p \o q \in Seq(S)
         /\ \A i \in DOMAIN (p \o q) :
              \/ \E l \in DOMAIN p : (p \o q)[i] = p[l]
              \/ \E l \in DOMAIN q : (p \o q)[i] = q[l]
<1>1. /\ p \o q \in Seq(S) /\ Len(p) \in Nat /\ Len(q) \in Nat
      /\ DOMAIN p = 1 .. Len(p) /\ DOMAIN q = 1 .. Len(q)
      /\ DOMAIN (p \o q) = 1 .. Len(p) + Len(q)
      /\ \A i \in 1 .. Len(p) + Len(q) :
           (p \o q)[i] = IF i <= Len(p) THEN p[i] ELSE q[i - Len(p)]
  BY ConcatProperties, LenProperties
<1>2. \A i \in 1 .. Len(p) + Len(q) : i \in 1 .. Len(p) \/ i - Len(p) \in 1 .. Len(q)
  BY <1>1
<1>3. \A i \in 1 .. Len(p) + Len(q) : i \in 1 .. Len(p) => i <= Len(p)
  BY <1>1
<1> QED BY <1>1, <1>2, <1>3

-----------------------------------------------------------------------------
(***************************************************************************)
(* Types: what the helpers of Connection assign.                           *)
(***************************************************************************)
Place == {"start", "read", "serve", "delete", "connect", "pipe", "forward", "closed"}

ReadTyped ==
  /\ next \in [Conn -> 0 .. MaxSend]
  /\ buf \in [Conn -> Seq(Requests)]
  /\ len \in [Conn -> 0 .. MaxSend]

PlaceTyped == pc \in [Conn -> Place]

SesTyped == ses \in [Conn -> Sessions]

OutputTyped == wbuf \in [Conn -> Seq(Answers)] /\ answers \in [Conn -> Seq(Answers)]

SharedTyped == routes \subseteq Site /\ deleted \subseteq Site

InputTyped ==
  client \in [Conn -> {"open", "half", "gone"}] /\ stream \in [Conn -> Seq(Requests)]

HistoryTyped ==
  received \in [Conn -> Seq(Receipts)] /\ failed \in [Conn -> BOOLEAN]

\* The type invariant, in the parts that one helper assigns each.
LEMMA TypeParts ==
  TypeOK <=> /\ SharedTyped /\ InputTyped /\ ReadTyped /\ PlaceTyped
             /\ SesTyped /\ OutputTyped /\ HistoryTyped
BY DEF TypeOK, SharedTyped, InputTyped, ReadTyped, PlaceTyped, SesTyped,
       OutputTyped, HistoryTyped, Place

\* write_flush, of whatever is to go out.
LEMMA FlushTyped ==
  ASSUME OutputTyped, NEW c \in Conn, NEW q \in Seq(Answers), Flush(c, q)
  PROVE  OutputTyped'
<1>1. answers[c] \o q \in Seq(Answers)
  BY ConcatProperties DEF OutputTyped
<1> QED BY <1>1, EmptySeq DEF OutputTyped, Flush

\* An answer goes behind what is in the buffer.
LEMMA AnswerTyped ==
  ASSUME OutputTyped, NEW c \in Conn, NEW re \in 0 .. MaxSend,
         NEW what \in {"html", "icon", "200", "400", "404", "405", "500", "server"},
         Answer(c, what, re)
  PROVE  OutputTyped'
<1>1. Entry(what, re) \in Answers
  BY DEF Entry, Answers
<1>2. Append(wbuf[c], Entry(what, re)) \in Seq(Answers)
  BY <1>1, AppendProperties DEF OutputTyped
<1> QED BY <1>2, FlushTyped DEF Answer

\* The end of a task without a flush.
LEMMA DropTyped ==
  ASSUME OutputTyped, NEW c \in Conn, Drop(c)
  PROVE  OutputTyped'
BY EmptySeq DEF OutputTyped, Drop

\* The first request of a read that is not empty.
LEMMA ReqTyped ==
  ASSUME ReadTyped, NEW c \in Conn, buf[c] # <<>>
  PROVE  /\ Req(c) \in Requests /\ Req(c).id \in Id /\ Req(c).id \in 0 .. MaxSend
         /\ Req(c) = buf[c][1] /\ 1 \in DOMAIN buf[c]
<1>1. Req(c) \in Requests /\ Req(c) = buf[c][1] /\ 1 \in DOMAIN buf[c]
  BY EmptySeq, LenProperties, ElementOfSeq DEF ReadTyped, Req
<1> QED BY <1>1 DEF Requests, Id

\* `continue' with bytes_read = 0, and the end of a task.
LEMMA ContinueTyped ==
  ASSUME ReadTyped, PlaceTyped, ConnectionAssumption, NEW c \in Conn,
         Continue(c) \/ Close(c), UNCHANGED next
  PROVE  ReadTyped' /\ PlaceTyped' /\ buf'[c] = <<>> /\ pc'[c] \in {"read", "closed"}
<1>1. buf' = [buf EXCEPT ![c] = <<>>] /\ len' = [len EXCEPT ![c] = 0]
      /\ \E label \in {"read", "closed"} : pc' = [pc EXCEPT ![c] = label]
  BY DEF Continue, Close, Goto
<1>2. <<>> \in Seq(Requests) /\ 0 \in 0 .. MaxSend
  BY EmptySeq, ConnectionAssumption
<1>3. ReadTyped' /\ buf'[c] = <<>>
  BY <1>1, <1>2 DEF ReadTyped
<1>4. PlaceTyped' /\ pc'[c] \in {"read", "closed"}
  BY <1>1 DEF PlaceTyped, Place
<1> QED BY <1>3, <1>4

\* A read brings what the client sent next, one request or more.
LEMMA TakeTyped ==
  ASSUME InputTyped, ReadTyped, NEW c \in Conn, Local(c), Take(c)
  PROVE  /\ next' \in [Conn -> 0 .. MaxSend] /\ buf' \in [Conn -> Seq(Requests)]
         /\ buf'[c] # <<>> /\ buf'[c][1] \in Requests /\ Req(c)' = buf'[c][1]
         /\ next'[c] <= Len(stream[c])
         /\ \A i \in DOMAIN buf'[c] : buf'[c][i].late \subseteq deleted
         /\ \A d \in Conn \ {c} : buf'[d] = buf[d] /\ next'[d] = next[d]
<1>1. PICK n \in next[c] + 1 .. Len(stream[c]) :
        /\ buf' = [buf EXCEPT ![c] = SubSeq(stream[c], next[c] + 1, n)]
        /\ next' = [next EXCEPT ![c] = n]
  BY DEF Take
<1>2. stream[c] \in Seq(Requests) /\ next[c] \in Nat /\ Len(stream[c]) <= MaxSend
      /\ Len(stream[c]) \in Nat
  BY LenProperties DEF InputTyped, ReadTyped, Local, Bounded
<1> DEFINE r == SubSeq(stream[c], next[c] + 1, n)
<1>3. /\ r \in Seq(Requests) /\ r # <<>>
      /\ \A i \in DOMAIN r : \E j \in DOMAIN stream[c] : r[i] = stream[c][j]
  <2>1. n \in next[c] + 1 .. Len(stream[c])
    BY <1>1
  <2>2. stream[c] \in Seq(Requests) /\ next[c] \in Nat
    BY <1>2
  <2> QED BY <2>1, <2>2, SubSeqTyped
<1>4. n \in 0 .. MaxSend /\ n <= Len(stream[c])
  BY <1>1, <1>2, ConnectionAssumption
<1>5. buf'[c] = r /\ next'[c] = n
  BY <1>1 DEF ReadTyped
<1>6. next' \in [Conn -> 0 .. MaxSend] /\ buf' \in [Conn -> Seq(Requests)]
  BY <1>1, <1>3, <1>4 DEF ReadTyped
<1>7. \A i \in DOMAIN r : r[i].late \subseteq deleted
  BY <1>3 DEF Local, LateIn
<1>8. r[1] \in Requests /\ Head(r) = r[1]
  BY <1>3, EmptySeq, LenProperties, ElementOfSeq
<1>9. \A d \in Conn \ {c} : buf'[d] = buf[d] /\ next'[d] = next[d]
  BY <1>1 DEF ReadTyped
<1> QED BY <1>3, <1>4, <1>5, <1>6, <1>7, <1>8, <1>9 DEF Req

-----------------------------------------------------------------------------
(***************************************************************************)
(* A step of one connection.                                               *)
(***************************************************************************)

\* What a step of c leaves alone of the other connections.
Frame(c) == \A d \in Conn \ {c} :
  /\ stream'[d] = stream[d] /\ next'[d] = next[d] /\ buf'[d] = buf[d]
  /\ pc'[d] = pc[d] /\ ses'[d] = ses[d] /\ received'[d] = received[d]

\* What both properties of routing say of one entry of received.
Rightful(r) ==
  /\ r.leads => r.to = r.site \/ (r.to \in {"garbled", "special"} /\ ~r.opens)
  /\ r.opens => r.site \notin r.late

\* The two properties by entries.
LEMMA ReceiptsRightful ==
  RoutedBySite /\ DeletedStaysDeleted
    <=> \A c \in Conn : \A i \in DOMAIN received[c] : Rightful(received[c][i])
BY DEF RoutedBySite, DeletedStaysDeleted, Rightful

\* The invariant holds after a step of c that keeps c's part of it.
LEMMA StepKeeps ==
  ASSUME IInv, NEW c \in Conn, TypeOK', Local(c)', Frame(c),
         deleted \subseteq deleted', routes' \cap deleted' = {},
         \A i \in DOMAIN received'[c] : Rightful(received'[c][i])
  PROVE  IInv'
<1>1. ASSUME NEW d \in Conn PROVE Local(d)'
  <2>1. CASE d = c
    BY <2>1
  <2>2. CASE d # c
    <3>1. /\ stream'[d] = stream[d] /\ next'[d] = next[d] /\ buf'[d] = buf[d]
          /\ pc'[d] = pc[d] /\ ses'[d] = ses[d]
      BY <2>2 DEF Frame
    <3>2. Bounded(d)'
      BY <3>1 DEF IInv, Local, Bounded
    <3>3. ReadInHand(d)'
      BY <3>1 DEF IInv, Local, ReadInHand, Req, ForSession, InSession
    <3>4. LateIn(stream[d])' /\ LateIn(buf[d])'
      BY <3>1 DEF IInv, Local, LateIn
    <3> QED BY <3>2, <3>3, <3>4 DEF Local
  <2> QED BY <2>1, <2>2
<1>2. \A d \in Conn : \A i \in DOMAIN received'[d] : Rightful(received'[d][i])
  BY ReceiptsRightful DEF IInv, Frame
<1>3. RoutedBySite' /\ DeletedStaysDeleted'
  BY <1>2 DEF RoutedBySite, DeletedStaysDeleted, Rightful
<1> QED BY <1>1, <1>3 DEF IInv

\* As most steps, one that forwards nothing and deletes no route.
LEMMA PlainStep ==
  ASSUME IInv, NEW c \in Conn, TypeOK', Frame(c), UNCHANGED <<shared, received>>,
         Bounded(c)', ReadInHand(c)', LateIn(stream[c])', LateIn(buf[c])'
  PROVE  IInv'
<1>1. UNCHANGED <<routes, deleted, received>>
  BY DEF shared
<1>2. \A i \in DOMAIN received'[c] : Rightful(received'[c][i])
  BY <1>1, ReceiptsRightful DEF IInv
<1>3. deleted \subseteq deleted' /\ routes' \cap deleted' = {}
  BY <1>1 DEF IInv
<1> QED BY <1>2, <1>3, StepKeeps DEF Local

-----------------------------------------------------------------------------
(***************************************************************************)
(* The kinds of steps.                                                     *)
(***************************************************************************)

\* EndSession, and any session without anything in it.
LEMMA NoSessionTyped == NoSession \in Sessions
BY EmptySeq DEF NoSession, Sessions

\* The end of a session leaves the sessions of others.
LEMMA EndSessionTyped ==
  ASSUME SesTyped, NEW c \in Conn, EndSession(c)
  PROVE  SesTyped' /\ \A d \in Conn \ {c} : ses'[d] = ses[d]
BY NoSessionTyped DEF SesTyped, EndSession

\* A step that ends a request or the connection: what was read is dealt with.
LEMMA EndingStep ==
  ASSUME IInv, NEW c \in Conn, Continue(c) \/ Close(c),
         UNCHANGED <<shared, input, next, history>>, OutputTyped',
         SesTyped', \A d \in Conn \ {c} : ses'[d] = ses[d]
  PROVE  IInv'
<1>1. /\ SharedTyped /\ InputTyped /\ ReadTyped /\ PlaceTyped /\ HistoryTyped
      /\ Local(c)
  BY TypeParts DEF IInv
<1>2. ReadTyped' /\ PlaceTyped' /\ buf'[c] = <<>> /\ pc'[c] \in {"read", "closed"}
  BY <1>1, ContinueTyped, ConnectionAssumption
<1>3. UNCHANGED <<routes, deleted, client, stream, next, received, failed>>
  BY DEF shared, input, history
<1>4. TypeOK'
  BY <1>1, <1>2, <1>3, TypeParts DEF SharedTyped, InputTyped, HistoryTyped, TypeOK,
     ReadTyped, PlaceTyped, SesTyped, OutputTyped, Place
<1>5. \A d \in Conn \ {c} : pc'[d] = pc[d] /\ buf'[d] = buf[d]
  BY <1>1 DEF Continue, Close, Goto, ReadTyped, PlaceTyped
<1>6. Frame(c)
  BY <1>3, <1>5 DEF Frame
<1>7. ReadInHand(c)' /\ LateIn(buf[c])'
  BY <1>2 DEF ReadInHand, Holding, InSession, LateIn
<1>8. Bounded(c)' /\ LateIn(stream[c])'
  BY <1>1, <1>3 DEF Local, Bounded, LateIn
<1> QED BY <1>3, <1>4, <1>6, <1>7, <1>8, PlainStep DEF shared

\* A step that reads from the client and goes to a place where nothing has
\* been decided about the read, or where it is passed on.
LEMMA TakingStep ==
  ASSUME IInv, NEW c \in Conn, Take(c),
         NEW label \in Place \ {"delete", "connect"}, Goto(c, label),
         UNCHANGED <<shared, input, history>>, OutputTyped',
         len' \in [Conn -> 0 .. MaxSend],
         SesTyped', \A d \in Conn \ {c} : ses'[d] = ses[d],
         label \in {"pipe", "forward"} => ses'[c].site = ses[c].site /\ InSession(c),
         label = "forward" => buf'[c][1].to \in ForSession(c)
  PROVE  IInv'
<1>1. /\ SharedTyped /\ InputTyped /\ ReadTyped /\ PlaceTyped /\ HistoryTyped
      /\ Local(c)
  BY TypeParts DEF IInv
<1>2. UNCHANGED <<routes, deleted, client, stream, received, failed>>
  BY DEF shared, input, history
<1>3. /\ ReadTyped' /\ buf'[c] # <<>> /\ Req(c)' = buf'[c][1] /\ next'[c] <= Len(stream[c])
      /\ \A i \in DOMAIN buf'[c] : buf'[c][i].late \subseteq deleted
      /\ \A d \in Conn \ {c} : buf'[d] = buf[d] /\ next'[d] = next[d]
  BY <1>1, TakeTyped DEF ReadTyped
<1>4. PlaceTyped' /\ pc'[c] = label /\ \A d \in Conn \ {c} : pc'[d] = pc[d]
  BY <1>1 DEF PlaceTyped, Goto
<1>5. TypeOK'
  BY <1>1, <1>2, <1>3, <1>4 DEF SharedTyped, InputTyped, HistoryTyped, TypeOK,
     ReadTyped, PlaceTyped, SesTyped, OutputTyped, Place
<1>6. Frame(c)
  BY <1>2, <1>3, <1>4 DEF Frame
<1>7. ReadInHand(c)'
  BY <1>1, <1>3, <1>4 DEF ReadInHand, InSession, Local, ForSession
<1>8. Bounded(c)' /\ LateIn(stream[c])' /\ LateIn(buf[c])'
  BY <1>1, <1>2, <1>3 DEF Local, Bounded, LateIn
<1> QED BY <1>2, <1>5, <1>6, <1>7, <1>8, PlainStep DEF shared

\* A step within a session that concerns its server or its answers.
LEMMA SessionStep ==
  ASSUME IInv, NEW c \in Conn,
         UNCHANGED <<shared, input, next, pc, buf, len, history>>, OutputTyped',
         SesTyped', \A d \in Conn \ {c} : ses'[d] = ses[d], ses'[c].site = ses[c].site
  PROVE  IInv'
<1>1. UNCHANGED <<routes, deleted, client, stream, next, pc, buf, len, received, failed>>
  BY DEF shared, input, history
<1>2. TypeOK'
  BY <1>1 DEF IInv, TypeOK, SesTyped, OutputTyped
<1>3. Frame(c)
  BY <1>1 DEF Frame
<1>4. ReadInHand(c)'
  BY <1>1 DEF IInv, Local, ReadInHand, InSession, Req, ForSession
<1>5. Bounded(c)' /\ LateIn(stream[c])' /\ LateIn(buf[c])'
  BY <1>1 DEF IInv, Local, Bounded, LateIn
<1> QED BY <1>1, <1>2, <1>3, <1>4, <1>5, PlainStep DEF shared

-----------------------------------------------------------------------------
(***************************************************************************)
(* The steps of the clients and the servers.                               *)
(***************************************************************************)
\* A client sends: the request knows what is deleted by then.
LEMMA SendStep ==
  ASSUME IInv, NEW c \in Conn, Send(c)
  PROVE  IInv'
<1>1. /\ SharedTyped /\ InputTyped /\ ReadTyped /\ PlaceTyped /\ HistoryTyped
      /\ SesTyped /\ OutputTyped /\ Local(c)
  BY TypeParts DEF IInv
<1>2. UNCHANGED <<routes, deleted, client, next, pc, buf, len, ses, wbuf, answers,
                  received, failed>>
  BY DEF Send, shared, output, history
<1>3. stream[c] \in Seq(Requests) /\ Len(stream[c]) \in Nat /\ Len(stream[c]) < MaxSend
  BY <1>1, LenProperties DEF Send, InputTyped
<1>4. PICK r \in Requests : r.late = deleted /\ stream' = [stream EXCEPT ![c] = Append(@, r)]
  <2>1. PICK k \in Kinds, s \in Site \cup {NoSite} :
          stream' = [stream EXCEPT ![c] = Append(@,
            [id |-> Len(@) + 1, to |-> k, target |-> s, late |-> deleted])]
    BY DEF Send
  <2>2. Len(stream[c]) + 1 \in Id /\ k \in Kind /\ deleted \subseteq Site
    BY <1>1, <1>3, ConnectionAssumption DEF Id, SharedTyped
  <2> DEFINE r == [id |-> Len(stream[c]) + 1, to |-> k, target |-> s, late |-> deleted]
  <2>3. r \in Requests
    BY <2>2 DEF Requests
  <2> QED BY <1>1, <2>1, <2>3 DEF InputTyped
<1>5. /\ Append(stream[c], r) \in Seq(Requests)
      /\ Len(Append(stream[c], r)) = Len(stream[c]) + 1
      /\ \A i \in DOMAIN Append(stream[c], r) :
           Append(stream[c], r)[i] = r \/ (i \in DOMAIN stream[c] /\ Append(stream[c], r)[i] = stream[c][i])
  BY <1>3, AppendProperties
<1>6. stream' \in [Conn -> Seq(Requests)] /\ stream'[c] = Append(stream[c], r)
      /\ \A d \in Conn \ {c} : stream'[d] = stream[d]
  BY <1>1, <1>4, <1>5 DEF InputTyped
<1>7. TypeOK'
  BY <1>1, <1>2, <1>6, TypeParts DEF TypeOK, InputTyped, IInv
<1>8. Bounded(c)' /\ ReadInHand(c)'
  BY <1>1, <1>2, <1>3, <1>5, <1>6, ConnectionAssumption
  DEF Bounded, Local, ReadInHand, Req, ForSession, InSession, ReadTyped
<1>9. LateIn(stream[c])' /\ LateIn(buf[c])'
  BY <1>1, <1>2, <1>4, <1>5, <1>6 DEF Local, LateIn
<1>10. Frame(c)
  BY <1>2, <1>6 DEF Frame
<1> QED BY <1>2, <1>7, <1>8, <1>9, <1>10, PlainStep DEF shared

\* A client leaves: what it sent stays as it is.
LEMMA LeaveStep ==
  ASSUME IInv, NEW c \in Conn, Leave(c)
  PROVE  IInv'
<1>1. /\ SharedTyped /\ InputTyped /\ ReadTyped /\ PlaceTyped /\ HistoryTyped
      /\ SesTyped /\ OutputTyped /\ Local(c)
  BY TypeParts DEF IInv
<1>2. UNCHANGED <<routes, deleted, stream, pc, buf, len, ses, wbuf, answers,
                  received, failed>>
  BY DEF Leave, shared, output, history
<1>3. stream[c] \in Seq(Requests) /\ Len(stream[c]) \in 0 .. MaxSend
  BY <1>1, LenProperties, ConnectionAssumption DEF InputTyped, Local, Bounded
<1>4. next' = next \/ next' = [next EXCEPT ![c] = Len(stream[c])]
  BY DEF Leave
<1>5. \E s \in {"half", "gone"} : client' = [client EXCEPT ![c] = s]
  BY DEF Leave
<1>6. TypeOK'
  BY <1>1, <1>2, <1>3, <1>4, <1>5, TypeParts DEF TypeOK, InputTyped, ReadTyped, IInv
<1>7. next'[c] <= Len(stream[c]) /\ \A d \in Conn \ {c} : next'[d] = next[d]
  BY <1>1, <1>3, <1>4 DEF ReadTyped, Local, Bounded
<1>8. Bounded(c)' /\ ReadInHand(c)'
  BY <1>1, <1>2, <1>7 DEF Bounded, Local, ReadInHand, Req, ForSession, InSession
<1>9. LateIn(stream[c])' /\ LateIn(buf[c])'
  BY <1>1, <1>2 DEF Local, LateIn
<1>10. Frame(c)
  BY <1>2, <1>7 DEF Frame
<1> QED BY <1>2, <1>6, <1>8, <1>9, <1>10, PlainStep DEF shared

\* A server answers.
LEMMA RespondStep ==
  ASSUME IInv, NEW c \in Conn, Respond(c)
  PROVE  IInv'
<1>1. SesTyped /\ OutputTyped
  BY TypeParts DEF IInv
<1>2. ses[c] \in Sessions /\ ses[c].asked # <<>>
  BY <1>1 DEF Respond, SesTyped
<1>3. ses[c].asked \in Seq(Id) /\ ses[c].resp \in Seq(Id)
  BY <1>2 DEF Sessions
<1>4. /\ Append(ses[c].resp, Head(ses[c].asked)) \in Seq(Id)
      /\ Tail(ses[c].asked) \in Seq(Id)
  BY <1>2, <1>3, HeadTailProperties, AppendProperties
<1>5. ses' = [ses EXCEPT ![c] = [@ EXCEPT !.resp = Append(ses[c].resp, Head(ses[c].asked)),
                                          !.asked = Tail(ses[c].asked)]]
  BY <1>1 DEF Respond, SesTyped
<1>6. SesTyped' /\ ses'[c].site = ses[c].site /\ \A d \in Conn \ {c} : ses'[d] = ses[d]
  BY <1>1, <1>2, <1>4, <1>5 DEF SesTyped, Sessions
<1>7. OutputTyped'
  BY <1>1 DEF Respond, OutputTyped, output
<1> QED BY <1>6, <1>7, SessionStep DEF Respond

\* A server breaks the session off.
LEMMA BreakStep ==
  ASSUME IInv, NEW c \in Conn, Break(c)
  PROVE  IInv'
<1>1. SesTyped /\ OutputTyped
  BY TypeParts DEF IInv
<1>2. \E s \in {"eof", "reset"} : ses' = [ses EXCEPT ![c].server = s]
  BY DEF Break
<1>3. SesTyped' /\ ses'[c].site = ses[c].site /\ \A d \in Conn \ {c} : ses'[d] = ses[d]
  BY <1>1, <1>2 DEF SesTyped, Sessions
<1>4. OutputTyped'
  BY <1>1 DEF Break, OutputTyped, output
<1> QED BY <1>3, <1>4, SessionStep DEF Break


-----------------------------------------------------------------------------
(***************************************************************************)
(* The steps of a task outside a session.                                  *)
(***************************************************************************)

\* ServeRead, after a read: the next iteration serves it.
LEMMA ServeReadStep ==
  ASSUME IInv, NEW c \in Conn, Take(c), ServeRead(c),
         UNCHANGED <<shared, input, history>>, OutputTyped',
         SesTyped', \A d \in Conn \ {c} : ses'[d] = ses[d]
  PROVE  IInv'
<1>1. InputTyped /\ ReadTyped /\ Local(c)
  BY TypeParts DEF IInv
<1>2. buf'[c][1] \in Requests
  BY <1>1, TakeTyped
<1>3. len' \in [Conn -> 0 .. MaxSend]
  BY <1>1, <1>2, ConnectionAssumption DEF ServeRead, ReadTyped, Requests, Id
<1>4. Goto(c, "serve") /\ "serve" \in Place \ {"delete", "connect"}
  BY DEF ServeRead, Place
<1> QED BY <1>3, <1>4, TakingStep

\* A read outside a session, its end or its timeout.
LEMMA ReadOrEndStep ==
  ASSUME IInv, NEW c \in Conn, ReadOrEnd(c), UNCHANGED <<shared, input, ses, history>>
  PROVE  IInv'
<1>1. SesTyped /\ OutputTyped /\ SesTyped' /\ \A d \in Conn \ {c} : ses'[d] = ses[d]
  BY TypeParts DEF IInv, SesTyped
<1>2. CASE Take(c) /\ ServeRead(c) /\ UNCHANGED output
  <2>1. OutputTyped'
    BY <1>1, <1>2 DEF output, OutputTyped
  <2> QED BY <1>1, <1>2, <2>1, ServeReadStep
<1>3. CASE Answer(c, "400", 0) /\ Close(c) /\ UNCHANGED next
  <2>1. OutputTyped'
    BY <1>1, <1>3, AnswerTyped, ConnectionAssumption
  <2> QED BY <1>1, <1>3, <2>1, EndingStep
<1>4. CASE Drop(c) /\ Close(c) /\ UNCHANGED next
  <2>1. OutputTyped'
    BY <1>1, <1>4, DropTyped
  <2> QED BY <1>1, <1>4, <2>1, EndingStep
<1> QED BY <1>2, <1>3, <1>4 DEF ReadOrEnd

\* The first read of handle_http, and handle_connect and handle_tunnel.
LEMMA ReadFirstStep ==
  ASSUME IInv, NEW c \in Conn, ReadFirst(c)
  PROVE  IInv'
<1>1. CASE Take(c) /\ Goto(c, "closed") /\ UNCHANGED <<len, output>>
  <2>1. SesTyped /\ OutputTyped /\ ReadTyped
    BY TypeParts DEF IInv
  <2>2. /\ SesTyped' /\ \A d \in Conn \ {c} : ses'[d] = ses[d]
        /\ OutputTyped' /\ len' \in [Conn -> 0 .. MaxSend]
    BY <1>1, <2>1 DEF ReadFirst, SesTyped, OutputTyped, output, ReadTyped
  <2>3. "closed" \in Place \ {"delete", "connect"}
    BY DEF Place
  <2> QED BY <1>1, <2>2, <2>3, TakingStep DEF ReadFirst
<1> QED BY <1>1, ReadOrEndStep DEF ReadFirst

\* The read at the top of the loop.
LEMMA ReadNextStep ==
  ASSUME IInv, NEW c \in Conn, ReadNext(c)
  PROVE  IInv'
BY ReadOrEndStep DEF ReadNext

\* A request that the proxy answers itself.
LEMMA ReplyStep ==
  ASSUME IInv, NEW c \in Conn, buf[c] # <<>>,
         NEW what \in {"html", "icon", "200", "400", "404", "405", "500", "server"},
         Reply(c, what), UNCHANGED <<shared, input, next, history>>,
         SesTyped', \A d \in Conn \ {c} : ses'[d] = ses[d]
  PROVE  IInv'
<1>1. OutputTyped /\ ReadTyped
  BY TypeParts DEF IInv
<1>2. OutputTyped'
  BY <1>1, ReqTyped, AnswerTyped DEF Reply
<1> QED BY <1>2, EndingStep DEF Reply

\* A request that is found in order and goes on to be deleted or forwarded.
LEMMA AdmittedStep ==
  ASSUME IInv, NEW c \in Conn, buf[c] # <<>>, NEW label \in {"delete", "connect"},
         Goto(c, label),
         label = "delete" => Req(c).target \in routes,
         label = "connect" => Req(c).to \in routes,
         UNCHANGED <<shared, input, next, buf, len, ses, output, history>>
  PROVE  IInv'
<1>1. /\ SharedTyped /\ InputTyped /\ ReadTyped /\ PlaceTyped /\ HistoryTyped
      /\ SesTyped /\ OutputTyped /\ Local(c)
  BY TypeParts DEF IInv
<1>2. UNCHANGED <<routes, deleted, client, stream, next, buf, len, ses, wbuf, answers,
                  received, failed>>
  BY DEF shared, input, output, history
<1>3. PlaceTyped' /\ pc'[c] = label /\ \A d \in Conn \ {c} : pc'[d] = pc[d]
  BY <1>1 DEF PlaceTyped, Place, Goto
<1>4. TypeOK'
  BY <1>1, <1>2, <1>3 DEF IInv, TypeOK, PlaceTyped, Place
<1>5. Req(c).late \subseteq deleted
  BY <1>1, ReqTyped DEF Local, LateIn
<1>6. ReadInHand(c)'
  BY <1>1, <1>2, <1>3, <1>5 DEF ReadInHand, Req, InSession, SharedTyped, IInv
<1>7. Bounded(c)' /\ LateIn(stream[c])' /\ LateIn(buf[c])'
  BY <1>1, <1>2 DEF Local, Bounded, LateIn
<1>8. Frame(c)
  BY <1>2, <1>3 DEF Frame
<1> QED BY <1>2, <1>4, <1>6, <1>7, <1>8, PlainStep DEF shared

\* An iteration of handle_http up to its next await.
LEMMA ServeStep ==
  ASSUME IInv, NEW c \in Conn, Serve(c)
  PROVE  IInv'
<1>1. /\ OutputTyped /\ ReadTyped /\ SesTyped /\ buf[c] # <<>>
      /\ UNCHANGED <<shared, input, next, ses, history>>
      /\ SesTyped' /\ \A d \in Conn \ {c} : ses'[d] = ses[d]
  BY TypeParts DEF IInv, Local, ReadInHand, Holding, Serve, SesTyped
<1>2. CASE Unparsable(c)
  <2>1. OutputTyped'
    BY <1>1, <1>2, ReqTyped, AnswerTyped, DropTyped DEF Unparsable
  <2> QED BY <1>1, <1>2, <2>1, EndingStep DEF Unparsable
<1>3. ASSUME NEW what \in {"html", "400", "404", "405"}, Reply(c, what) PROVE IInv'
  BY <1>1, <1>3, ReplyStep
<1>4. CASE Continue(c) /\ UNCHANGED output
  <2>1. OutputTyped'
    BY <1>1, <1>4 DEF OutputTyped, output
  <2> QED BY <1>1, <1>4, <2>1, EndingStep
<1>5. CASE Req(c).target \in routes /\ Goto(c, "delete") /\ UNCHANGED <<buf, len, output>>
  BY <1>1, <1>5, AdmittedStep
<1>6. CASE /\ Req(c).to \in Site \cap routes
           /\ Goto(c, "connect") /\ UNCHANGED <<buf, len, output>>
  BY <1>1, <1>6, AdmittedStep
<1>7. CASE ServeBase(c)
  BY <1>3, <1>4, <1>5, <1>7 DEF ServeBase
<1>8. CASE Route(c)
  BY <1>3, <1>6, <1>8 DEF Route
<1> QED BY <1>2, <1>7, <1>8 DEF Serve

\* The rest of delete_server: of no other request in hand does more get
\* deleted than was when it was sent.
LEMMA DeleteServerStep ==
  ASSUME IInv, NEW c \in Conn, DeleteServer(c)
  PROVE  IInv'
<1>1. /\ SharedTyped /\ InputTyped /\ ReadTyped /\ PlaceTyped /\ HistoryTyped
      /\ SesTyped /\ OutputTyped /\ Local(c)
  BY TypeParts DEF IInv
<1>2. buf[c] # <<>> /\ Req(c).target \in Site
  BY <1>1 DEF Local, ReadInHand, Holding, DeleteServer
<1>3. UNCHANGED <<client, stream, next, ses, received, failed>>
  BY DEF DeleteServer, input, history
<1>4. /\ SharedTyped' /\ deleted \subseteq deleted' /\ routes' \cap deleted' = {}
  BY <1>1, <1>2 DEF DeleteServer, SharedTyped, IInv
<1>5. ReadTyped' /\ PlaceTyped' /\ buf'[c] = <<>> /\ pc'[c] \in {"read", "closed"}
  BY <1>1, <1>3, ContinueTyped, ConnectionAssumption DEF DeleteServer, Reply
<1>6. OutputTyped'
  BY <1>1, <1>2, ReqTyped, AnswerTyped DEF DeleteServer, Reply
<1>7. InputTyped' /\ SesTyped' /\ HistoryTyped'
  BY <1>1, <1>3 DEF InputTyped, SesTyped, HistoryTyped
<1>8. TypeOK'
  BY <1>4, <1>5, <1>6, <1>7
  DEF TypeOK, SharedTyped, InputTyped, ReadTyped, PlaceTyped, SesTyped, OutputTyped,
      HistoryTyped, Place
<1>9. \A d \in Conn \ {c} : pc'[d] = pc[d] /\ buf'[d] = buf[d]
  BY <1>1 DEF DeleteServer, Reply, Continue, Goto, ReadTyped, PlaceTyped
<1>10. Frame(c)
  BY <1>3, <1>9 DEF Frame
<1>11. Bounded(c)' /\ ReadInHand(c)' /\ LateIn(stream[c])' /\ LateIn(buf[c])'
  BY <1>1, <1>3, <1>4, <1>5
  DEF Local, Bounded, ReadInHand, Holding, InSession, LateIn
<1>12. \A i \in DOMAIN received'[c] : Rightful(received'[c][i])
  BY <1>3, ReceiptsRightful DEF IInv
<1> QED BY <1>4, <1>8, <1>10, <1>11, <1>12, StepKeeps DEF Local


-----------------------------------------------------------------------------
(***************************************************************************)
(* The steps of a session.                                                 *)
(***************************************************************************)

\* A read that goes to a server whose site its first request names, or which
\* cannot be parsed within a session, gives receipts as they should be.
LEMMA ForwardStep ==
  ASSUME IInv, NEW c \in Conn, NEW s \in Site, buf[c] # <<>>,
         Forward(c, s), Goto(c, "pipe"),
         UNCHANGED <<shared, input, next, buf, len, output, failed>>,
         Req(c).to = s \/ (Req(c).to \in {"garbled", "special"} /\ pc[c] # "connect"),
         pc[c] = "connect" => s \notin Req(c).late
  PROVE  IInv'
<1>1. /\ SharedTyped /\ InputTyped /\ ReadTyped /\ PlaceTyped /\ HistoryTyped
      /\ SesTyped /\ OutputTyped /\ Local(c)
  BY TypeParts DEF IInv
<1>2. UNCHANGED <<routes, deleted, client, stream, next, buf, len, wbuf, answers, failed>>
  BY DEF shared, input, output
<1> DEFINE n == Len(buf[c])
           ids == [i \in DOMAIN buf[c] |-> buf[c][i].id]
           new == [i \in DOMAIN buf[c] |->
                     [id |-> buf[c][i].id, to |-> buf[c][i].to, site |-> s,
                      leads |-> i = 1, opens |-> i = 1 /\ pc[c] = "connect",
                      late |-> buf[c][i].late]]
<1>3. /\ n \in Nat /\ DOMAIN buf[c] = 1 .. n /\ Req(c) = buf[c][1]
      /\ \A i \in 1 .. n : buf[c][i] \in Requests
  BY <1>1, ReqTyped, LenProperties, ElementOfSeq DEF ReadTyped
<1>4. ids \in [1 .. n -> Id]
  BY <1>3 DEF Requests
<1>5. \A i \in DOMAIN new : new[i] \in Receipts /\ Rightful(new[i])
  <2> SUFFICES ASSUME NEW i \in 1 .. n PROVE new[i] \in Receipts /\ Rightful(new[i])
    BY <1>3
  <2>1. new[i] = [id |-> buf[c][i].id, to |-> buf[c][i].to, site |-> s,
                  leads |-> i = 1, opens |-> i = 1 /\ pc[c] = "connect",
                  late |-> buf[c][i].late]
    BY <1>3
  <2>2. new[i] \in Receipts
    BY <1>3, <2>1 DEF Receipts, Requests
  <2>3. Rightful(new[i])
    BY <1>3, <2>1 DEF Rightful
  <2> QED BY <2>2, <2>3
<1>6. new \in [1 .. n -> Receipts]
  BY <1>3, <1>5
<1>7. ids \in Seq(Id) /\ new \in Seq(Receipts) /\ Len(new) = n
  BY <1>3, <1>4, <1>6, FunctionIsSeq
<1> HIDE DEF ids, new, n
<1>8. ses[c] \in Sessions /\ ses[c].asked \in Seq(Id)
  BY <1>1 DEF SesTyped, Sessions
<1>9. ses[c].asked \o ids \in Seq(Id)
  BY <1>7, <1>8, ConcatProperties
<1>10. ses' = [ses EXCEPT ![c] = [@ EXCEPT !.site = s, !.asked = ses[c].asked \o ids]]
  BY <1>1 DEF Forward, SesTyped, ids
<1>11. SesTyped' /\ ses'[c].site = s /\ \A d \in Conn \ {c} : ses'[d] = ses[d]
  BY <1>1, <1>8, <1>9, <1>10 DEF SesTyped, Sessions
<1>12. received[c] \in Seq(Receipts) /\ \A i \in DOMAIN received[c] : Rightful(received[c][i])
  BY <1>1, ReceiptsRightful DEF IInv, HistoryTyped
<1>13. /\ received[c] \o new \in Seq(Receipts)
       /\ \A i \in DOMAIN (received[c] \o new) : Rightful((received[c] \o new)[i])
  BY <1>5, <1>7, <1>12, ConcatTyped
<1>14. received' = received \/ received' = [received EXCEPT ![c] = @ \o new]
  BY DEF Forward, new
<1>15. /\ received' \in [Conn -> Seq(Receipts)]
       /\ \A i \in DOMAIN received'[c] : Rightful(received'[c][i])
       /\ \A d \in Conn \ {c} : received'[d] = received[d]
  BY <1>1, <1>12, <1>13, <1>14 DEF HistoryTyped
<1>16. PlaceTyped' /\ pc'[c] = "pipe" /\ \A d \in Conn \ {c} : pc'[d] = pc[d]
  BY <1>1 DEF PlaceTyped, Place, Goto
<1>17. TypeOK'
  BY <1>1, <1>2, <1>11, <1>15, <1>16 DEF IInv, TypeOK, SesTyped, PlaceTyped, Place
<1>18. Local(c)'
  BY <1>1, <1>2, <1>11, <1>16 DEF Local, Bounded, ReadInHand, InSession, LateIn
<1>19. Frame(c)
  BY <1>2, <1>11, <1>15, <1>16 DEF Frame
<1>20. deleted \subseteq deleted' /\ routes' \cap deleted' = {}
  BY <1>2 DEF IInv
<1> QED BY <1>15, <1>17, <1>18, <1>19, <1>20, StepKeeps

\* The connection to the server that the request in hand is for.
LEMMA ConnectStep ==
  ASSUME IInv, NEW c \in Conn, Connect(c)
  PROVE  IInv'
<1>1. /\ OutputTyped /\ SesTyped /\ Local(c) /\ pc[c] = "connect"
      /\ UNCHANGED <<shared, input, next, failed>>
  BY TypeParts DEF IInv, Connect
<1>2. buf[c] # <<>> /\ Req(c).to \in Site /\ Req(c).to \notin Req(c).late
  BY <1>1 DEF Local, ReadInHand, Holding
<1>3. CASE Forward(c, Req(c).to) /\ Goto(c, "pipe") /\ UNCHANGED <<buf, len, output>>
  BY <1>1, <1>2, <1>3, ForwardStep
<1>4. ASSUME UNCHANGED <<ses, received>>
      PROVE  /\ UNCHANGED history
             /\ SesTyped' /\ \A d \in Conn \ {c} : ses'[d] = ses[d]
  BY <1>1, <1>4 DEF history, SesTyped
<1>5. CASE Reply(c, "500") /\ UNCHANGED <<ses, received>>
  BY <1>1, <1>2, <1>4, <1>5, ReplyStep
<1>6. CASE Drop(c) /\ Close(c) /\ UNCHANGED <<ses, received>>
  BY <1>1, <1>4, <1>6, DropTyped, EndingStep
<1> QED BY <1>3, <1>5, <1>6 DEF Connect

\* client_fut: reads that stay in the session, leave it or end it.
LEMMA ClientFutStep ==
  ASSUME IInv, NEW c \in Conn, ClientFut(c)
  PROVE  IInv'
<1>1. /\ OutputTyped /\ ReadTyped /\ PlaceTyped /\ SesTyped /\ InputTyped /\ Local(c)
      /\ UNCHANGED <<shared, input>>
  BY TypeParts DEF IInv, ClientFut
<1>2. CASE PipeRead(c)
  <2>1. /\ Take(c) /\ Goto(c, "forward") /\ UNCHANGED <<len, ses, output, history>>
        /\ buf'[c][1].to \in ForSession(c) /\ InSession(c)
    BY <1>2 DEF PipeRead, Reading, InSession
  <2>2. /\ OutputTyped' /\ len' \in [Conn -> 0 .. MaxSend]
        /\ SesTyped' /\ \A d \in Conn : ses'[d] = ses[d]
    BY <1>1, <2>1 DEF OutputTyped, output, ReadTyped, SesTyped
  <2>3. "forward" \in Place \ {"delete", "connect"}
    BY DEF Place
  <2> QED BY <1>1, <2>1, <2>2, <2>3, TakingStep
<1>3. CASE PipeForward(c)
  <2>1. /\ buf[c] # <<>> /\ ses[c].site \in Site /\ pc[c] = "forward"
        /\ Req(c).to \in ForSession(c)
    BY <1>1, <1>3 DEF PipeForward, Local, ReadInHand, Holding, InSession
  <2>2. Forward(c, ses[c].site) /\ Goto(c, "pipe")
        /\ UNCHANGED <<shared, input, next, buf, len, output, failed>>
    BY <1>1, <1>3 DEF PipeForward
  <2>3. Req(c).to = ses[c].site \/ Req(c).to \in {"garbled", "special"}
    BY <2>1 DEF ForSession
  <2> QED BY <2>1, <2>2, <2>3, ForwardStep
<1>4. CASE PipeForwardFails(c)
  <2>1. buf[c] # <<>> /\ Reply(c, "500") /\ EndSession(c) /\ UNCHANGED <<next, history>>
    BY <1>1, <1>4 DEF PipeForwardFails, Local, ReadInHand, Holding
  <2> QED BY <1>1, <2>1, EndSessionTyped, ReplyStep
<1>5. CASE PipePanics(c)
  <2>1. /\ Take(c) /\ Goto(c, "closed") /\ Drop(c) /\ EndSession(c)
        /\ UNCHANGED <<len, history>>
    BY <1>5 DEF PipePanics
  <2>2. /\ OutputTyped' /\ len' \in [Conn -> 0 .. MaxSend]
        /\ SesTyped' /\ \A d \in Conn \ {c} : ses'[d] = ses[d]
    BY <1>1, <2>1, DropTyped, EndSessionTyped DEF ReadTyped
  <2>3. "closed" \in Place \ {"delete", "connect"}
    BY DEF Place
  <2> QED BY <1>1, <2>1, <2>2, <2>3, TakingStep
<1>6. CASE PipeFavicon(c)
  <2>1. /\ Take(c) /\ UNCHANGED <<pc, len, output, history>> /\ pc[c] = "pipe"
        /\ ses' = [ses EXCEPT ![c].ico = Append(@, buf'[c][1].id)]
    BY <1>6 DEF PipeFavicon, Reading
  <2>2. buf'[c][1].id \in Id
    BY <1>1, <2>1, TakeTyped DEF Requests
  <2>3. ses[c] \in Sessions /\ ses[c].ico \in Seq(Id)
    BY <1>1 DEF SesTyped, Sessions
  <2>4. Append(ses[c].ico, buf'[c][1].id) \in Seq(Id)
    BY <2>2, <2>3, AppendProperties
  <2>5. SesTyped' /\ ses'[c].site = ses[c].site /\ \A d \in Conn \ {c} : ses'[d] = ses[d]
    BY <1>1, <2>1, <2>3, <2>4 DEF SesTyped, Sessions
  <2>6. Goto(c, "pipe") /\ InSession(c) /\ "pipe" \in Place \ {"delete", "connect"}
    BY <1>1, <2>1 DEF Goto, PlaceTyped, InSession, Place
  <2>7. OutputTyped' /\ len' \in [Conn -> 0 .. MaxSend]
    BY <1>1, <2>1 DEF OutputTyped, output, ReadTyped
  <2> QED BY <1>1, <2>1, <2>5, <2>6, <2>7, TakingStep
<1>7. CASE PipeSwitch(c)
  <2>1. Take(c) /\ ServeRead(c) /\ EndSession(c) /\ UNCHANGED <<output, history>>
    BY <1>7 DEF PipeSwitch
  <2>2. OutputTyped' /\ SesTyped' /\ \A d \in Conn \ {c} : ses'[d] = ses[d]
    BY <1>1, <2>1, EndSessionTyped DEF OutputTyped, output
  <2> QED BY <1>1, <2>1, <2>2, ServeReadStep
<1>8. CASE PipeClientEnds(c)
  <2>1. Drop(c) /\ Close(c) /\ EndSession(c) /\ UNCHANGED <<next, history>>
    BY <1>8 DEF PipeClientEnds
  <2> QED BY <1>1, <2>1, DropTyped, EndSessionTyped, EndingStep
<1> QED BY <1>2, <1>3, <1>4, <1>5, <1>6, <1>7, <1>8 DEF ClientFut

\* An answer of the server, or of the favicon, is written.
LEMMA PipeAnswerStep ==
  ASSUME IInv, NEW c \in Conn, PipeAnswer(c), UNCHANGED <<shared, input, next>>
  PROVE  IInv'
<1>1. OutputTyped /\ SesTyped
  BY TypeParts DEF IInv
<1>2. /\ ses[c] \in Sessions /\ ses[c].resp \in Seq(Id) /\ ses[c].ico \in Seq(Id)
  BY <1>1 DEF SesTyped, Sessions
<1>3. ASSUME NEW q \in Seq(Id), q # <<>>, NEW what \in {"server", "icon"},
             wbuf' = [wbuf EXCEPT ![c] = Append(@, Entry(what, Head(q)))]
      PROVE  Tail(q) \in Seq(Id) /\ OutputTyped'
  <2>1. Head(q) \in Id /\ Tail(q) \in Seq(Id)
    BY <1>3, HeadTailProperties
  <2>2. Entry(what, Head(q)) \in Answers
    BY <2>1, ConnectionAssumption DEF Entry, Answers, Id
  <2>3. Append(wbuf[c], Entry(what, Head(q))) \in Seq(Answers)
    BY <1>1, <2>2, AppendProperties DEF OutputTyped
  <2> QED BY <1>1, <1>3, <2>1, <2>3 DEF OutputTyped, PipeAnswer
<1>4. CASE /\ ses[c].resp # <<>>
           /\ ses' = [ses EXCEPT ![c].resp = Tail(@), ![c].flushing = TRUE]
           /\ wbuf' = [wbuf EXCEPT ![c] = Append(@, Entry("server", Head(ses[c].resp)))]
  <2>1. Tail(ses[c].resp) \in Seq(Id) /\ OutputTyped'
    BY <1>2, <1>3, <1>4
  <2>2. ses' = [ses EXCEPT ![c] = [@ EXCEPT !.resp = Tail(ses[c].resp), !.flushing = TRUE]]
    BY <1>1, <1>4 DEF SesTyped
  <2>3. SesTyped' /\ ses'[c].site = ses[c].site /\ \A d \in Conn \ {c} : ses'[d] = ses[d]
    BY <1>1, <1>2, <2>1, <2>2 DEF SesTyped, Sessions
  <2> QED BY <2>1, <2>3, SessionStep DEF PipeAnswer
<1>5. CASE /\ ses[c].ico # <<>>
           /\ ses' = [ses EXCEPT ![c].ico = Tail(@), ![c].flushing = TRUE]
           /\ wbuf' = [wbuf EXCEPT ![c] = Append(@, Entry("icon", Head(ses[c].ico)))]
  <2>1. Tail(ses[c].ico) \in Seq(Id) /\ OutputTyped'
    BY <1>2, <1>3, <1>5
  <2>2. ses' = [ses EXCEPT ![c] = [@ EXCEPT !.ico = Tail(ses[c].ico), !.flushing = TRUE]]
    BY <1>1, <1>5 DEF SesTyped
  <2>3. SesTyped' /\ ses'[c].site = ses[c].site /\ \A d \in Conn \ {c} : ses'[d] = ses[d]
    BY <1>1, <1>2, <2>1, <2>2 DEF SesTyped, Sessions
  <2> QED BY <2>1, <2>3, SessionStep DEF PipeAnswer
<1> QED BY <1>4, <1>5 DEF PipeAnswer

\* What a failed write to the client leaves in req_buf is a read again, and
\* was read before.
LEMMA PipeFlushFailsStep ==
  ASSUME IInv, NEW c \in Conn, PipeFlushFails(c), UNCHANGED <<shared, input, next>>
  PROVE  IInv'
<1>1. /\ SharedTyped /\ InputTyped /\ ReadTyped /\ PlaceTyped /\ HistoryTyped
      /\ SesTyped /\ OutputTyped /\ Local(c)
  BY TypeParts DEF IInv
<1>2. UNCHANGED <<routes, deleted, client, stream, next, len, received>>
  BY DEF shared, input, PipeFlushFails
<1>3. buf[c] \in Seq(Requests) /\ buf[c] # <<>> /\ LateIn(buf[c])
  BY <1>1 DEF PipeFlushFails, Local, ReadInHand, Holding, InSession, ReadTyped
<1> DEFINE ReadAgain ==
         /\ buf' \in [Conn -> Seq(Requests)] /\ buf'[c] # <<>>
         /\ \A i \in DOMAIN buf'[c] : buf'[c][i].late \subseteq deleted
         /\ \A d \in Conn \ {c} : buf'[d] = buf[d]
<1>4. ReadAgain
  <2>1. CASE UNCHANGED buf
    BY <1>1, <1>3, <2>1 DEF ReadTyped, LateIn
  <2>2. ASSUME NEW n \in 1 .. Len(buf[c]), buf' = [buf EXCEPT ![c] = SubSeq(@, 1, n)]
        PROVE  ReadAgain
    <3>1. 0 \in Nat /\ n \in 0 + 1 .. Len(buf[c]) /\ 0 + 1 = 1
      BY <2>2
    <3>2. /\ SubSeq(buf[c], 1, n) \in Seq(Requests) /\ SubSeq(buf[c], 1, n) # <<>>
          /\ \A i \in DOMAIN SubSeq(buf[c], 1, n) :
               \E l \in DOMAIN buf[c] : SubSeq(buf[c], 1, n)[i] = buf[c][l]
      BY <1>3, <3>1, SubSeqTyped
    <3> QED BY <1>1, <1>3, <2>2, <3>2 DEF ReadTyped, LateIn
  <2>3. ASSUME NEW k \in {"garbled", "panic"}, buf' = [buf EXCEPT ![c][1].to = k]
        PROVE  ReadAgain
    <3>1. /\ Len(buf[c]) \in Nat /\ DOMAIN buf[c] = 1 .. Len(buf[c]) /\ 1 \in DOMAIN buf[c]
          /\ \A i \in DOMAIN buf[c] : buf[c][i] \in Requests
      BY <1>1, <1>3, ReqTyped, LenProperties, ElementOfSeq
    <3>2. k \in Kind
      BY <2>3 DEF Kind, OtherKinds
    <3> DEFINE q == [buf[c] EXCEPT ![1].to = k]
    <3>3. \A i \in 1 .. Len(buf[c]) : q[i] \in Requests /\ q[i].late = buf[c][i].late
      BY <3>1, <3>2 DEF Requests
    <3>4. q \in [1 .. Len(buf[c]) -> Requests]
      BY <3>1, <3>3
    <3>5. q \in Seq(Requests) /\ Len(q) = Len(buf[c]) /\ DOMAIN q = DOMAIN buf[c]
      BY <3>1, <3>4, FunctionIsSeq
    <3>6. q # <<>> /\ \A i \in DOMAIN q : q[i].late \subseteq deleted
      BY <1>3, <3>1, <3>3, <3>5, EmptySeq DEF LateIn
    <3>7. buf' = [buf EXCEPT ![c] = q]
      BY <1>1, <2>3 DEF ReadTyped
    <3> HIDE DEF q
    <3> QED BY <1>1, <3>5, <3>6, <3>7 DEF ReadTyped
  <2> QED BY <2>1, <2>2, <2>3 DEF PipeFlushFails
<1>5. PlaceTyped' /\ pc'[c] = "serve" /\ \A d \in Conn \ {c} : pc'[d] = pc[d]
  BY <1>1 DEF PipeFlushFails, Goto, PlaceTyped, Place
<1>6. SesTyped' /\ \A d \in Conn \ {c} : ses'[d] = ses[d]
  BY <1>1, EndSessionTyped DEF PipeFlushFails
<1>7. OutputTyped'
  BY <1>1, DropTyped DEF PipeFlushFails
<1>8. failed' \in [Conn -> BOOLEAN]
  BY <1>1 DEF PipeFlushFails, HistoryTyped
<1>9. TypeOK'
  BY <1>2, <1>4, <1>5, <1>6, <1>7, <1>8
  DEF IInv, TypeOK, PlaceTyped, Place, SesTyped, OutputTyped
<1>10. Bounded(c)' /\ ReadInHand(c)' /\ LateIn(stream[c])' /\ LateIn(buf[c])'
  BY <1>1, <1>2, <1>4, <1>5 DEF Local, Bounded, ReadInHand, Holding, InSession, LateIn
<1>11. Frame(c)
  BY <1>2, <1>4, <1>5, <1>6 DEF Frame
<1> QED BY <1>2, <1>9, <1>10, <1>11, PlainStep DEF shared

\* server_fut.
LEMMA ServerFutStep ==
  ASSUME IInv, NEW c \in Conn, ServerFut(c)
  PROVE  IInv'
<1>1. /\ OutputTyped /\ ReadTyped /\ SesTyped /\ Local(c) /\ UNCHANGED <<shared, input, next>>
  BY TypeParts DEF IInv, ServerFut
<1>2. CASE PipeFlush(c)
  <2>1. OutputTyped'
    BY <1>1, <1>2, FlushTyped DEF PipeFlush, OutputTyped
  <2>2. SesTyped' /\ ses'[c].site = ses[c].site /\ \A d \in Conn \ {c} : ses'[d] = ses[d]
    BY <1>1, <1>2 DEF PipeFlush, SesTyped, Sessions
  <2> QED BY <1>1, <1>2, <2>1, <2>2, SessionStep DEF PipeFlush
<1>3. CASE PipeServerFails(c)
  <2>1. buf[c] # <<>>
    BY <1>1, <1>3 DEF PipeServerFails, Local, ReadInHand, Holding, InSession
  <2>2. ses[c].asked \in Seq(Id)
    BY <1>1 DEF SesTyped, Sessions
  <2>3. Unanswered(c) \in 0 .. MaxSend
    <3>1. CASE ses[c].asked # <<>>
      BY <2>2, <3>1, HeadTailProperties, ConnectionAssumption DEF Unanswered, Id
    <3>2. CASE ses[c].asked = <<>> /\ pc[c] = "forward"
      BY <1>1, <2>1, <3>2, ReqTyped DEF Unanswered
    <3>3. CASE ses[c].asked = <<>> /\ pc[c] # "forward"
      BY <3>3, ConnectionAssumption DEF Unanswered
    <3> QED BY <3>1, <3>2, <3>3
  <2>4. OutputTyped'
    BY <1>1, <1>3, <2>3, AnswerTyped DEF PipeServerFails
  <2> QED BY <1>1, <1>3, <2>4, EndSessionTyped, EndingStep DEF PipeServerFails
<1>4. CASE PipeServerEnds(c)
  <2>1. OutputTyped'
    BY <1>1, <1>4 DEF PipeServerEnds, OutputTyped, output
  <2>2. SesTyped' /\ ses'[c].site = ses[c].site /\ \A d \in Conn \ {c} : ses'[d] = ses[d]
    BY <1>1, <1>4 DEF PipeServerEnds, SesTyped, Sessions
  <2> QED BY <1>1, <1>4, <2>1, <2>2, SessionStep DEF PipeServerEnds
<1> QED BY <1>1, <1>2, <1>3, <1>4, PipeAnswerStep, PipeFlushFailsStep DEF ServerFut

-----------------------------------------------------------------------------
(***************************************************************************)
(* The theorems.                                                           *)
(***************************************************************************)

\* The end of the program closes every connection.
LEMMA AcceptFailsStep ==
  ASSUME IInv, AcceptFails
  PROVE  IInv'
<1>1. /\ UNCHANGED <<routes, deleted, client, stream, next, buf, len, ses, wbuf, answers,
                     received, failed>>
      /\ pc' = [c \in Conn |-> "closed"]
  BY DEF AcceptFails, shared, input, output, history
<1>2. TypeOK'
  BY <1>1 DEF IInv, TypeOK
<1>3. \A c \in Conn : Local(c)'
  BY <1>1 DEF IInv, Local, Bounded, ReadInHand, Holding, InSession, LateIn
<1>4. RoutedBySite' /\ DeletedStaysDeleted'
  BY <1>1 DEF IInv, RoutedBySite, DeletedStaysDeleted
<1> QED BY <1>1, <1>2, <1>3, <1>4 DEF IInv

\* The invariant holds when the program starts.
LEMMA InitIInv == Init => IInv
<1> SUFFICES ASSUME Init PROVE IInv
  OBVIOUS
<1>1. TypeOK
  <2>1. /\ <<>> \in Seq(Requests) /\ <<>> \in Seq(Answers) /\ <<>> \in Seq(Receipts)
        /\ 0 \in 0 .. MaxSend
    BY EmptySeq, ConnectionAssumption
  <2>2. SharedTyped /\ InputTyped /\ ReadTyped /\ PlaceTyped
    BY <2>1 DEF Init, SharedTyped, InputTyped, ReadTyped, PlaceTyped, Place
  <2>3. SesTyped /\ OutputTyped /\ HistoryTyped
    BY <2>1, NoSessionTyped DEF Init, SesTyped, OutputTyped, HistoryTyped
  <2> QED BY <2>2, <2>3, TypeParts
<1>2. ASSUME NEW c \in Conn PROVE Local(c)
  <2>1. Bounded(c)
    BY EmptySeq, ConnectionAssumption DEF Init, Bounded
  <2>2. ReadInHand(c) /\ LateIn(stream[c]) /\ LateIn(buf[c])
    BY DEF Init, ReadInHand, Holding, InSession, LateIn
  <2> QED BY <2>1, <2>2 DEF Local
<1>3. RoutedBySite /\ DeletedStaysDeleted
  BY DEF Init, RoutedBySite, DeletedStaysDeleted
<1> QED BY <1>1, <1>2, <1>3 DEF Init, IInv

\* Every step keeps it.
LEMMA NextIInv == IInv /\ [Next]_vars => IInv'
<1> SUFFICES ASSUME IInv, [Next]_vars PROVE IInv'
  OBVIOUS
<1>1. CASE UNCHANGED vars
  BY <1>1 DEF vars, shared, input, output, history, IInv, TypeOK, Local, Bounded,
     ReadInHand, LateIn, RoutedBySite, DeletedStaysDeleted, InSession, Req, ForSession
<1>2. ASSUME NEW c \in Conn, Task(c) PROVE IInv'
  BY <1>2, ReadFirstStep, ReadNextStep, ServeStep, DeleteServerStep, ConnectStep,
     ClientFutStep, ServerFutStep DEF Task
<1> QED BY <1>1, <1>2, SendStep, LeaveStep, RespondStep, BreakStep, AcceptFailsStep DEF Next

\* The inductive invariant holds always.
THEOREM Invariance == Spec => []IInv
BY InitIInv, NextIInv, PTL DEF Spec

\* Every variable keeps its type: answers name requests that were sent, and
\* no place of a task is undefined.
THEOREM TypeCorrect == Spec => []TypeOK
<1>1. IInv => TypeOK
  BY DEF IInv
<1> QED BY <1>1, Invariance, PTL

\* Whatever sites there are and however many clients switch between them, a
\* read goes only to the server that its first request names, or cannot be
\* parsed and goes to the server of the session.
THEOREM ReadsAreRouted == Spec => []RoutedBySite
<1>1. IInv => RoutedBySite
  BY DEF IInv
<1> QED BY <1>1, Invariance, PTL

\* Once the deletion of a route was acknowledged, no request that any client
\* sends after that opens a session to its site.
THEOREM DeletionIsFinal == Spec => []DeletedStaysDeleted
<1>1. IInv => DeletedStaysDeleted
  BY DEF IInv
<1> QED BY <1>1, Invariance, PTL
=============================================================================
