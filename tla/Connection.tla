----------------------------- MODULE Connection -----------------------------
(***************************************************************************)
(* The client connections of src/proxy.rs: the task that handle and        *)
(* handle_http run for each of them, the two futures that one tokio select *)
(* polls while the connection is piped to a server, the channel between    *)
(* them, and the routes that all connections share.                        *)
(*                                                                         *)
(* Grain.  One action from an await that waits on the network, on the      *)
(* channel or on the map to the next.  A client's bytes are a sequence of  *)
(* requests and of pieces of them.  A read returns one or more of these,   *)
(* and what remove_site_name makes of the first decides about all.  A read *)
(* that it rejects begins with a "garbled" piece, one on which it panics   *)
(* with "panic"; pieces of a body may be either, or look like a request to *)
(* some site.  See Request.tla.                                            *)
(*                                                                         *)
(* No code of src/proxy.rs adds a route (line 482 is a comment), so Init   *)
(* takes any set of routes.                                                *)
(***************************************************************************)
EXTENDS Naturals, Sequences

CONSTANTS
  Conn,     \* client connections
  Site,     \* site names a server may be registered under
  NoSite,
  Kinds,    \* what clients send, see Kind
  Faults,   \* what may go wrong, see Fault
  Polite,   \* clients wait for each answer before they send again
  MaxSend,  \* bound: requests of a connection
  IcoCap    \* capacity of the favicon channel (5 in the code)

\* A forwarded request is named by its site; the others by what they ask
\* for.  "special" is the header of handle_connect and handle_tunnel.
BaseKinds == {"get", "post", "bad_post", "other", "delete", "bad_delete"}
OtherKinds == {"favicon", "garbled", "panic", "special"}
Kind == Site \cup BaseKinds \cup OtherKinds
Fault == {"client_gone", "half_close", "accept", "connect", "path_header",
          "server_reset", "idle_reset", "server_eof"}

ASSUME ConnectionAssumption ==
  /\ Kinds \subseteq Kind /\ Faults \subseteq Fault
  /\ Polite \in BOOLEAN
  /\ MaxSend \in Nat /\ IcoCap \in Nat \ {0}
  /\ NoSite \notin Site
  /\ Site \cap (BaseKinds \cup OtherKinds) = {}

Id == 1 .. MaxSend

VARIABLES
  routes,    \* the sites registered
  deleted,   \* history: sites whose deletion was answered with 200
  client,    \* per connection: "open", "half" (sends no more) or "gone"
  stream,    \* per connection: what the client sent
  next,      \* per connection: how much of stream was read
  pc,
  buf,       \* per connection: what the last read brought into req_buf
  len,       \* per connection: the read whose length bytes_read is, known by
             \* its first request; 0: bytes_read is 0
  ses,       \* per connection: the session, see NoSession
  wbuf,      \* per connection: answers written to client_write, not flushed
  received,  \* history: what servers received from the connection
  answers,   \* history: what the client was answered
  failed     \* history: a write to the client failed

shared == <<routes, deleted>>
input == <<client, stream>>
output == <<wbuf, answers>>
history == <<received, failed>>
vars == <<shared, input, next, pc, buf, len, ses, output, history>>

\* site: the server's, or NoSite; server: its end of the stream, "up", "eof"
\* or "reset"; asked: requests it has yet to answer; resp: answers of it not
\* read yet; ico: favicon requests in the channel, and one more while
\* client_fut waits for room in it; flushing: server_fut waits for a flush.
NoSession == [site |-> NoSite, server |-> "up", asked |-> <<>>, resp |-> <<>>,
              ico |-> <<>>, flushing |-> FALSE]

Init ==
  /\ routes \in SUBSET Site /\ deleted = {}
  /\ client = [c \in Conn |-> "open"]
  /\ pc = [c \in Conn |-> "start"]
  /\ next = [c \in Conn |-> 0] /\ len = [c \in Conn |-> 0]
  /\ ses = [c \in Conn |-> NoSession]
  /\ failed = [c \in Conn |-> FALSE]
  /\ stream = [c \in Conn |-> <<>>] /\ buf = [c \in Conn |-> <<>>]
  /\ wbuf = [c \in Conn |-> <<>>] /\ answers = [c \in Conn |-> <<>>]
  /\ received = [c \in Conn |-> <<>>]

Goto(c, label) == pc' = [pc EXCEPT ![c] = label]
InSession(c) == pc[c] \in {"pipe", "forward"}

-----------------------------------------------------------------------------
(***************************************************************************)
(* The clients and the servers (external).                                 *)
(***************************************************************************)
Send(c) ==
  /\ client[c] = "open" /\ pc[c] # "closed"
  /\ Len(stream[c]) < MaxSend
  /\ Polite => Len(answers[c]) = Len(stream[c])
  /\ \E k \in Kinds, s \in Site \cup {NoSite} :
       /\ (s # NoSite) <=> (k = "delete")
       /\ stream' = [stream EXCEPT ![c] = Append(@,
            [id |-> Len(@) + 1, to |-> k, target |-> s, late |-> deleted])]
  /\ UNCHANGED <<shared, client, next, pc, buf, len, ses, output, history>>

\* The client ends its stream, closes its connection or resets it: reads end
\* once all is read, which a reset drops, and writes to one that is gone may
\* fail.
Leave(c) ==
  /\ pc[c] # "closed"
  /\ \/ /\ "half_close" \in Faults /\ client[c] = "open"
        /\ client' = [client EXCEPT ![c] = "half"]
        /\ UNCHANGED next
     \/ /\ "client_gone" \in Faults /\ client[c] # "gone"
        /\ client' = [client EXCEPT ![c] = "gone"]
        /\ next' \in {next, [next EXCEPT ![c] = Len(stream[c])]}
  /\ UNCHANGED <<shared, stream, pc, buf, len, ses, output, history>>

\* Servers give one answer to each request, in order.
Respond(c) ==
  /\ InSession(c) /\ ses[c].server = "up" /\ ses[c].asked # <<>>
  /\ ses' = [ses EXCEPT ![c].resp = Append(@, Head(ses[c].asked)),
                        ![c].asked = Tail(@)]
  /\ UNCHANGED <<shared, input, next, pc, buf, len, output, history>>

Break(c) ==
  /\ InSession(c)
  /\ \/ /\ ses[c].server # "reset" /\ "server_reset" \in Faults
        /\ ses[c].asked # <<>> \/ "idle_reset" \in Faults
        /\ ses' = [ses EXCEPT ![c].server = "reset"]
     \/ /\ ses[c].server = "up" /\ "server_eof" \in Faults
        /\ ses' = [ses EXCEPT ![c].server = "eof"]
  /\ UNCHANGED <<shared, input, next, pc, buf, len, output, history>>

-----------------------------------------------------------------------------
(***************************************************************************)
(* Reading from the client and writing to it.                              *)
(***************************************************************************)
Take(c) == \E n \in next[c] + 1 .. Len(stream[c]) :
  /\ buf' = [buf EXCEPT ![c] = SubSeq(stream[c], next[c] + 1, n)]
  /\ next' = [next EXCEPT ![c] = n]

AllRead(c) == next[c] = Len(stream[c])

\* What decides about a read.
Req(c) == Head(buf[c])

\* write puts an answer into the buffer of client_write, which outlives the
\* sessions; flush sends what is there.
Entry(what, re) == [what |-> what, re |-> re]
Flush(c, out) ==
  /\ wbuf' = [wbuf EXCEPT ![c] = <<>>]
  /\ answers' = IF client[c] = "gone" THEN answers
                ELSE [answers EXCEPT ![c] = @ \o out]

\* Answers `what' to request `re'.
Answer(c, what, re) == Flush(c, Append(wbuf[c], Entry(what, re)))

\* The task ends without a flush: what is in the buffer is lost.
Drop(c) == wbuf' = [wbuf EXCEPT ![c] = <<>>] /\ UNCHANGED answers

Close(c) ==
  /\ Goto(c, "closed")
  /\ buf' = [buf EXCEPT ![c] = <<>>] /\ len' = [len EXCEPT ![c] = 0]

\* `continue' with bytes_read = 0.
Continue(c) ==
  /\ Goto(c, "read")
  /\ buf' = [buf EXCEPT ![c] = <<>>] /\ len' = [len EXCEPT ![c] = 0]

\* The next iteration serves the read that was just made.
ServeRead(c) ==
  /\ Goto(c, "serve")
  /\ len' = [len EXCEPT ![c] = buf'[c][1].id]

\* A read outside a session, for which the task waits 10 s.  At the end of
\* the stream nothing can be parsed: 400, as for a garbled request.
ReadOrEnd(c) ==
  \/ Take(c) /\ ServeRead(c) /\ UNCHANGED output
  \/ AllRead(c) /\ client[c] # "open" /\ Answer(c, "400", 0) /\ Close(c) /\ UNCHANGED next
  \/ AllRead(c) /\ Drop(c) /\ Close(c) /\ UNCHANGED next

\* handle, and the first read of handle_http.  handle_connect and
\* handle_tunnel return at once.
ReadFirst(c) ==
  /\ pc[c] = "start"
  /\ \/ Take(c) /\ buf'[c][1].to = "special" /\ Goto(c, "closed") /\ UNCHANGED <<len, output>>
     \/ ReadOrEnd(c) /\ (buf'[c] # <<>> => buf'[c][1].to # "special")
  /\ UNCHANGED <<shared, input, ses, history>>

\* The read at the top of the loop of handle_http, with bytes_read = 0.
ReadNext(c) ==
  /\ pc[c] = "read"
  /\ ReadOrEnd(c)
  /\ UNCHANGED <<shared, input, ses, history>>

-----------------------------------------------------------------------------
(***************************************************************************)
(* Requests that the proxy answers itself.  What a read brought after its  *)
(* first request is not looked at.                                         *)
(***************************************************************************)
Reply(c, what) == Answer(c, what, Req(c).id) /\ Continue(c)

\* A task that panics leaves the connection to be closed.
Unparsable(c) ==
  /\ \/ Req(c).to \in {"garbled", "special"} /\ Answer(c, "400", Req(c).id)
     \/ Req(c).to = "panic" /\ Drop(c)
  /\ Close(c)

\* serve_base, up to the look-up of delete_server; serve_favicon.  The body
\* of a bad_delete is no server, or not the one that is registered.
ServeBase(c) ==
  \/ Req(c).to = "get" /\ Reply(c, "html")
  \/ Req(c).to = "post" /\ Continue(c) /\ UNCHANGED output
  \/ Req(c).to \in {"bad_post", "bad_delete"} /\ Reply(c, "400")
  \/ Req(c).to = "other" /\ Reply(c, "405")
  \/ Req(c).to \in {"favicon", "bad_delete"} /\ Reply(c, "404")
  \/ Req(c).to = "delete" /\ Req(c).target \notin routes /\ Reply(c, "404")
  \/ /\ Req(c).to = "delete" /\ Req(c).target \in routes
     /\ Goto(c, "delete") /\ UNCHANGED <<buf, len, output>>

Route(c) ==
  \/ Req(c).to \in Site \ routes /\ Reply(c, "404")
  \/ /\ Req(c).to \in Site \cap routes
     /\ Goto(c, "connect") /\ UNCHANGED <<buf, len, output>>

Serve(c) ==
  /\ pc[c] = "serve"
  /\ Unparsable(c) \/ ServeBase(c) \/ Route(c)
  /\ UNCHANGED <<shared, input, next, ses, history>>

\* The rest of delete_server, after the look-up and the comparison.
DeleteServer(c) ==
  /\ pc[c] = "delete"
  /\ routes' = routes \ {Req(c).target}
  /\ deleted' = deleted \cup {Req(c).target}
  /\ Reply(c, "200")
  /\ UNCHANGED <<input, next, ses, history>>

-----------------------------------------------------------------------------
(***************************************************************************)
(* A session with a server: it is opened with the read that asked for it.  *)
(***************************************************************************)
\* Mutant of EndSession: what the old server had answered stays.
EndSessionKeepsAnswers(c) ==
  ses' = [ses EXCEPT ![c] = [NoSession EXCEPT !.resp = ses[c].resp]]

EndSession(c) == ses' = [ses EXCEPT ![c] = NoSession]

\* The server of site s gets the read in buf.  The bound on received is one
\* entry more than there are requests.
Forward(c, s) ==
  /\ ses' = [ses EXCEPT ![c].site = s,
               ![c].asked = @ \o [i \in DOMAIN buf[c] |-> buf[c][i].id]]
  /\ received' = IF Len(received[c]) > MaxSend THEN received
                 ELSE [received EXCEPT ![c] = @ \o [i \in DOMAIN buf[c] |->
                        [id |-> buf[c][i].id, to |-> buf[c][i].to, site |-> s,
                         leads |-> i = 1, opens |-> i = 1 /\ pc[c] = "connect",
                         late |-> buf[c][i].late]]]

\* With a proxy header in the request, write_req panics.
Connect(c) ==
  /\ pc[c] = "connect"
  /\ \/ Forward(c, Req(c).to) /\ Goto(c, "pipe") /\ UNCHANGED <<buf, len, output>>
     \/ "connect" \in Faults /\ Reply(c, "500") /\ UNCHANGED <<ses, received>>
     \/ "path_header" \in Faults /\ Drop(c) /\ Close(c) /\ UNCHANGED <<ses, received>>
  /\ UNCHANGED <<shared, input, next, failed>>

-----------------------------------------------------------------------------
(***************************************************************************)
(* client_fut reads, unless it is in the write of a request to the server  *)
(* ("forward") or waits in the send of a favicon request.                  *)
(***************************************************************************)
Reading(c) == pc[c] = "pipe" /\ Len(ses[c].ico) <= IcoCap

\* Mutant of ForSession: the site is not compared.
ForAnySession(c) == Site \cup {"garbled", "special"}

\* The reads that are passed on: the error of remove_site_name is ignored.
ForSession(c) == {ses[c].site, "garbled", "special"}

\* Mutant of PipeRead: what cannot be parsed is not passed on.
PipeReadParsed(c) ==
  /\ Reading(c) /\ Take(c)
  /\ buf'[c][1].to \in ForSession(c)
  /\ Goto(c, IF buf'[c][1].to = ses[c].site THEN "forward" ELSE "pipe")
  /\ UNCHANGED <<len, ses, output, history>>

PipeRead(c) ==
  /\ Reading(c) /\ Take(c)
  /\ buf'[c][1].to \in ForSession(c)
  /\ Goto(c, "forward")
  /\ UNCHANGED <<len, ses, output, history>>

PipeForward(c) ==
  /\ pc[c] = "forward"
  /\ Forward(c, ses[c].site)
  /\ Goto(c, "pipe")
  /\ UNCHANGED <<next, buf, len, output, failed>>

\* A server that is not up any more may fail the write: 500.
PipeForwardFails(c) ==
  /\ pc[c] = "forward" /\ ses[c].server # "up"
  /\ Reply(c, "500") /\ EndSession(c)
  /\ UNCHANGED <<next, history>>

PipePanics(c) ==
  /\ Reading(c) /\ Take(c)
  /\ buf'[c][1].to = "panic" \/ ("path_header" \in Faults /\ buf'[c][1].to = ses[c].site)
  /\ Goto(c, "closed") /\ Drop(c) /\ EndSession(c)
  /\ UNCHANGED <<len, history>>

\* Mutant of PipeFavicon: the `continue' is missing.
PipeFaviconForwarded(c) ==
  /\ Reading(c) /\ Take(c)
  /\ buf'[c][1].to = "favicon"
  /\ ses' = [ses EXCEPT ![c].ico = Append(@, buf'[c][1].id)]
  /\ Goto(c, "forward")
  /\ UNCHANGED <<len, output, history>>

\* A favicon request goes to server_fut through the channel.
PipeFavicon(c) ==
  /\ Reading(c) /\ Take(c)
  /\ buf'[c][1].to = "favicon"
  /\ ses' = [ses EXCEPT ![c].ico = Append(@, buf'[c][1].id)]
  /\ UNCHANGED <<pc, len, output, history>>

\* Mutant of PipeSwitch: the new site is connected to without a look-up.
PipeSwitchUnrouted(c) ==
  /\ Reading(c) /\ Take(c)
  /\ buf'[c][1].to \notin {ses[c].site} \cup OtherKinds
  /\ len' = [len EXCEPT ![c] = buf'[c][1].id]
  /\ Goto(c, "connect") /\ EndSession(c)
  /\ UNCHANGED <<output, history>>

\* Another site: the session ends and the request is served from the top.
PipeSwitch(c) ==
  /\ Reading(c) /\ Take(c)
  /\ buf'[c][1].to \notin {ses[c].site} \cup OtherKinds
  /\ ServeRead(c) /\ EndSession(c)
  /\ UNCHANGED <<output, history>>

\* Mutant of PipeClientEnds: the end of the stream is ignored.
PipeClientEndIgnored(c) ==
  Reading(c) /\ client[c] # "open" /\ AllRead(c) /\ UNCHANGED vars

\* The client may still read; what its server has yet to answer is lost.
PipeClientEnds(c) ==
  /\ Reading(c) /\ client[c] # "open" /\ AllRead(c)
  /\ Drop(c) /\ Close(c) /\ EndSession(c)
  /\ UNCHANGED <<next, history>>

ClientFut(c) ==
  /\ \/ PipeRead(c) \/ PipeForward(c) \/ PipeForwardFails(c) \/ PipePanics(c)
     \/ PipeFavicon(c) \/ PipeSwitch(c) \/ PipeClientEnds(c)
  /\ UNCHANGED <<shared, input>>

-----------------------------------------------------------------------------
(***************************************************************************)
(* server_fut: an answer of the server, or the 404 for a favicon request,  *)
(* here "icon" to tell it from others, is written and then flushed.  The   *)
(* end of client_fut may drop it in between.                               *)
(***************************************************************************)
PipeAnswer(c) ==
  /\ InSession(c) /\ ~ses[c].flushing
  /\ \/ /\ ses[c].resp # <<>>
        /\ ses' = [ses EXCEPT ![c].resp = Tail(@), ![c].flushing = TRUE]
        /\ wbuf' = [wbuf EXCEPT ![c] = Append(@, Entry("server", Head(ses[c].resp)))]
     \/ /\ ses[c].ico # <<>>
        /\ ses' = [ses EXCEPT ![c].ico = Tail(@), ![c].flushing = TRUE]
        /\ wbuf' = [wbuf EXCEPT ![c] = Append(@, Entry("icon", Head(ses[c].ico)))]
  /\ UNCHANGED <<pc, buf, len, answers, history>>

\* The end of the server's stream is an answer of no bytes, read again and
\* again: nothing is written, but the flush sends what an earlier session
\* left in the buffer.
PipeServerEnds(c) ==
  /\ InSession(c) /\ ~ses[c].flushing
  /\ ses[c].server = "eof" /\ ses[c].resp = <<>> /\ wbuf[c] # <<>>
  /\ ses' = [ses EXCEPT ![c].flushing = TRUE]
  /\ UNCHANGED <<pc, buf, len, output, history>>

PipeFlush(c) ==
  /\ InSession(c) /\ ses[c].flushing
  /\ Flush(c, wbuf[c])
  /\ ses' = [ses EXCEPT ![c].flushing = FALSE]
  /\ UNCHANGED <<pc, buf, len, history>>

\* The write fails: the session ends, but bytes_read is not reset.  What
\* the next iteration finds in the buffer is the last read, whole or cut
\* where the read that opened the session ended.
PipeFlushFails(c) ==
  /\ InSession(c) /\ ses[c].flushing /\ client[c] = "gone"
  /\ failed' = [failed EXCEPT ![c] = TRUE]
  /\ \/ UNCHANGED buf
     \/ /\ len[c] # Req(c).id
        /\ \/ \E n \in 1 .. Len(buf[c]) : buf' = [buf EXCEPT ![c] = SubSeq(@, 1, n)]
           \/ \E k \in {"garbled", "panic"} : buf' = [buf EXCEPT ![c][1].to = k]
  /\ Goto(c, "serve") /\ Drop(c) /\ EndSession(c)
  /\ UNCHANGED <<len, received>>

\* What the 500 of a session that breaks is taken for the answer to: the
\* oldest request the server has not answered, or the one in hand.
Unanswered(c) ==
  CASE ses[c].asked # <<>> -> Head(ses[c].asked)
    [] ses[c].asked = <<>> /\ pc[c] = "forward" -> Req(c).id
    [] OTHER -> 0

\* Mutant of PipeServerFails: bytes_read is not reset.
PipeServerFailsKeepsLen(c) ==
  /\ InSession(c) /\ ~ses[c].flushing /\ ses[c].server = "reset"
  /\ Answer(c, "500", Unanswered(c))
  /\ Goto(c, "serve") /\ EndSession(c)
  /\ UNCHANGED <<buf, len, history>>

\* Mutant of PipeServerFails: a failed read is repeated, as at the end.
PipeServerFailureIgnored(c) ==
  InSession(c) /\ ~ses[c].flushing /\ ses[c].server = "reset" /\ UNCHANGED vars

\* A reset is read: 500, whether or not a request is pending.
PipeServerFails(c) ==
  /\ InSession(c) /\ ~ses[c].flushing /\ ses[c].server = "reset"
  /\ Answer(c, "500", Unanswered(c))
  /\ Continue(c) /\ EndSession(c)
  /\ UNCHANGED history

ServerFut(c) ==
  /\ \/ PipeAnswer(c) \/ PipeServerEnds(c)
     \/ PipeFlush(c) \/ PipeFlushFails(c) \/ PipeServerFails(c)
  /\ UNCHANGED <<shared, input, next>>

-----------------------------------------------------------------------------
Task(c) ==
  \/ ReadFirst(c) \/ ReadNext(c)
  \/ Serve(c) \/ DeleteServer(c) \/ Connect(c)
  \/ ClientFut(c) \/ ServerFut(c)

\* A failed accept ends run, main and, with the runtime, every task.
AcceptFails ==
  /\ "accept" \in Faults
  /\ \E c \in Conn : pc[c] # "closed"
  /\ pc' = [c \in Conn |-> "closed"]
  /\ UNCHANGED <<shared, input, next, buf, len, ses, output, history>>

Next ==
  \/ \E c \in Conn : Send(c) \/ Leave(c) \/ Respond(c) \/ Break(c) \/ Task(c)
  \/ AcceptFails

Spec == Init /\ [][Next]_vars

\* The runtime polls every task that can go on, and select its branches in
\* random order, so that a future that is ready again and again makes a step
\* (SF for client_fut; server_fut stays ready until it does).  A read outside
\* a session ends by its timeout at the latest.  Servers answer, and clients
\* that are there read what they are sent.
FairSpec ==
  /\ Spec
  /\ \A c \in Conn :
       /\ WF_vars(Task(c)) /\ WF_vars(ServerFut(c)) /\ SF_vars(ClientFut(c))
       /\ WF_vars(Respond(c))

-----------------------------------------------------------------------------
Requests == [id : Id, to : Kind, target : Site \cup {NoSite}, late : SUBSET Site]
Answers == [what : {"html", "icon", "200", "400", "404", "405", "500", "server"},
            re : 0 .. MaxSend]
Receipts == [id : Id, to : Kind, site : Site, leads : BOOLEAN, opens : BOOLEAN,
             late : SUBSET Site]

Sessions == [site : Site \cup {NoSite}, server : {"up", "eof", "reset"},
             asked : Seq(Id), resp : Seq(Id), ico : Seq(Id), flushing : BOOLEAN]

TypeOK ==
  /\ routes \subseteq Site /\ deleted \subseteq Site
  /\ client \in [Conn -> {"open", "half", "gone"}]
  /\ stream \in [Conn -> Seq(Requests)]
  /\ next \in [Conn -> 0 .. MaxSend]
  /\ pc \in [Conn -> {"start", "read", "serve", "delete", "connect", "pipe",
                      "forward", "closed"}]
  /\ buf \in [Conn -> Seq(Requests)]
  /\ len \in [Conn -> 0 .. MaxSend]
  /\ ses \in [Conn -> Sessions]
  /\ wbuf \in [Conn -> Seq(Answers)]
  /\ received \in [Conn -> Seq(Receipts)]
  /\ answers \in [Conn -> Seq(Answers)]
  /\ failed \in [Conn -> BOOLEAN]

-----------------------------------------------------------------------------
(***************************************************************************)
(* Safety.                                                                 *)
(***************************************************************************)

\* A read goes to a server only if its first request is for the server's
\* site, or cannot be parsed and does not open the session.
RoutedBySite ==
  \A c \in Conn : \A i \in DOMAIN received[c] :
    LET r == received[c][i] IN
    r.leads => r.to = r.site \/ (r.to \in {"garbled", "special"} /\ ~r.opens)

\* Servers get the requests of a connection in the order they were sent and
\* none twice.
InOrder(c) ==
  \A i, j \in DOMAIN received[c] : i < j => received[c][i].id < received[c][j].id

\* So it is whatever sessions are opened, broken off and replaced, until a
\* write to the client fails.
DeliveredInOrder == \A c \in Conn : ~failed[c] => InOrder(c)

\* A server gets without gaps what the client sends from the request that
\* opens the session on: a piece of a body follows the request it belongs to
\* and nothing is lost between them, however reads cut and join them, until
\* a write to the client fails.  Only a read that begins with a favicon
\* request is kept from the server.
NothingSkipped ==
  \A c \in Conn : \A i \in DOMAIN received[c] :
    LET r == received[c][i]
        before == received[c][i - 1].id
    IN  ~failed[c] /\ ~r.opens =>
          /\ i > 1 /\ r.id > before
          /\ r.id = before + 1 \/ stream[c][before + 1].to = "favicon"

\* No request is answered twice, by whomever, and answers come in the order
\* of the requests, across sessions too: no answer of an abandoned session
\* turns up after that to a later request.  Only the 404 for a favicon may
\* overtake what the server has yet to answer.
AnsweredOnceInOrder ==
  \A c \in Conn : \A i, j \in DOMAIN answers[c] :
    i < j /\ answers[c][j].re # 0 =>
      /\ answers[c][i].re # answers[c][j].re
      /\ "icon" \notin {answers[c][i].what, answers[c][j].what} =>
           answers[c][i].re < answers[c][j].re

\* No connection opens a session to a site for a request that was sent after
\* the deletion of its route was acknowledged, on any connection.
DeletedStaysDeleted ==
  \A c \in Conn : \A i \in DOMAIN received[c] :
    received[c][i].opens => received[c][i].site \notin received[c][i].late

\* A client that waits for its answers can take the n-th answer for that of
\* its n-th request: switches of site, favicons and failures of the server
\* do not shift them.  The end of its stream may be answered with a 400.
AnswersMatch ==
  \A c \in Conn : \A i \in DOMAIN answers[c] :
    \/ answers[c][i].re = i
    \/ client[c] # "open" /\ answers[c][i] = Entry("400", 0) /\ i = Len(answers[c])

(***************************************************************************)
(* Progress.                                                               *)
(***************************************************************************)

\* A client that waits for its answers gets them, or sees its connection
\* closed.
EveryRequestAnswered ==
  \A c \in Conn : \A n \in Id :
    Len(stream[c]) = n ~>
      (Len(answers[c]) >= n \/ pc[c] = "closed" \/ client[c] = "gone")

\* The task of a client that has left ends, whatever is in flight.
LeaversEnd == \A c \in Conn : client[c] # "open" ~> pc[c] = "closed"

(***************************************************************************)
(* What the code does not keep.                                            *)
(***************************************************************************)

\* The comment at src/proxy.rs:216: a loop iteration that is to read a new
\* request finds bytes_read reset to 0.  Then no request is forwarded again.
NoRequestForwardedTwice == \A c \in Conn : InOrder(c)
=============================================================================
