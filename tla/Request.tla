------------------------------- MODULE Request -------------------------------
(***************************************************************************)
(* What src/proxy.rs does with the bytes of a request: the two reads that  *)
(* bring the first one into req_buf, the site name and the request line    *)
(* that remove_site_name makes of it, what write_req sends to the server,  *)
(* and where find_body_start finds the body.                               *)
(*                                                                         *)
(* A byte is known by its class.  The exceptions are PATH, which stands    *)
(* for the bytes of "rusty-proxy-path:", and SITE, for those of a site     *)
(* name.  Indices count from 1, so that an end of the code's half-open     *)
(* ranges is the index of the last byte in them.                           *)
(***************************************************************************)
EXTENDS Naturals, Sequences, FiniteSets, SequencesExt

CONSTANTS
  Client,    \* clients: what they begin with, the bytes they go on with,
             \* and a bound on how many they send
  HeaderLen, \* bytes that handle looks at (4 in the code)
  BufSize    \* BUFFER_SIZE (1024 in the code)

SP == "sp"
SL == "/"
CR == "cr"
NL == "nl"
PATH == "path:"
SITE == "site"
COMMA == ","
NUL == "nul"
FF == "ff"
FE == "fe"
BAD == "bad" \* not UTF-8, as the two before are not
AllBytes == {SP, SL, CR, NL, PATH, SITE, COMMA, NUL, FF, FE, BAD, "x", "y"}

ASSUME RequestAssumption ==
  /\ \A c \in Client :
       c.begins \in Seq(AllBytes) /\ c.bytes \subseteq AllBytes /\ c.length \in Nat
  /\ HeaderLen \in Nat \ {0} /\ BufSize \in Nat
  /\ HeaderLen <= BufSize

-----------------------------------------------------------------------------
(***************************************************************************)
(* Searching and cutting.                                                  *)
(***************************************************************************)

\* The first index of byte b in s from i on; 0 if there is none.
Position(s, b, i) == SelectInSubSeq(s, i, Len(s), LAMBDA x : x = b)

NotUtf8(s) == \E i \in DOMAIN s : s[i] \in {BAD, FF, FE}

\* The ends of the lines of s, and the end of the line before the one that
\* ends at e.
LineEnds(s) == {i \in DOMAIN s : s[i] = NL}
Start(s, e) == Max({0} \cup {i \in LineEnds(s) : i < e})
Line(s, e) == SubSeq(s, Start(s, e) + 1, e)

-----------------------------------------------------------------------------
(***************************************************************************)
(* parse_site_name_indices and remove_site_name.                           *)
(***************************************************************************)
BadRequest == [kind |-> "400"]
Panic == [kind |-> "panic"]

\* Mutant of SlugOf: the slug ends at the first slash, the leading one too.
SlugToFirstSlash(req) ==
  LET sp1 == Position(req, SP, 1)
      sp2 == IF sp1 = 0 THEN 0 ELSE Position(req, SP, sp1 + 1)
      i1 == sp1 + 1
      sl == Position(req, SL, i1)
  IN  [ok |-> sp2 # 0, i1 |-> i1, i2 |-> IF sl \in 1 .. sp2 THEN sl ELSE sp2]

\* The index of the first byte of the slug and of the byte after its last.
SlugOf(req) ==
  LET sp1 == Position(req, SP, 1)
      sp2 == IF sp1 = 0 THEN 0 ELSE Position(req, SP, sp1 + 1)
      i1 == IF sp2 # 0 /\ req[sp1 + 1] = SL THEN sp1 + 2 ELSE sp1 + 1
      sl == Position(req, SL, i1)
  IN  [ok |-> sp2 # 0, i1 |-> i1, i2 |-> IF sl \in 1 .. sp2 THEN sl ELSE sp2]

\* replace_range panics when the range does not lie in the line.
RemoveSiteName(req) ==
  LET s == SlugOf(req)
      lineEnd == Position(req, NL, 1)
      line == SubSeq(req, 1, lineEnd)
      cutEnd == IF req[s.i2] = SL THEN s.i2 ELSE s.i2 - 1
  IN  IF ~s.ok \/ lineEnd = 0 \/ NotUtf8(line) THEN BadRequest
      ELSE IF cutEnd > lineEnd THEN Panic
      ELSE [kind |-> "ok",
            name |-> SubSeq(req, s.i1, s.i2 - 1),
            line |-> SubSeq(line, 1, s.i1 - 1) \o SubSeq(line, cutEnd + 1, lineEnd)]

-----------------------------------------------------------------------------
(***************************************************************************)
(* write_req and find_body_start.                                          *)
(***************************************************************************)
IsPathHeader(line) == line[1] = PATH

\* The end of the line that write_req takes for the last of the headers, one
\* of two bytes; 0 if there is none.
HeadersEnd(req) ==
  LET first == Position(req, NL, 1)
      blank == {e \in LineEnds(req) :
                  e # first /\ e - Start(req, e) = 2 /\ ~IsPathHeader(Line(req, e))}
  IN  IF blank = {} THEN 0 ELSE Min(blank)

\* The end of the first line with the proxy header, up to the blank one.
PathHeaderEnd(req) ==
  LET last == HeadersEnd(req)
      found == {e \in LineEnds(req) :
                  /\ e # Position(req, NL, 1)
                  /\ last = 0 \/ e < last
                  /\ IsPathHeader(Line(req, e))}
  IN  IF found = {} THEN 0 ELSE Min(found)

\* Mutant of WriteReq: `start = end' is missing before the break.
WriteReqBlankTwice(req, first) ==
  LET last == HeadersEnd(req)
      upTo == IF last = 0 THEN Len(req) ELSE Start(req, last)
  IN  [kind |-> "ok",
       out |-> first \o SubSeq(req, Position(req, NL, 1) + 1, upTo)
               \o (IF last = 0 THEN <<>> ELSE <<PATH, SITE, CR, NL, CR, NL>>
                    \o SubSeq(req, upTo + 1, Len(req)))]

\* What the server is sent for req, with the request line first.  The index
\* at which the proxy header's line is cut counts from the start of req and
\* not of the line: past the line's end whenever the line starts after byte 2.
WriteReq(req, first) ==
  LET begin == Position(req, NL, 1)
      p == PathHeaderEnd(req)
      last == HeadersEnd(req)
      Extended == SubSeq(Line(req, p), 1, p - 2) \o <<COMMA, SITE, CR, NL>>
      upTo == IF last = 0 THEN Len(req) ELSE Start(req, last)
      body == IF last = 0 THEN <<>> ELSE <<CR, NL>> \o SubSeq(req, last + 1, Len(req))
      headers ==
        IF p = 0 THEN SubSeq(req, begin + 1, upTo)
                      \o (IF last = 0 THEN <<>> ELSE <<PATH, SITE, CR, NL>>)
        ELSE SubSeq(req, begin + 1, Start(req, p)) \o Extended \o SubSeq(req, p + 1, upTo)
  IN  IF p # 0 /\ Start(req, p) > 2 THEN Panic
      ELSE [kind |-> "ok", out |-> first \o headers \o body]

\* The index of the first byte of the body; 0 for None.
FindBodyStart(req) ==
  LET blank == {e \in LineEnds(req) : Line(req, e) = <<CR, NL>>}
  IN  IF blank = {} THEN 0
      ELSE IF Min(blank) = Len(req) THEN 0 ELSE Min(blank) + 1

-----------------------------------------------------------------------------
(***************************************************************************)
(* Reading the first request.  The client's bytes arrive one by one; a     *)
(* read returns those that are there and fit, or none when the client has  *)
(* ended its stream.                                                       *)
(***************************************************************************)
VARIABLES
  client, \* the client of this connection
  sent,   \* history: the bytes sent
  got,    \* the number of bytes that the read in handle returned
  buf,    \* the part of req_buf that is filled
  pc

vars == <<client, sent, got, buf, pc>>

Init ==
  /\ client \in Client
  /\ sent = client.begins
  /\ got = 0 /\ buf = <<>>
  /\ pc = "header"

Send(b) ==
  /\ b \in client.bytes /\ Len(sent) < client.length
  /\ pc = "header" \/ (pc = "request" /\ got > 0)
  /\ sent' = Append(sent, b)
  /\ UNCHANGED <<client, got, buf, pc>>

\* The special headers are FF FF FF FF (tunnel) and FF FF FF FE (connect);
\* from32 of anything else is no such header, or one that is not acted on.
Special(h) ==
  HeaderLen >= 4 /\ h[1] = FF /\ h[2] = FF /\ h[3] = FF /\ h[4] \in {FF, FE}

\* Mutant of ReadHeader: only what was read is kept.
ReadHeaderTrimmed ==
  /\ pc = "header"
  /\ got' = Min({Len(sent), HeaderLen})
  /\ buf' = SubSeq(sent, 1, got')
  /\ pc' = "request"
  /\ UNCHANGED <<client, sent>>

\* handle: what the read does not fill stays zero, and all HeaderLen bytes
\* are passed on.  A read of no bytes is the end of the stream, and the next
\* read returns none either.
ReadHeader ==
  /\ pc = "header"
  /\ got' = Min({Len(sent), HeaderLen})
  /\ buf' = [i \in 1 .. HeaderLen |-> IF i <= got' THEN sent[i] ELSE NUL]
  /\ pc' = IF Special(buf') THEN "special" ELSE "request"
  /\ UNCHANGED <<client, sent>>

\* Mutant of ReadRequest: the second read starts at the buffer's beginning.
ReadRequestOver ==
  /\ pc = "request"
  /\ buf' = SubSeq(sent, got + 1, Min({Len(sent), got + BufSize - HeaderLen}))
  /\ pc' = "parse"
  /\ UNCHANGED <<client, sent, got>>

\* handle_http: the read that follows.  At the end of the stream the bytes of
\* the first read are parsed alone.
ReadRequest ==
  /\ pc = "request"
  /\ buf' = buf \o SubSeq(sent, got + 1, Min({Len(sent), got + BufSize - HeaderLen}))
  /\ pc' = "parse"
  /\ UNCHANGED <<client, sent, got>>

Next == (\E b \in AllBytes : Send(b)) \/ ReadHeader \/ ReadRequest

Spec == Init /\ [][Next]_vars

-----------------------------------------------------------------------------
TypeOK ==
  /\ client \in Client
  /\ sent \in Seq(AllBytes) /\ Len(sent) <= Max({client.length, Len(client.begins)})
  /\ got \in 0 .. HeaderLen
  /\ buf \in Seq(AllBytes) /\ Len(buf) <= BufSize
  /\ pc \in {"header", "request", "special", "parse"}
  /\ pc \in {"request", "special"} => Len(buf) = HeaderLen

Parsed == pc = "parse"

\* The part of what was sent that is in the buffer, short first read or not.
Taken == SubSeq(sent, 1, Len(buf) - HeaderLen + got)

-----------------------------------------------------------------------------
(***************************************************************************)
(* The request line.                                                       *)
(***************************************************************************)

\* s is <<method, target, version>> with two blanks between and a new line
\* at the end.
IsRequestLine(line, m, t, v) ==
  /\ line = m \o <<SP>> \o t \o <<SP>> \o v \o <<NL>>
  /\ {SP, NL} \cap (ToSet(m) \cup ToSet(t)) = {}
  /\ NL \notin ToSet(v)

\* The reference definition: of a target /slug/rest, /slug, slug/rest or
\* slug, the name is the slug, and /rest, /, rest or nothing is left.
IsSplit(target, name, left) ==
  /\ SL \notin ToSet(name)
  /\ \E lead \in {<<>>, <<SL>>} :
       /\ lead = <<SL>> <=> (target # <<>> /\ target[1] = SL)
       /\ \/ target = lead \o name /\ left = lead
          \/ \E rest \in {SubSeq(target, i, Len(target)) : i \in 1 .. Len(target) + 1} :
               target = lead \o name \o <<SL>> \o rest /\ left = lead \o rest

\* remove_site_name splits every proper request line as the reference
\* definition does and keeps its method and version.
SiteRemoved ==
  Parsed =>
    LET lineEnd == Position(buf, NL, 1)
        line == SubSeq(buf, 1, lineEnd)
        sp1 == Position(line, SP, 1)
        sp2 == Position(line, SP, sp1 + 1)
        m == SubSeq(line, 1, sp1 - 1)
        t == SubSeq(line, sp1 + 1, sp2 - 1)
        v == SubSeq(line, sp2 + 1, lineEnd - 1)
        r == RemoveSiteName(buf)
    IN  (lineEnd # 0 /\ sp1 # 0 /\ sp2 # 0 /\ ~NotUtf8(line)) =>
          /\ IsRequestLine(line, m, t, v)
          /\ r.kind = "ok"
          /\ \E i \in 0 .. Len(t) :
               LET left == SubSeq(r.line, sp1 + 1, sp1 + i)
               IN  IsSplit(t, r.name, left) /\ IsRequestLine(r.line, m, left, v)

\* How many bytes the very first read returns makes no difference to the
\* site a request goes to, provided that the method has three letters or more.
SiteSurvivesShortRead ==
  Parsed /\ Len(Taken) >= 3 /\ (\A i \in 1 .. 3 : sent[i] = "x") =>
    LET r == RemoveSiteName(buf)
        whole == RemoveSiteName(Taken)
    IN  r.kind = whole.kind /\ (r.kind = "ok" => r.name = whole.name)

-----------------------------------------------------------------------------
(***************************************************************************)
(* The headers.                                                            *)
(***************************************************************************)

\* All lines end with CR NL, as in HTTP.
CrlfOnly(s) == \A e \in LineEnds(s) : e > 1 /\ s[e - 1] = CR

\* A server gets the request with its new request line, the body untouched
\* where find_body_start sees it, and the proxy header once, as the last of
\* the headers, if the buffer holds the end of the headers.
PathAddedOnce ==
  LET r == RemoveSiteName(buf)
      begin == Position(buf, NL, 1)
      w == WriteReq(buf, r.line)
      b == FindBodyStart(buf)
      n == Len(buf)
      Headers(i) == r.line \o SubSeq(buf, begin + 1, i)
      added == <<PATH, SITE, CR, NL, CR, NL>>
  IN  (Parsed /\ CrlfOnly(buf) /\ PATH \notin ToSet(buf) /\ r.kind = "ok") =>
        /\ w.kind = "ok"
        /\ \/ b # 0 /\ w.out = Headers(b - 3) \o added \o SubSeq(buf, b, n)
           \/ /\ b = 0 /\ IsSuffix(<<CR, NL, CR, NL>>, buf)
              /\ w.out = Headers(n - 2) \o added
           \/ /\ b = 0 /\ ~IsSuffix(<<CR, NL, CR, NL>>, buf)
              /\ w.out = Headers(n)

-----------------------------------------------------------------------------
(***************************************************************************)
(* What the code does not keep.                                            *)
(***************************************************************************)

\* The comment at src/proxy.rs:598: on error, remove_site_name returns an
\* error response for the client.  Then it never panics.
RemoveSiteNameReturns == Parsed => RemoveSiteName(buf).kind \in {"ok", "400"}

\* The comment at src/proxy.rs:192: the request buffer begins with the bytes
\* previously read.
BeginsWithBytesRead == Parsed => buf = Taken

\* src/proxy.rs:537 and the branch at 553: a request that comes with a proxy
\* header goes on with that header, and the site added to it.
PathHeaderExtended ==
  LET r == RemoveSiteName(buf)
      p == PathHeaderEnd(buf)
  IN  Parsed /\ CrlfOnly(buf) /\ r.kind = "ok" /\ p # 0 =>
        /\ WriteReq(buf, r.line).kind = "ok"
        /\ \E i \in 1 .. Len(WriteReq(buf, r.line).out) : WriteReq(buf, r.line).out[i] = COMMA
=============================================================================
