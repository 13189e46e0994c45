-------------------------- MODULE ConnectionProofs --------------------------
(* Theorems about Connection, for requests whose bodies are counted: pages  *)
(* and uploads with a Content-Length, of any number and any length, cut     *)
(* anywhere, with disk errors and clients that leave.                       *)
EXTENDS Connection, FiniteSetTheorems, SequenceTheorems, TLAPS

\* Requests without chunks and parts; one that has no body has no payload.
Counted == \A i \in DOMAIN Asks :
    /\ Asks[i].coding \in {"none", "counted"} /\ ~Asks[i].multipart
    /\ Asks[i].coding = "none" => Asks[i].payload = 0

\* Requests that deserve no error page, and pages that are asked for with GET.
Fit == \A i \in DOMAIN Asks :
    /\ Asks[i].valid /\ Asks[i].payload <= MaxBody
    /\ ~Asks[i].upload => Asks[i].payload = 0

-----------------------------------------------------------------------------
(* The inductive invariant.                                                *)

\* What the parser has and the wire still brings.
Stream(q, w) == q.buffer \o w

\* Nothing that is taken for a request, however much follows it.
Bad(b) == b # <<>> /\ \A i \in DOMAIN Asks : b[1] = T("line", i) => ~Asks[i].valid

HeadOn(a) == <<T("head", a), CRLF, CRLF>> \o Payload(a)

\* What stays as it is when no body is chunked or has parts.
PlainConn(k) == /\ ~k.chunked /\ k.chunk_buf = <<>> /\ ~k.MPFlag /\ k.multipart = <<>>
                /\ k.multipart_state = "MP_BOUNDARY"

PlainReq(q) == ~q.chunked /\ ~q.mp_type /\ ~q.MPFlag

\* Request a is on its way to the parser, or what cannot be parsed is.
Waiting(q, w, a) ==
    /\ q.body = <<>>
    /\ \/ q.state = "REQUEST_LINE" /\ a = 0 /\ Stream(q, w) = <<>>
       \/ q.state = "REQUEST_LINE" /\ a # 0 /\ Asks[a].valid /\ Stream(q, w) = Wire(a)
       \/ q.state = "HEADERS" /\ a # 0 /\ Asks[a].valid /\ q.ask = a /\ Stream(q, w) = HeadOn(a)
       \/ q.state = "REQUEST_LINE" /\ Bad(Stream(q, w))

\* Request a has been read up to its body, of which w is still to come.
Taken(q, w, a) ==
    /\ q.state = IF Asks[a].payload = 0 THEN "COMPLETE" ELSE "BODY"
    /\ a # 0 /\ Asks[a].valid /\ q.ask = a /\ q.buffer = <<>>
    /\ q.body \o w = Payload(a) /\ q.content_length = Asks[a].payload

\* What reading more makes of a request that was waited for.
Outcome(q, w, a) == \/ Waiting(q, w, a) \/ Taken(q, w, a)
                    \/ q.state = "ERROR" /\ Bad(Stream(q, w))

\* An answer is queued: nothing of its request, or nothing usable, is left.
Queued(k, q, d, w, a) ==
    /\ (a # 0 /\ Stream(q, w) = <<>>) \/ Bad(Stream(q, w))
    /\ k.response_out = "201" =>
         a # 0 /\ k.location \in DOMAIN d /\ d[k.location] = Payload(a) /\ Asks[a].upload

\* The body of upload a goes from the wire into its file.
Uploading(k, q, d, w, a) ==
    /\ k.upload_file = [open |-> TRUE, good |-> TRUE] /\ k.response_out = "none"
    /\ a # 0 /\ Asks[a].upload /\ q.buffer = <<>>
    /\ k.upload_path \in DOMAIN d /\ d[k.upload_path] \o w = Payload(a)
    /\ k.upload_bytes_remaining = Len(w) /\ w # <<>>

\* The disk has failed in the middle of an upload, whose file is gone.
Broken(k, d) ==
    /\ k.upload_file = [open |-> FALSE, good |-> FALSE] /\ k.response_out # "201"
    /\ k.upload_path \in DOMAIN d /\ d[k.upload_path] = Removed
    /\ k.upload_bytes_remaining \in Nat \ {0}

\* The file of k is somebody's upload, a trace of none, or the one it writes.
Files(k, d) == \A f \in DOMAIN d :
    \/ d[f] = Removed
    \/ \E i \in DOMAIN Asks : Asks[i].upload /\ d[f] = Payload(i)
    \/ k.up /\ k.upload_active /\ k.upload_path = f

Keeps(k, d, K) == \A e \in K :
    /\ e.ask \in DOMAIN Asks /\ e.file \in DOMAIN d /\ d[e.file] = Payload(e.ask)
    /\ k.upload_active => e.file # k.upload_path

\* With fit requests, only a fault of the disk puts the two out of step.
InStep(k, q, w, a) ==
    k.upload_file.good /\ ~k.upload_active =>
        /\ (k.response_out = "none" /\ q.state = "HEADERS") \/ ~Bad(Stream(q, w))
        /\ k.response_out # "none" => a # 0 /\ k.response_out = Merit(a)

Session(k, q, d, w, a) ==
    /\ PlainConn(k) /\ PlainReq(q)
    /\ ~k.up => k = [NewConn EXCEPT !.up = FALSE] /\ q = NewParser /\ w = <<>> /\ a = 0
    /\ k.upload_active => Uploading(k, q, d, w, a) \/ Broken(k, d)
    /\ ~k.upload_active /\ k.response_out = "none" => Waiting(q, w, a)
    /\ ~k.upload_active /\ k.response_out # "none" => Queued(k, q, d, w, a)
    /\ Fit => InStep(k, q, w, a)

Client == [asking: {0} \cup DOMAIN Asks, asked: Nat,
           got: [ask: {0} \cup DOMAIN Asks, status: Statuses \cup {"none"}]]

IInv == /\ TypeOK /\ client \in Client
        /\ Session(conn, req, disk, wire, client.asking)
        /\ Files(conn, disk) /\ Keeps(conn, disk, kept)

-----------------------------------------------------------------------------
(* Sequences of tokens.                                                    *)

LEMMA Tokens ==
    /\ CRLF \in Token /\ Dashes \in Token /\ Boundary \in Token /\ T("torn", 0) \in Token
    /\ \A n \in Nat : T("line", n) \in Token /\ T("head", n) \in Token /\ T("data", n) \in Token
  BY DEF CRLF, Dashes, Boundary, T, Token

LEMMA AskType == \A a \in DOMAIN Asks : Asks[a] \in Ask /\ a \in Nat \ {0} /\ a <= Len(Asks)
  BY AsksAssumption

LEMMA PayloadIs ==
    ASSUME NEW a \in DOMAIN Asks
    PROVE  /\ Payload(a) \in Seq(Token) /\ Len(Payload(a)) = Asks[a].payload
           /\ Asks[a].payload \in Nat
           /\ \A n \in 1 .. Asks[a].payload : Payload(a)[n] = T("data", n)
  <1>1. Asks[a].payload \in Nat
    BY AskType DEF Ask
  <1>2. \A n \in 1 .. Asks[a].payload : T("data", n) \in Token
    BY <1>1, Tokens
  <1> QED BY <1>1, <1>2 DEF Payload

LEMMA BodyIs ==
    ASSUME Counted, NEW a \in DOMAIN Asks
    PROVE  Body(a) = Payload(a)
  <1>1. CASE Asks[a].coding = "none"
    <2>1. Len(Payload(a)) = 0
      BY <1>1, PayloadIs DEF Counted
    <2> QED BY <1>1, <2>1, PayloadIs DEF Body
  <1>2. CASE Asks[a].coding = "counted"
    BY <1>2 DEF Body, Counted
  <1> QED BY <1>1, <1>2 DEF Counted

LEMMA OneToken ==
    /\ \A x \in Token : <<x>> \in Seq(Token) /\ Len(<<x>>) = 1 /\ <<x>>[1] = x
    /\ \A l \in Seq(Token) : Len(l) = 1 => l = <<l[1]>>
  <1>1. \A x \in Token : <<x>> \in Seq(Token) /\ Len(<<x>>) = 1 /\ <<x>>[1] = x
    OBVIOUS
  <1>2. ASSUME NEW l \in Seq(Token), Len(l) = 1 PROVE l = <<l[1]>>
    <2>1. l[1] \in Token /\ \A i \in 1 .. Len(l) : i = 1
      BY <1>2
    <2>2. <<l[1]>> \in Seq(Token) /\ Len(<<l[1]>>) = Len(l) /\ <<l[1]>>[1] = l[1]
      BY <1>1, <1>2, <2>1
    <2>3. \A i \in 1 .. Len(l) : l[i] = <<l[1]>>[i]
      BY <2>1, <2>2
    <2> QED BY <2>2, <2>3, SeqEqual
  <1> QED BY <1>1, <1>2

\* The beginning of a request and what follows its first line.
LEMMA WireIs ==
    ASSUME Counted, NEW a \in DOMAIN Asks
    PROVE  /\ Wire(a) \in Seq(Token) /\ HeadOn(a) \in Seq(Token)
           /\ Len(Wire(a)) = 5 + Asks[a].payload /\ Len(HeadOn(a)) = 3 + Asks[a].payload
           /\ Wire(a)[1] = T("line", a) /\ Wire(a)[2] = CRLF
           /\ HeadOn(a)[1] = T("head", a) /\ HeadOn(a)[2] = CRLF /\ HeadOn(a)[3] = CRLF
           /\ Erase(Wire(a), 2) = HeadOn(a) /\ Erase(HeadOn(a), 3) = Payload(a)
  <1> DEFINE p == Payload(a)
             l == <<T("line", a), CRLF, T("head", a), CRLF, CRLF>>
             h == <<T("head", a), CRLF, CRLF>>
  <1>1. p \in Seq(Token) /\ Len(p) = Asks[a].payload /\ Asks[a].payload \in Nat
    BY PayloadIs
  <1>2. l \in Seq(Token) /\ Len(l) = 5 /\ h \in Seq(Token) /\ Len(h) = 3
    BY Tokens, AskType
  <1>3. Wire(a) = l \o p /\ HeadOn(a) = h \o p
    BY BodyIs DEF Wire, HeadOn
  <1>4. /\ l[1] = T("line", a) /\ l[2] = CRLF /\ l[3] = T("head", a) /\ l[4] = CRLF /\ l[5] = CRLF
        /\ h[1] = T("head", a) /\ h[2] = CRLF /\ h[3] = CRLF
    OBVIOUS
  <1> HIDE DEF p, l, h
  <1>5. /\ l \o p \in Seq(Token) /\ Len(l \o p) = 5 + Len(p)
        /\ \A i \in 1 .. 5 + Len(p) : (l \o p)[i] = IF i <= 5 THEN l[i] ELSE p[i - 5]
    <2>1. /\ l \o p \in Seq(Token) /\ Len(l \o p) = Len(l) + Len(p)
          /\ \A i \in 1 .. Len(l) + Len(p) :
               (l \o p)[i] = IF i <= Len(l) THEN l[i] ELSE p[i - Len(l)]
      BY <1>1, <1>2, ConcatProperties
    <2> QED BY <1>2, <2>1
  <1>6. /\ h \o p \in Seq(Token) /\ Len(h \o p) = 3 + Len(p)
        /\ \A i \in 1 .. 3 + Len(p) : (h \o p)[i] = IF i <= 3 THEN h[i] ELSE p[i - 3]
    <2>1. /\ h \o p \in Seq(Token) /\ Len(h \o p) = Len(h) + Len(p)
          /\ \A i \in 1 .. Len(h) + Len(p) :
               (h \o p)[i] = IF i <= Len(h) THEN h[i] ELSE p[i - Len(h)]
      BY <1>1, <1>2, ConcatProperties
    <2> QED BY <1>2, <2>1
  <1>7. Erase(l \o p, 2) = h \o p
    <2>1. /\ Erase(l \o p, 2) \in Seq(Token) /\ Len(Erase(l \o p, 2)) = 3 + Len(p)
          /\ \A i \in 1 .. 3 + Len(p) : Erase(l \o p, 2)[i] = (l \o p)[i + 2]
      BY <1>1, <1>5 DEF Erase
    <2>2. ASSUME NEW i \in 1 .. 3 + Len(p) PROVE Erase(l \o p, 2)[i] = (h \o p)[i]
      <3>1. Len(p) \in Nat /\ i \in Nat
        BY <1>1
      <3>2. Erase(l \o p, 2)[i] = (l \o p)[i + 2]
        BY <2>1
      <3>3. (l \o p)[i + 2] = IF i <= 3 THEN l[i + 2] ELSE p[i - 3]
        BY <3>1, <1>5
      <3>4. (h \o p)[i] = IF i <= 3 THEN h[i] ELSE p[i - 3]
        BY <1>6
      <3>5. i <= 3 => l[i + 2] = h[i]
        <4>1. i <= 3 => i = 1 \/ i = 2 \/ i = 3
          BY <3>1
        <4> QED BY <4>1, <1>4
      <3> QED BY <3>2, <3>3, <3>4, <3>5
    <2> QED BY <1>6, <2>1, <2>2, SeqEqual
  <1>8. Erase(h \o p, 3) = p
    <2>1. /\ Erase(h \o p, 3) \in Seq(Token) /\ Len(Erase(h \o p, 3)) = Len(p)
          /\ \A i \in 1 .. Len(p) : Erase(h \o p, 3)[i] = (h \o p)[i + 3]
      BY <1>1, <1>6 DEF Erase
    <2>2. \A i \in 1 .. Len(p) : Erase(h \o p, 3)[i] = p[i]
      BY SMTT(30), <1>1, <1>6, <2>1
    <2> QED BY <1>1, <2>1, <2>2, SeqEqual
  <1>9. /\ (l \o p)[1] = T("line", a) /\ (l \o p)[2] = CRLF
        /\ (h \o p)[1] = T("head", a) /\ (h \o p)[2] = CRLF /\ (h \o p)[3] = CRLF
    <2>1. l[1] = T("line", a) /\ l[2] = CRLF
      BY <1>4
    <2>2. h[1] = T("head", a) /\ h[2] = CRLF /\ h[3] = CRLF
      BY <1>4
    <2>3. (l \o p)[1] = l[1] /\ (l \o p)[2] = l[2]
      BY <1>1, <1>5
    <2>4. (h \o p)[1] = h[1] /\ (h \o p)[2] = h[2] /\ (h \o p)[3] = h[3]
      BY <1>1, <1>6
    <2> QED BY <2>1, <2>2, <2>3, <2>4
  <1>10. p = Payload(a)
    BY DEF p
  <1> QED BY <1>1, <1>3, <1>5, <1>6, <1>7, <1>8, <1>9, <1>10

\* Cutting and joining.
LEMMA Cuts ==
    ASSUME NEW b \in Seq(Token), NEW n \in 0 .. Len(b)
    PROVE  /\ Erase(b, n) \in Seq(Token) /\ Len(Erase(b, n)) = Len(b) - n
           /\ SubSeq(b, 1, n) \in Seq(Token) /\ Len(SubSeq(b, 1, n)) = n
           /\ SubSeq(b, 1, n) \o Erase(b, n) = b
           /\ Erase(b, 0) = b /\ SubSeq(b, 1, Len(b)) = b
  <1>0. Len(b) \in Nat
    OBVIOUS
  <1>1. SubSeq(b, 1, n) \o SubSeq(b, n + 1, Len(b)) = SubSeq(b, 1, Len(b))
    <2>1. 1 \in 1 .. Len(b) + 1 /\ n \in 1 - 1 .. Len(b) /\ Len(b) \in n .. Len(b)
      BY <1>0
    <2> QED BY <2>1, ConcatAdjacentSubSeq
  <1>2. SubSeq(b, 1, Len(b)) = b
    BY SubSeqFull
  <1>3. /\ SubSeq(b, n + 1, Len(b)) \in Seq(Token) /\ Len(SubSeq(b, n + 1, Len(b))) = Len(b) - n
        /\ SubSeq(b, 1, n) \in Seq(Token) /\ Len(SubSeq(b, 1, n)) = n
    BY <1>0
  <1>4. SubSeq(b, 0 + 1, Len(b)) = b
    BY <1>2
  <1> QED BY <1>1, <1>2, <1>3, <1>4 DEF Erase

LEMMA ZeroIs == 0 >= 0 /\ 0 \in Nat
  OBVIOUS

LEMMA Joins == \A b, c, d \in Seq(Token) : (b \o c) \o d = b \o (c \o d)
  BY ConcatAssociative

LEMMA EraseOfConcat ==
    ASSUME NEW b \in Seq(Token), NEW w \in Seq(Token), NEW n \in 0 .. Len(b)
    PROVE  Erase(b, n) \o w = Erase(b \o w, n)
  <1> DEFINE u == b \o w  e == Erase(b, n)
  <1>1. /\ u \in Seq(Token) /\ Len(u) = Len(b) + Len(w)
        /\ \A i \in 1 .. Len(b) + Len(w) : u[i] = IF i <= Len(b) THEN b[i] ELSE w[i - Len(b)]
    BY ConcatProperties
  <1>2. /\ e \in Seq(Token) /\ Len(e) = Len(b) - n
        /\ \A i \in 1 .. Len(b) - n : e[i] = b[i + n]
    BY DEF Erase
  <1> HIDE DEF u, e
  <1>3. /\ e \o w \in Seq(Token) /\ Len(e \o w) = Len(b) - n + Len(w)
        /\ \A i \in 1 .. Len(b) - n + Len(w) :
             (e \o w)[i] = IF i <= Len(b) - n THEN e[i] ELSE w[i - (Len(b) - n)]
    <2>1. /\ e \o w \in Seq(Token) /\ Len(e \o w) = Len(e) + Len(w)
          /\ \A i \in 1 .. Len(e) + Len(w) :
               (e \o w)[i] = IF i <= Len(e) THEN e[i] ELSE w[i - Len(e)]
      BY <1>2, ConcatProperties
    <2> QED BY <1>2, <2>1
  <1>4. /\ Erase(u, n) \in Seq(Token) /\ Len(Erase(u, n)) = Len(b) + Len(w) - n
        /\ \A i \in 1 .. Len(b) + Len(w) - n : Erase(u, n)[i] = u[i + n]
    BY <1>1 DEF Erase
  <1>5. \A i \in 1 .. Len(b) - n + Len(w) : (e \o w)[i] = Erase(u, n)[i]
    BY SMTT(30), <1>1, <1>2, <1>3, <1>4
  <1>6. Len(b) - n + Len(w) = Len(b) + Len(w) - n
    OBVIOUS
  <1>7. e \o w = Erase(u, n)
    BY <1>3, <1>4, <1>5, <1>6, SeqEqual
  <1> QED BY <1>7 DEF u, e

-----------------------------------------------------------------------------
(* The parser.                                                             *)

LEMMA FindAt ==
    ASSUME NEW p \in Seq(Token), NEW b \in Seq(Token),
           NEW k \in 1 .. Len(b) - Len(p) + 1, SubSeq(b, k, k + Len(p) - 1) = p,
           \A i \in 1 .. k - 1 : SubSeq(b, i, i + Len(p) - 1) # p
    PROVE  Find(p, b) = k
  <1> DEFINE at == {i \in 1 .. Len(b) - Len(p) + 1 : SubSeq(b, i, i + Len(p) - 1) = p}
  <1>1. k \in at /\ k \in Nat
    OBVIOUS
  <1>2. ASSUME NEW i \in at PROVE i \in Nat /\ k <= i
    <2>1. i \in Nat /\ i \in 1 .. Len(b) - Len(p) + 1
      OBVIOUS
    <2>2. i \notin 1 .. k - 1
      OBVIOUS
    <2> QED BY <2>1, <2>2
  <1> HIDE DEF at
  <1>3. Min(at) = k
    <2>1. \A y \in at : k <= y
      BY <1>2
    <2>2. ASSUME NEW x \in at, \A y \in at : x <= y PROVE x = k
      BY <1>1, <1>2, <2>2
    <2>3. Min(at) = CHOOSE x \in at : \A y \in at : x <= y
      BY DEF Min
    <2> QED BY <1>1, <2>1, <2>2, <2>3
  <1> QED BY <1>1, <1>3 DEF Find, at

LEMMA FindNone ==
    ASSUME NEW p, NEW b, \A i \in 1 .. Len(b) - Len(p) + 1 : SubSeq(b, i, i + Len(p) - 1) # p
    PROVE  Find(p, b) = 0
  BY DEF Find

\* The first CRLF and the first two of them, where they are wanted.
LEMMA FindLine ==
    ASSUME NEW b \in Seq(Token), Len(b) >= 1, b[1] # CRLF, Len(b) >= 2 => b[2] = CRLF
    PROVE  Find(<<CRLF>>, b) = IF Len(b) >= 2 THEN 2 ELSE 0
  <1> DEFINE p == <<CRLF>>
  <1>1. p \in Seq(Token) /\ Len(p) = 1 /\ p[1] = CRLF
    BY Tokens
  <1> HIDE DEF p
  <1>2. \A i \in 1 .. Len(b) : /\ SubSeq(b, i, i) \in Seq(Token) /\ Len(SubSeq(b, i, i)) = 1
                               /\ SubSeq(b, i, i)[1] = b[i]
    <2> SUFFICES ASSUME NEW i \in 1 .. Len(b)
                 PROVE  /\ SubSeq(b, i, i) \in Seq(Token) /\ Len(SubSeq(b, i, i)) = 1
                        /\ SubSeq(b, i, i)[1] = b[i]
      OBVIOUS
    <2>1. i \in Int /\ i - i + 1 = 1 /\ i + 1 - 1 = i /\ \A j \in i .. i : b[j] \in Token
      OBVIOUS
    <2>2. /\ SubSeq(b, i, i) \in Seq(Token)
          /\ Len(SubSeq(b, i, i)) = IF i <= i THEN i - i + 1 ELSE 0
          /\ \A j \in 1 .. i - i + 1 : SubSeq(b, i, i)[j] = b[i + j - 1]
      BY <2>1, SubSeqProperties
    <2>3. 1 \in 1 .. i - i + 1
      BY <2>1
    <2>4. SubSeq(b, i, i)[1] = b[i + 1 - 1]
      BY <2>2, <2>3
    <2> QED BY <2>1, <2>2, <2>4
  <1>3. SubSeq(b, 1, 1) # p
    BY <1>1, <1>2
  <1>4. CASE Len(b) >= 2
    <2>1. SubSeq(b, 2, 2) = p
      BY <1>1, <1>2, <1>4, SeqEqual
    <2>2. 2 \in 1 .. Len(b) - Len(p) + 1 /\ 2 + Len(p) - 1 = 2
      BY <1>1, <1>4
    <2>3. \A i \in 1 .. 2 - 1 : SubSeq(b, i, i + Len(p) - 1) # p
      <3>1. \A i \in 1 .. 2 - 1 : i = 1 /\ i + Len(p) - 1 = 1
        BY <1>1
      <3> QED BY <1>3, <3>1
    <2>4. Find(p, b) = 2
      BY <1>1, <2>1, <2>2, <2>3, FindAt
    <2> QED BY <1>4, <2>4 DEF p
  <1>5. CASE ~(Len(b) >= 2)
    <2>1. \A i \in 1 .. Len(b) - Len(p) + 1 : i = 1 /\ i + Len(p) - 1 = 1
      BY <1>1, <1>5
    <2>2. Find(p, b) = 0
      BY <1>3, <2>1, FindNone
    <2> QED BY <1>5, <2>2 DEF p
  <1> QED BY <1>4, <1>5

LEMMA FindHead ==
    ASSUME NEW b \in Seq(Token), Len(b) >= 1 => b[1] # CRLF,
           Len(b) >= 3 => b[2] = CRLF /\ b[3] = CRLF
    PROVE  Find(<<CRLF, CRLF>>, b) = IF Len(b) >= 3 THEN 2 ELSE 0
  <1> DEFINE p == <<CRLF, CRLF>>
  <1>1. p \in Seq(Token) /\ Len(p) = 2 /\ p[1] = CRLF /\ p[2] = CRLF
    BY Tokens
  <1> HIDE DEF p
  <1>2. \A i \in 1 .. Len(b) - 1 :
          /\ SubSeq(b, i, i + 1) \in Seq(Token) /\ Len(SubSeq(b, i, i + 1)) = 2
          /\ SubSeq(b, i, i + 1)[1] = b[i] /\ SubSeq(b, i, i + 1)[2] = b[i + 1]
    <2> SUFFICES ASSUME NEW i \in 1 .. Len(b) - 1
                 PROVE  /\ SubSeq(b, i, i + 1) \in Seq(Token) /\ Len(SubSeq(b, i, i + 1)) = 2
                        /\ SubSeq(b, i, i + 1)[1] = b[i] /\ SubSeq(b, i, i + 1)[2] = b[i + 1]
      OBVIOUS
    <2>1. /\ i \in Int /\ i + 1 \in Int /\ (i + 1) - i + 1 = 2 /\ i <= i + 1
          /\ i + 1 - 1 = i /\ i + 2 - 1 = i + 1
          /\ \A j \in i .. i + 1 : b[j] \in Token
      OBVIOUS
    <2>2. /\ SubSeq(b, i, i + 1) \in Seq(Token)
          /\ Len(SubSeq(b, i, i + 1)) = IF i <= i + 1 THEN (i + 1) - i + 1 ELSE 0
          /\ \A j \in 1 .. (i + 1) - i + 1 : SubSeq(b, i, i + 1)[j] = b[i + j - 1]
      BY <2>1, SubSeqProperties
    <2>3. 1 \in 1 .. (i + 1) - i + 1 /\ 2 \in 1 .. (i + 1) - i + 1
      BY <2>1
    <2>4. SubSeq(b, i, i + 1)[1] = b[i + 1 - 1] /\ SubSeq(b, i, i + 1)[2] = b[i + 2 - 1]
      BY <2>2, <2>3
    <2> QED BY <2>1, <2>2, <2>4
  <1>3. Len(b) >= 2 => SubSeq(b, 1, 2) # p
    <2>1. Len(b) >= 2 => SubSeq(b, 1, 1 + 1)[1] = b[1]
      BY <1>2
    <2> QED BY <1>1, <2>1
  <1>4. CASE Len(b) >= 3
    <2>1. SubSeq(b, 2, 3) = p
      <3>1. /\ SubSeq(b, 2, 3) \in Seq(Token) /\ Len(SubSeq(b, 2, 3)) = 2
            /\ SubSeq(b, 2, 3)[1] = b[2] /\ SubSeq(b, 2, 3)[2] = b[3]
        <4>1. 2 \in 1 .. Len(b) - 1 /\ 2 + 1 = 3
          BY <1>4
        <4> QED BY <4>1, <1>2
      <3>2. \A i \in 1 .. 2 : i = 1 \/ i = 2
        OBVIOUS
      <3>3. \A i \in 1 .. 2 : SubSeq(b, 2, 3)[i] = p[i]
        BY <1>1, <1>4, <3>1, <3>2
      <3> QED BY <1>1, <3>1, <3>3, SeqEqual
    <2>2. 2 \in 1 .. Len(b) - Len(p) + 1 /\ 2 + Len(p) - 1 = 3
      BY <1>1, <1>4
    <2>3. \A i \in 1 .. 2 - 1 : SubSeq(b, i, i + Len(p) - 1) # p
      <3>1. \A i \in 1 .. 2 - 1 : i = 1 /\ i + Len(p) - 1 = 2
        BY <1>1
      <3>2. SubSeq(b, 1, 2) # p
        BY <1>3, <1>4
      <3> QED BY <3>1, <3>2
    <2>4. Find(p, b) = 2
      BY <1>1, <2>1, <2>2, <2>3, FindAt
    <2> QED BY <1>4, <2>4 DEF p
  <1>5. CASE ~(Len(b) >= 3)
    <2>1. \A i \in 1 .. Len(b) - Len(p) + 1 : i = 1 /\ i + Len(p) - 1 = 2 /\ Len(b) >= 2
      BY <1>1, <1>5
    <2>2. Find(p, b) = 0
      BY <1>3, <2>1, FindNone
    <2> QED BY <1>5, <2>2 DEF p
  <1> QED BY <1>4, <1>5

\* A set of positions has a first one, as what precedes it has no gap.
LEMMA First ==
    ASSUME NEW n \in Nat, NEW S \in SUBSET (1 .. n), S # {}
    PROVE  \E k \in S : \A i \in S : k <= i
  <1> DEFINE D == {i \in 1 .. n : \A j \in 1 .. i : j \notin S}
             c == Cardinality(D)
  <1>1. D \in SUBSET (1 .. n) /\ \A i \in D : \A j \in 1 .. i : j \in D
    OBVIOUS
  <1>2. IsFiniteSet(1 .. n) /\ Cardinality(1 .. n) = n
    BY FS_Interval
  <1>3. IsFiniteSet(D) /\ c \in Nat /\ c <= n
    BY <1>1, <1>2, FS_Subset, FS_CardinalityType
  <1>4. IsFiniteSet(1 .. c) /\ Cardinality(1 .. c) = c
    BY <1>3, FS_Interval
  <1>5. ASSUME NEW i \in D PROVE i \in 1 .. c
    <2>1. i \in Nat /\ 1 <= i /\ 1 .. i \subseteq D
      BY <1>1
    <2>2. Cardinality(1 .. i) = i
      BY <2>1, FS_Interval
    <2>3. Cardinality(1 .. i) <= c
      BY <1>3, <2>1, FS_Subset
    <2> QED BY <1>3, <2>1, <2>2, <2>3
  <1>6. D = 1 .. c
    <2>1. D \subseteq 1 .. c
      BY <1>5
    <2> QED BY <1>3, <1>4, <2>1, FS_Subset
  <1>7. \A i \in 1 .. c : i \notin S
    BY <1>6
  <1>8. PICK m \in S : TRUE
    OBVIOUS
  <1>9. c + 1 \in 1 .. n
    BY <1>3, <1>7, <1>8
  <1>10. c + 1 \notin D
    BY <1>3, <1>6
  <1>11. c + 1 \in S
    <2>1. PICK j \in 1 .. c + 1 : j \in S
      BY <1>9, <1>10
    <2>2. j = c + 1
      BY <1>3, <1>7, <2>1
    <2> QED BY <2>1, <2>2
  <1>12. ASSUME NEW i \in S PROVE c + 1 <= i
    BY <1>3, <1>7
  <1> QED BY <1>11, <1>12

LEMMA FindType ==
    ASSUME NEW p \in Seq(Token), Len(p) \in Nat \ {0}, NEW b \in Seq(Token)
    PROVE  Find(p, b) \in 0 .. Len(b)
  <1> DEFINE at == {i \in 1 .. Len(b) - Len(p) + 1 : SubSeq(b, i, i + Len(p) - 1) = p}
  <1>1. CASE at = {}
    BY <1>1 DEF Find
  <1>2. CASE at # {}
    <2>1. at \in SUBSET (1 .. Len(b)) /\ Len(b) \in Nat
      OBVIOUS
    <2> HIDE DEF at
    <2>2. \E k \in at : \A i \in at : k <= i
      BY <1>2, <2>1, First
    <2>3. Min(at) \in at
      BY <2>2 DEF Min
    <2> QED BY <1>2, <2>1, <2>3 DEF Find, at
  <1> QED BY <1>1, <1>2

\* parseSL, of a good line and of a bad one.
LEMMA LineRead ==
    ASSUME Counted, NEW q \in Parser, NEW w \in Seq(Token), NEW a \in DOMAIN Asks,
           q.state = "REQUEST_LINE", Asks[a].valid, Stream(q, w) = Wire(a), q.buffer # <<>>
    PROVE  ParseLine(q) = IF Len(q.buffer) < 2 THEN q
                          ELSE [q EXCEPT !.state = "HEADERS", !.buffer = Erase(q.buffer, 2),
                                         !.ask = a]
  <1> DEFINE b == q.buffer
             pos == Find(<<CRLF>>, b)
             line == SubSeq(b, 1, pos - 1)
  <1>1. b \in Seq(Token) /\ Len(b) \in Nat /\ Len(b) >= 1
    BY EmptySeq DEF Parser
  <1>2. \A i \in 1 .. Len(b) : b[i] = Wire(a)[i]
    BY <1>1, ConcatProperties DEF Stream
  <1>3. b[1] = T("line", a) /\ (Len(b) >= 2 => b[2] = CRLF)
    BY <1>1, <1>2, WireIs
  <1>4. b[1] # CRLF
    BY <1>3 DEF T, CRLF
  <1>5. pos = IF Len(b) >= 2 THEN 2 ELSE 0
    BY <1>1, <1>3, <1>4, FindLine
  <1>6. CASE Len(b) < 2
    BY <1>1, <1>5, <1>6 DEF ParseLine
  <1>7. CASE ~(Len(b) < 2)
    <2>1. pos = 2
      BY <1>1, <1>5, <1>7
    <2>2. line \in Seq(Token) /\ Len(line) = 1 /\ line[1] = b[1]
      <3>1. 1 \in 0 .. Len(b)
        BY <1>1
      <3>2. SubSeq(b, 1, 1) \in Seq(Token) /\ Len(SubSeq(b, 1, 1)) = 1
        BY <1>1, <3>1, Cuts
      <3>3. SubSeq(b, 1, 1)[1] = b[1]
        BY <1>1
      <3>4. line = SubSeq(b, 1, 1)
        BY <2>1
      <3> HIDE DEF line
      <3> QED BY <3>2, <3>3, <3>4
    <2>3. line = <<T("line", a)>> /\ line[1].v = a
      <3> HIDE DEF line
      <3>1. line[1] = T("line", a) /\ T("line", a).v = a
        BY <1>3, <2>2 DEF T
      <3> QED BY <2>2, <3>1, OneToken
    <2>4. \E i \in DOMAIN Asks : line = <<T("line", i)>> /\ Asks[i].valid
      BY <2>3
    <2>5. ParseLine(q) = [q EXCEPT !.state = "HEADERS", !.buffer = Erase(@, pos), !.ask = line[1].v]
      <3> HIDE DEF pos
      <3>1. pos # 0
        BY <2>1
      <3> QED BY <2>4, <3>1 DEF ParseLine, pos
    <2> QED BY <1>7, <2>1, <2>3, <2>5
  <1> QED BY <1>6, <1>7

LEMMA LineBad ==
    ASSUME NEW q \in Parser, q.state = "REQUEST_LINE", Bad(q.buffer)
    PROVE  ParseLine(q) = q \/ ParseLine(q) = [q EXCEPT !.state = "ERROR"]
  <1> DEFINE b == q.buffer
             pos == Find(<<CRLF>>, b)
             line == SubSeq(b, 1, pos - 1)
  <1>1. b \in Seq(Token) /\ Len(b) \in Nat /\ Len(b) >= 1
    BY EmptySeq DEF Parser, Bad
  <1>2. pos \in 0 .. Len(b)
    <2> DEFINE p == <<CRLF>>
    <2>1. p \in Seq(Token) /\ Len(p) \in Nat \ {0}
      BY Tokens, OneToken
    <2>2. pos = Find(p, b)
      OBVIOUS
    <2> HIDE DEF p, pos
    <2> QED BY <1>1, <2>1, <2>2, FindType
  <1> HIDE DEF pos
  <1>3. ASSUME pos # 0, NEW i \in DOMAIN Asks, line = <<T("line", i)>> PROVE ~Asks[i].valid
    <2>1. pos - 1 \in 0 .. Len(b)
      BY <1>1, <1>2, <1>3
    <2>2. line \in Seq(Token) /\ Len(line) = pos - 1
      BY <1>1, <2>1, Cuts
    <2>3. Len(line) = 1 /\ line[1] = T("line", i)
      <3> HIDE DEF line
      <3> QED BY <1>3, OneToken, Tokens, AskType
    <2>4. pos - 1 = 1
      BY <2>2, <2>3
    <2>5. SubSeq(b, 1, 1)[1] = b[1]
      BY <1>1
    <2>6. b[1] = T("line", i)
      BY <2>3, <2>4, <2>5
    <2> QED BY <2>6 DEF Bad
  <1> QED BY <1>3 DEF ParseLine, pos

\* parseHeader, of a header block that is there.
AfterHead(q, a) == [q EXCEPT !.state = IF Asks[a].payload = 0 THEN "COMPLETE" ELSE "BODY",
                             !.buffer = Erase(q.buffer, 3), !.content_length = Asks[a].payload]

LEMMA HeadRead ==
    ASSUME Counted, NEW q \in Parser, NEW w \in Seq(Token), NEW a \in DOMAIN Asks,
           PlainReq(q), q.state = "HEADERS", Stream(q, w) = HeadOn(a)
    PROVE  ParseHead(q) = IF Len(q.buffer) < 3 THEN q ELSE AfterHead(q, a)
  <1> DEFINE b == q.buffer
             empty == b # <<>> /\ Head(b) = CRLF
             pos == Find(<<CRLF, CRLF>>, b)
             head == SubSeq(b, 1, pos - 1)
             ask == Asks[head[1].v]
             length == IF ask.coding = "counted" THEN Len(Body(head[1].v)) ELSE 0
             chunked == ask.coding = "chunked"
             read == [q EXCEPT !.state = IF length = 0 /\ ~chunked THEN "COMPLETE" ELSE "BODY",
                       !.buffer = Erase(@, pos + 1), !.content_length = length,
                       !.chunked = chunked,
                       !.mp_type = IF ask.coding = "none" THEN @ ELSE ask.multipart]
  <1>1. b \in Seq(Token) /\ Len(b) \in Nat
    BY DEF Parser
  <1>2. \A i \in 1 .. Len(b) : b[i] = HeadOn(a)[i]
    BY <1>1, ConcatProperties DEF Stream
  <1>3. /\ Len(b) >= 1 => b[1] = T("head", a)
        /\ Len(b) >= 2 => b[2] = CRLF
        /\ Len(b) >= 3 => b[3] = CRLF
    BY <1>1, <1>2, WireIs
  <1>4. Len(b) >= 1 => b[1] # CRLF
    BY <1>3 DEF T, CRLF
  <1>5. pos = IF Len(b) >= 3 THEN 2 ELSE 0
    BY <1>1, <1>3, <1>4, FindHead
  <1>6. ~empty
    BY <1>1, <1>4, EmptySeq
  <1>7. ParseHead(q) = IF pos = 0 THEN q
                       ELSE IF \A i \in DOMAIN Asks : head # <<T("head", i)>>
                         THEN [q EXCEPT !.state = "ERROR"] ELSE read
    <2> HIDE DEF pos, length, chunked
    <2> QED BY <1>6 DEF ParseHead, pos, length, chunked
  <1>8. CASE Len(b) < 3
    BY <1>1, <1>5, <1>7, <1>8
  <1>9. CASE ~(Len(b) < 3)
    <2>1. pos = 2 /\ pos + 1 = 3
      BY <1>1, <1>5, <1>9
    <2>2. head \in Seq(Token) /\ Len(head) = 1 /\ head[1] = b[1]
      <3>1. 1 \in 0 .. Len(b)
        BY <1>1, <1>9
      <3>2. SubSeq(b, 1, 1) \in Seq(Token) /\ Len(SubSeq(b, 1, 1)) = 1
        BY <1>1, <3>1, Cuts
      <3>3. SubSeq(b, 1, 1)[1] = b[1]
        BY <1>1, <1>9
      <3>4. head = SubSeq(b, 1, 1)
        BY <2>1
      <3> HIDE DEF head
      <3> QED BY <3>2, <3>3, <3>4
    <2>3. head = <<T("head", a)>> /\ head[1].v = a
      <3> HIDE DEF head
      <3>1. head[1] = T("head", a) /\ T("head", a).v = a
        BY <1>1, <1>3, <1>9, <2>2 DEF T
      <3> QED BY <2>2, <3>1, OneToken
    <2>4. ask = Asks[a] /\ ~chunked /\ length = Asks[a].payload
      <3>1. ask = Asks[a]
        BY <2>3
      <3>2. length = IF Asks[a].coding = "counted" THEN Len(Body(a)) ELSE 0
        BY <2>3
      <3> QED BY <3>1, <3>2, BodyIs, PayloadIs DEF Counted
    <2>5. Asks[a].multipart = FALSE
      BY AskType DEF Counted, Ask
    <2>6. q.chunked = FALSE /\ q.mp_type = FALSE
      BY DEF PlainReq, Parser
    <2>7. ParseHead(q) = read
      <3> HIDE DEF pos, head, read
      <3>1. pos # 0 /\ head = <<T("head", a)>>
        BY <2>1, <2>3
      <3> QED BY <1>7, <3>1
    <2>8. read = AfterHead(q, a)
      <3> HIDE DEF pos, ask, length, chunked
      <3>1. chunked = FALSE /\ (IF ask.coding = "none" THEN q.mp_type ELSE ask.multipart) = FALSE
        BY <2>4, <2>5, <2>6 DEF chunked
      <3> QED BY <2>1, <2>4, <2>6, <3>1 DEF Parser, AfterHead
    <2> QED BY <1>1, <1>9, <2>7, <2>8
  <1> QED BY <1>8, <1>9

LEMMA BadStream ==
    /\ \A b, w \in Seq(Token) : b # <<>> => (Bad(b \o w) <=> Bad(b))
    /\ \A b \in Seq(Token), w \in Seq(Token) : Bad(b) => Bad(b \o w)
    /\ \A a \in DOMAIN Asks : Counted => (Bad(Wire(a)) <=> ~Asks[a].valid)
  <1>1. ASSUME NEW b \in Seq(Token), NEW w \in Seq(Token), b # <<>>
        PROVE  Bad(b \o w) <=> Bad(b)
    <2>1. Len(b) \in Nat \ {0} /\ Len(w) \in Nat
      BY <1>1, EmptySeq
    <2>2. (b \o w)[1] = b[1] /\ b \o w # <<>>
      <3>1. 1 \in 1 .. Len(b) + Len(w) /\ 1 <= Len(b)
        BY <2>1
      <3>2. (b \o w)[1] = b[1] /\ b \o w \in Seq(Token) /\ Len(b \o w) = Len(b) + Len(w)
        BY <3>1, ConcatProperties
      <3> QED BY <2>1, <3>2, EmptySeq
    <2> QED BY <1>1, <2>2 DEF Bad
  <1>2. ASSUME NEW b \in Seq(Token), NEW w \in Seq(Token), Bad(b) PROVE Bad(b \o w)
    BY <1>1, <1>2 DEF Bad
  <1>3. ASSUME NEW a \in DOMAIN Asks, Counted PROVE Bad(Wire(a)) <=> ~Asks[a].valid
    <2>1. Wire(a) \in Seq(Token) /\ Wire(a)[1] = T("line", a) /\ Wire(a) # <<>>
      <3>1. Asks[a].payload \in Nat
        BY PayloadIs
      <3> QED BY <1>3, <3>1, WireIs, EmptySeq
    <2>2. \A i \in DOMAIN Asks : T("line", a) = T("line", i) <=> i = a
      BY DEF T
    <2> QED BY <2>1, <2>2 DEF Bad
  <1> QED BY <1>1, <1>2, <1>3

\* What is left of a body is no request.
LEMMA RestIsBad ==
    ASSUME NEW a \in DOMAIN Asks, NEW b \in Seq(Token), NEW w \in Seq(Token), b \o w = Payload(a)
    PROVE  w = <<>> \/ Bad(w)
  <1> SUFFICES ASSUME w # <<>> PROVE Bad(w)
    OBVIOUS
  <1>1. Len(w) \in Nat \ {0} /\ Len(b) \in Nat
    BY EmptySeq
  <1>2. Len(b) + Len(w) = Asks[a].payload
    <2>1. Len(b \o w) = Len(b) + Len(w)
      BY ConcatProperties
    <2> QED BY <2>1, PayloadIs
  <1>3. Len(b) + 1 \in 1 .. Len(b) + Len(w)
    BY <1>1
  <1>4. (b \o w)[Len(b) + 1] = w[Len(b) + 1 - Len(b)]
    <2>1. ~(Len(b) + 1 <= Len(b))
      BY <1>1
    <2> QED BY <1>3, <2>1, ConcatProperties
  <1>5. Payload(a)[Len(b) + 1] = T("data", Len(b) + 1)
    BY <1>2, <1>3, PayloadIs
  <1>6. w[1] = T("data", Len(b) + 1)
    BY <1>1, <1>4, <1>5
  <1> QED BY <1>6 DEF Bad, T

\* parseBody, of a counted body no more of which has come than there is.
LEMMA BodyRead ==
    ASSUME NEW q \in Parser, PlainReq(q), q.state = "BODY", q.body = <<>>,
           Len(q.buffer) <= q.content_length
    PROVE  ParseBody(q) = [q EXCEPT !.body = q.buffer, !.buffer = <<>>]
  <1> DEFINE n == IF Len(q.buffer) < q.content_length THEN Len(q.buffer)
                  ELSE q.content_length
  <1>1. q.buffer \in Seq(Token) /\ Len(q.buffer) \in Nat /\ q.content_length \in Nat
    BY DEF Parser
  <1>2. n = Len(q.buffer) /\ n \in 0 .. Len(q.buffer)
    BY <1>1
  <1>3. SubSeq(q.buffer, 1, n) = q.buffer
    BY <1>1, <1>2, Cuts
  <1>4. Erase(q.buffer, n) = <<>>
    <2>1. Erase(q.buffer, n) \in Seq(Token) /\ Len(Erase(q.buffer, n)) = 0
      BY <1>1, <1>2, Cuts
    <2> QED BY <2>1, EmptySeq
  <1>5. q.chunked = FALSE /\ (q.MPFlag \/ q.mp_type) = q.MPFlag
    BY DEF PlainReq, Parser
  <1>6. ParseBody(q) = [q EXCEPT !.MPFlag = @ \/ q.mp_type, !.body = SubSeq(q.buffer, 1, n),
                                 !.buffer = Erase(@, n)]
    BY <1>5 DEF ParseBody
  <1> HIDE DEF n
  <1> QED BY <1>3, <1>4, <1>5, <1>6 DEF Parser

\* The headers of a request that is there, and what has come of its body.
LEMMA HeadOutcome ==
    ASSUME Counted, NEW q \in Parser, NEW w \in Seq(Token), NEW a \in DOMAIN Asks,
           PlainReq(q), q.state = "HEADERS", q.body = <<>>, q.ask = a, Asks[a].valid,
           Stream(q, w) = HeadOn(a),
           NEW r, r = ParseBody(ParseHead(q))
    PROVE  /\ r \in Parser /\ PlainReq(r)
           /\ Taken(r, w, a) \/ (Waiting(r, w, a) /\ r.state = "HEADERS")
  <1> DEFINE h == ParseHead(q)
             e == Erase(q.buffer, 3)
  <1>1. q.buffer \in Seq(Token) /\ Len(q.buffer) \in Nat
    BY DEF Parser
  <1>2. CASE Len(q.buffer) < 3
    <2>1. h = q
      BY <1>2, HeadRead
    <2>2. r = q
      BY <2>1 DEF ParseBody
    <2> QED BY <2>2 DEF Waiting
  <1>3. CASE ~(Len(q.buffer) < 3)
    <2>1. h = [q EXCEPT !.state = IF Asks[a].payload = 0 THEN "COMPLETE" ELSE "BODY",
                        !.buffer = e, !.content_length = Asks[a].payload]
      <3>1. h = AfterHead(q, a)
        <4>1. h = IF Len(q.buffer) < 3 THEN q ELSE AfterHead(q, a)
          BY HeadRead
        <4> HIDE DEF h
        <4> QED BY <1>3, <4>1
      <3> QED BY <3>1 DEF AfterHead
    <2>2. 3 \in 0 .. Len(q.buffer)
      BY <1>1, <1>3
    <2>3. e \in Seq(Token) /\ e \o w = Payload(a)
      <3>1. e \in Seq(Token) /\ e \o w = Erase(Stream(q, w), 3)
        BY <1>1, <2>2, Cuts, EraseOfConcat DEF Stream
      <3> HIDE DEF e
      <3> QED BY <3>1, WireIs
    <2>4. Len(e) \in Nat /\ Len(w) \in Nat /\ Len(e) + Len(w) = Asks[a].payload
      <3> HIDE DEF e
      <3>1. Len(e \o w) = Len(e) + Len(w)
        BY <2>3, ConcatProperties
      <3> QED BY <2>3, <3>1, PayloadIs
    <2> HIDE DEF e
    <2>5. /\ h \in Parser /\ PlainReq(h) /\ h.body = <<>> /\ h.ask = a /\ h.buffer = e
          /\ h.state = (IF Asks[a].payload = 0 THEN "COMPLETE" ELSE "BODY")
          /\ h.content_length = Asks[a].payload
      BY <2>1, <2>3, PayloadIs DEF Parser, PlainReq
    <2>6. CASE Asks[a].payload = 0
      <3>1. r = h
        <4>1. h.state = "COMPLETE"
          BY <2>5, <2>6
        <4> HIDE DEF h
        <4> QED BY <4>1 DEF ParseBody, h
      <3>2. e = <<>> /\ w = <<>>
        BY <2>3, <2>4, <2>6, EmptySeq
      <3> HIDE DEF h
      <3>3. Taken(r, w, a)
        BY <2>3, <2>5, <2>6, <3>1, <3>2, AskType DEF Taken
      <3> QED BY <2>5, <3>1, <3>3
    <2>7. CASE Asks[a].payload # 0
      <3> HIDE DEF h
      <3>1. h.state = "BODY" /\ Len(h.buffer) <= h.content_length
        BY <2>4, <2>5, <2>7
      <3>2. r = [h EXCEPT !.body = h.buffer, !.buffer = <<>>]
        BY <2>5, <3>1, BodyRead DEF h
      <3>3. r.body = e /\ r.buffer = <<>> /\ r.state = "BODY" /\ r.ask = a
            /\ r.content_length = Asks[a].payload
        BY <2>5, <3>1, <3>2 DEF Parser
      <3>4. r \in Parser /\ PlainReq(r)
        BY <2>3, <2>5, <3>2 DEF Parser, PlainReq
      <3>5. Taken(r, w, a)
        BY <2>3, <2>7, <3>3, AskType DEF Taken
      <3> QED BY <3>4, <3>5
    <2> QED BY <2>6, <2>7
  <1> QED BY <1>2, <1>3

\* A read into a parser that waits.
LEMMA Parsing ==
    ASSUME Counted, NEW q \in Parser, PlainReq(q), NEW a \in {0} \cup DOMAIN Asks,
           NEW data \in Seq(Token), NEW w \in Seq(Token), data # <<>>, Waiting(q, data \o w, a),
           NEW r, r = ParseRequest(q, data)
    PROVE  /\ r \in Parser /\ PlainReq(r) /\ Outcome(r, w, a)
           /\ q.state = "HEADERS" \/ ~Bad(Stream(q, data \o w)) =>
                /\ r.state # "ERROR"
                /\ r.state = "HEADERS" \/ Taken(r, w, a) \/ ~Bad(Stream(r, w))
  <1> DEFINE p == [q EXCEPT !.buffer = @ \o data]
             l == ParseLine(p)
  <1>0. (q.buffer \o data) \o w = q.buffer \o (data \o w)
    <2>1. q.buffer \in Seq(Token)
      BY DEF Parser
    <2> QED BY <2>1, Joins
  <1>1. p \in Parser /\ PlainReq(p) /\ p.state = q.state /\ p.ask = q.ask /\ p.body = q.body
        /\ p.buffer = q.buffer \o data /\ p.buffer # <<>>
    <2>1. q.buffer \o data \in Seq(Token) /\ q.buffer \in Seq(Token)
      BY ConcatProperties DEF Parser
    <2>2. q.buffer \o data # <<>>
      <3>1. Len(q.buffer \o data) = Len(q.buffer) + Len(data)
        BY <2>1, ConcatProperties
      <3>2. Len(data) \in Nat \ {0} /\ Len(q.buffer) \in Nat
        BY <2>1, EmptySeq
      <3>3. Len(q.buffer \o data) # 0
        BY <3>1, <3>2
      <3> QED BY <2>1, <3>3, EmptySeq
    <2> QED BY <2>1, <2>2 DEF Parser, PlainReq
  <1>2. Stream(p, w) = Stream(q, data \o w)
    <2> HIDE DEF p
    <2> QED BY <1>0, <1>1 DEF Stream
  <1>3. Waiting(p, w, a)
    BY <1>1, <1>2 DEF Waiting
  <1>4. r = ParseBody(ParseHead(l))
    BY DEF ParseRequest
  <1> HIDE DEF p
  <1>5. Stream(p, w) # <<>>
    <2>1. p.buffer \in Seq(Token)
      BY <1>1 DEF Parser
    <2>2. Len(p.buffer \o w) = Len(p.buffer) + Len(w) /\ p.buffer \o w \in Seq(Token)
      BY <2>1, ConcatProperties
    <2>3. Len(p.buffer) \in Nat \ {0} /\ Len(w) \in Nat
      BY <1>1, <2>1, EmptySeq
    <2>4. Len(p.buffer \o w) # 0
      BY <2>2, <2>3
    <2> QED BY <2>2, <2>4, EmptySeq DEF Stream
  <1>6. CASE p.state = "HEADERS"
    <2>1. /\ a \in DOMAIN Asks /\ Asks[a].valid /\ p.ask = a /\ Stream(p, w) = HeadOn(a)
          /\ p.body = <<>>
      BY <1>3, <1>6 DEF Waiting
    <2>2. l = p
      BY <1>6 DEF ParseLine
    <2> HIDE DEF l
    <2>3. r \in Parser /\ PlainReq(r) /\ (Taken(r, w, a) \/ (Waiting(r, w, a) /\ r.state = "HEADERS"))
      BY <1>1, <1>4, <1>6, <2>1, <2>2, HeadOutcome
    <2>4. r.state # "ERROR"
      BY <2>3 DEF Taken
    <2> QED BY <2>3, <2>4 DEF Outcome
  <1>7. CASE p.state = "REQUEST_LINE" /\ a # 0 /\ Asks[a].valid /\ Stream(p, w) = Wire(a)
    <2>1. a \in DOMAIN Asks /\ p.body = <<>>
      BY <1>3, <1>7 DEF Waiting
    <2>2. l = IF Len(p.buffer) < 2 THEN p
              ELSE [p EXCEPT !.state = "HEADERS", !.buffer = Erase(p.buffer, 2), !.ask = a]
      BY <1>1, <1>7, <2>1, LineRead
    <2> HIDE DEF l
    <2>3. CASE Len(p.buffer) < 2
      <3>1. r = p
        BY <1>4, <1>7, <2>2, <2>3 DEF ParseHead, ParseBody
      <3>2. ~Bad(Stream(r, w))
        BY <1>7, <2>1, <3>1, BadStream
      <3> QED BY <1>1, <1>3, <1>7, <3>1, <3>2 DEF Outcome
    <2>4. CASE ~(Len(p.buffer) < 2)
      <3>1. l = [p EXCEPT !.state = "HEADERS", !.buffer = Erase(p.buffer, 2), !.ask = a]
        BY <2>2, <2>4
      <3>2. p.buffer \in Seq(Token) /\ 2 \in 0 .. Len(p.buffer)
        BY <1>1, <2>4 DEF Parser
      <3>3. Erase(p.buffer, 2) \in Seq(Token) /\ Erase(p.buffer, 2) \o w = HeadOn(a)
        <4>1. /\ Erase(p.buffer, 2) \in Seq(Token)
              /\ Erase(p.buffer, 2) \o w = Erase(p.buffer \o w, 2)
          BY <3>2, Cuts, EraseOfConcat
        <4> QED BY <1>7, <2>1, <4>1, WireIs DEF Stream
      <3>4. a \in 0 .. Len(Asks)
        BY <2>1, AskType, AsksAssumption
      <3>5. /\ l \in Parser /\ PlainReq(l) /\ l.state = "HEADERS" /\ l.body = <<>> /\ l.ask = a
            /\ l.buffer = Erase(p.buffer, 2)
        BY <1>1, <2>1, <3>1, <3>3, <3>4 DEF Parser, PlainReq
      <3>6. Stream(l, w) = HeadOn(a)
        BY <3>3, <3>5 DEF Stream
      <3>7. r \in Parser /\ PlainReq(r) /\ (Taken(r, w, a) \/ (Waiting(r, w, a) /\ r.state = "HEADERS"))
        BY <1>4, <1>7, <2>1, <3>5, <3>6, HeadOutcome
      <3>8. r.state # "ERROR"
        BY <3>7 DEF Taken
      <3> QED BY <3>7, <3>8 DEF Outcome
    <2> QED BY <2>3, <2>4
  <1>8. CASE p.state = "REQUEST_LINE" /\ Bad(Stream(p, w))
    <2>1. p.buffer \in Seq(Token)
      BY <1>1 DEF Parser
    <2>2. Bad(p.buffer)
      BY <1>1, <1>8, <2>1, BadStream DEF Stream
    <2>3. l = p \/ l = [p EXCEPT !.state = "ERROR"]
      BY <1>1, <1>8, <2>2, LineBad
    <2> HIDE DEF l
    <2>4. r = l
      <3>1. l.state \in {"REQUEST_LINE", "ERROR"}
        BY <1>1, <1>8, <2>3 DEF Parser
      <3> QED BY <1>4, <3>1 DEF ParseHead, ParseBody
    <2>5. l \in Parser /\ PlainReq(l) /\ Stream(l, w) = Stream(p, w)
      BY <1>1, <2>3 DEF Parser, PlainReq, Stream
    <2>6. Outcome(l, w, a)
      <3>1. CASE l = p
        BY <1>3, <3>1 DEF Outcome
      <3>2. CASE l = [p EXCEPT !.state = "ERROR"]
        <4>1. l.state = "ERROR"
          BY <1>1, <3>2 DEF Parser
        <4> QED BY <1>8, <2>5, <4>1 DEF Outcome
      <3> QED BY <2>3, <3>1, <3>2
    <2>7. ~(q.state = "HEADERS" \/ ~Bad(Stream(q, data \o w)))
      BY <1>1, <1>2, <1>8
    <2> QED BY <2>4, <2>5, <2>6, <2>7
  <1> QED BY <1>3, <1>5, <1>6, <1>7, <1>8 DEF Waiting

-----------------------------------------------------------------------------
(* The files.                                                              *)

Put(d, p, v) == [d EXCEPT ![p] = v]

LEMMA DiskIs ==
    ASSUME NEW d \in Seq(Seq(Token)), NEW p \in DOMAIN d
    PROVE  d[p] \in Seq(Token) /\ p \in Nat \ {0}
  OBVIOUS

LEMMA AppendIs ==
    ASSUME NEW d \in Seq(Seq(Token)), NEW v \in Seq(Token), NEW e, e = Append(d, v)
    PROVE  /\ e \in Seq(Seq(Token)) /\ Len(d) \in Nat
           /\ DOMAIN e = DOMAIN d \cup {Len(d) + 1} /\ Len(d) + 1 \notin DOMAIN d
           /\ e[Len(d) + 1] = v /\ \A f \in DOMAIN d : e[f] = d[f]
  OBVIOUS

\* The file being written may grow, go or become whole.
LEMMA Overwritten ==
    ASSUME NEW k, NEW l, NEW d \in Seq(Seq(Token)), NEW v \in Seq(Token), NEW K,
           k.upload_active, k.upload_path \in DOMAIN d, Files(k, d), Keeps(k, d, K),
           l.upload_active => l.up /\ l.upload_path = k.upload_path,
           \/ v = Removed \/ l.upload_active
           \/ \E i \in DOMAIN Asks : Asks[i].upload /\ v = Payload(i),
           NEW e, e = Put(d, k.upload_path, v)
    PROVE  Files(l, e) /\ Keeps(l, e, K)
  <1> DEFINE p == k.upload_path
  <1>0. p = k.upload_path
    OBVIOUS
  <1>1. /\ DOMAIN e = DOMAIN d /\ e[p] = v /\ p \in DOMAIN d
        /\ \A f \in DOMAIN d \ {p} : e[f] = d[f]
    BY DEF Put
  <1> HIDE DEF p
  <1>2. Files(l, e)
    <2> SUFFICES ASSUME NEW f \in DOMAIN e
                 PROVE  \/ e[f] = Removed
                        \/ \E i \in DOMAIN Asks : Asks[i].upload /\ e[f] = Payload(i)
                        \/ l.up /\ l.upload_active /\ l.upload_path = f
      BY DEF Files
    <2>1. CASE f = p
      BY <1>0, <1>1, <2>1
    <2>2. CASE f # p
      <3>1. e[f] = d[f] /\ f \in DOMAIN d
        BY <1>1, <2>2
      <3>2. d[f] = Removed \/ \E i \in DOMAIN Asks : Asks[i].upload /\ d[f] = Payload(i)
        BY <1>0, <2>2, <3>1 DEF Files
      <3> QED BY <3>1, <3>2
    <2> QED BY <2>1, <2>2
  <1>3. Keeps(l, e, K)
    BY <1>0, <1>1 DEF Keeps
  <1> QED BY <1>2, <1>3

\* A file is made when none is being written.
LEMMA Created ==
    ASSUME NEW k, NEW l, NEW d \in Seq(Seq(Token)), NEW v \in Seq(Token), NEW K,
           ~k.upload_active, Files(k, d), Keeps(k, d, K),
           l.upload_active => l.up /\ l.upload_path = Len(d) + 1,
           \/ v = Removed \/ l.upload_active
           \/ \E i \in DOMAIN Asks : Asks[i].upload /\ v = Payload(i),
           NEW e, e = Append(d, v)
    PROVE  Files(l, e) /\ Keeps(l, e, K)
  <1> DEFINE p == Len(d) + 1
  <1>1. /\ DOMAIN e = DOMAIN d \cup {p} /\ e[p] = v /\ p \notin DOMAIN d
        /\ \A f \in DOMAIN d : e[f] = d[f]
    BY AppendIs
  <1> HIDE DEF p
  <1>2. Files(l, e)
    BY <1>1 DEF Files, p
  <1>3. Keeps(l, e, K)
    BY <1>1 DEF Keeps, p
  <1> QED BY <1>2, <1>3

LEMMA RemovedIs == Removed \in Seq(Token) /\ \A x : <<>> \in Seq(x) /\ Len(<<>>) = 0
  BY Tokens DEF Removed

-----------------------------------------------------------------------------
(* What a read does.                                                       *)

Work == [conn: ClientCon, req: Parser, disk: Seq(Seq(Token)), ok: BOOLEAN,
         state: {"BODY", "COMPLETE", "ERROR"}, to_write: Nat]

Begin(k, q, d) == [conn |-> k, req |-> q, disk |-> d, ok |-> TRUE,
                   state |-> "BODY", to_write |-> 0]

Fine(o, w, a, K) ==
    /\ o.conn \in ClientCon /\ o.req \in Parser /\ o.disk \in Seq(Seq(Token))
    /\ o.conn.upload_bytes_remaining >= 0
    /\ Session(o.conn, o.req, o.disk, w, a)
    /\ Files(o.conn, o.disk) /\ Keeps(o.conn, o.disk, K)

HasFields(c) == DOMAIN c = {"conn", "req", "disk", "ok", "state", "to_write"}

Failing(k, status) == [k EXCEPT !.response_out = status, !.keep_alive = @ /\ k.servConf]

LEMMA FailingIs ==
    ASSUME NEW k \in ClientCon, NEW status \in Statuses, NEW l, l = Failing(k, status)
    PROVE  /\ l \in ClientCon /\ (PlainConn(k) => PlainConn(l)) /\ l.up = k.up
           /\ l.upload_active = k.upload_active /\ l.upload_file = k.upload_file
           /\ l.upload_path = k.upload_path
           /\ l.upload_bytes_remaining = k.upload_bytes_remaining /\ l.response_out = status
  BY DEF ClientCon, PlainConn, Failing

LEMMA Fallback ==
    ASSUME NEW c, HasFields(c), NEW status, NEW r, r = FallbackError(c, status)
    PROVE  /\ r.req = c.req /\ r.state = c.state /\ r.to_write = c.to_write /\ r.ok = FALSE
           /\ r.disk = c.disk
           /\ r.conn = Failing(c.conn, status)
  BY DEF FallbackError, HasFields, Failing

LEMMA FileOf ==
    ASSUME NEW k \in ClientCon
    PROVE  [[k EXCEPT !.upload_file.good = FALSE] EXCEPT !.upload_file.open = FALSE]
             = [k EXCEPT !.upload_file = [open |-> FALSE, good |-> FALSE]]
  <1> DEFINE f == k.upload_file
             g == [k EXCEPT !.upload_file.good = FALSE]
  <1>1. f \in [open: BOOLEAN, good: BOOLEAN]
    BY DEF ClientCon
  <1>2. \A x \in [open: BOOLEAN, good: BOOLEAN] :
          [[x EXCEPT !.good = FALSE] EXCEPT !.open = FALSE] = [open |-> FALSE, good |-> FALSE]
    <2> SUFFICES ASSUME NEW x \in [open: BOOLEAN, good: BOOLEAN]
                 PROVE  [[x EXCEPT !.good = FALSE] EXCEPT !.open = FALSE]
                          = [open |-> FALSE, good |-> FALSE]
      OBVIOUS
    <2> DEFINE y == [[x EXCEPT !.good = FALSE] EXCEPT !.open = FALSE]
    <2>1. y \in [open: BOOLEAN, good: BOOLEAN] /\ y.open = FALSE /\ y.good = FALSE
      OBVIOUS
    <2> HIDE DEF y
    <2>2. y = [open |-> FALSE, good |-> FALSE]
      BY <2>1
    <2> QED BY <2>2 DEF y
  <1>6. [[f EXCEPT !.good = FALSE] EXCEPT !.open = FALSE] = [open |-> FALSE, good |-> FALSE]
    BY <1>1, <1>2
  <1>3. g.upload_file = [f EXCEPT !.good = FALSE]
    BY DEF ClientCon
  <1> HIDE DEF f
  <1>4. [g EXCEPT !.upload_file = [open |-> FALSE, good |-> FALSE]]
          = [k EXCEPT !.upload_file = [open |-> FALSE, good |-> FALSE]]
    BY DEF ClientCon
  <1> HIDE DEF g
  <1>5. [g EXCEPT !.upload_file.open = FALSE]
          = [g EXCEPT !.upload_file = [open |-> FALSE, good |-> FALSE]]
    BY <1>3, <1>6
  <1> QED BY <1>4, <1>5 DEF g

Recount(k, n) == [k EXCEPT !.upload_bytes_remaining = n]

Accepted(r, o, data) ==
    /\ r.conn = Recount(o.conn, o.conn.upload_bytes_remaining - Len(data))
    /\ r.disk = Put(o.disk, o.conn.upload_path, o.disk[o.conn.upload_path] \o data)
    /\ r.req = o.req /\ r.state = o.state /\ r.to_write = o.to_write /\ r.ok = o.ok
    /\ r = [o EXCEPT !.conn = r.conn, !.disk = r.disk]

Refused(r, o) ==
    /\ r.conn = [o.conn EXCEPT !.upload_file = [open |-> FALSE, good |-> FALSE],
                               !.response_out = "500",
                               !.keep_alive = @ /\ o.conn.servConf]
    /\ r.disk = Put(o.disk, o.conn.upload_path, Removed)
    /\ r.req = o.req /\ r.state = o.state /\ r.to_write = o.to_write /\ r.ok = FALSE

\* write_body, when the disk takes the data and when it does not.
LEMMA Written ==
    ASSUME NEW o \in Work, NEW data \in Seq(Token), data # <<>>, NEW fails \in BOOLEAN,
           o.conn.upload_path \in DOMAIN o.disk, NEW r, r = WriteBody(o, data, fails)
    PROVE  /\ o.conn.upload_file = [open |-> TRUE, good |-> TRUE] /\ ~fails => Accepted(r, o, data)
           /\ o.conn.upload_file # [open |-> TRUE, good |-> TRUE] \/ fails => Refused(r, o)
  <1>1. ASSUME o.conn.upload_file = [open |-> TRUE, good |-> TRUE], ~fails
        PROVE  Accepted(r, o, data)
    <2>1. o.conn.upload_file.good /\ o.conn.upload_file.open
      BY <1>1
    <2> DEFINE d == Stored(o.disk, o.conn.upload_path, data)
               k == [o.conn EXCEPT !.upload_bytes_remaining = @ - Len(data)]
    <2>2. r = [o EXCEPT !.conn = k, !.disk = d]
      BY <1>1, <2>1 DEF WriteBody
    <2>3. d = [o.disk EXCEPT ![o.conn.upload_path] = @ \o data]
      BY DEF Stored
    <2> HIDE DEF d, k
    <2>4. /\ r.req = o.req /\ r.state = o.state /\ r.to_write = o.to_write
          /\ r.conn = k /\ r.disk = d /\ r.ok = o.ok
      BY <2>2 DEF Work
    <2>5. r = [o EXCEPT !.conn = r.conn, !.disk = r.disk]
      BY <2>2, <2>4
    <2>6. /\ r.conn = Recount(o.conn, o.conn.upload_bytes_remaining - Len(data))
          /\ r.disk = Put(o.disk, o.conn.upload_path, o.disk[o.conn.upload_path] \o data)
      BY <2>3, <2>4 DEF k, Recount, Put
    <2> QED BY <2>4, <2>5, <2>6 DEF Accepted
  <1>2. ASSUME o.conn.upload_file # [open |-> TRUE, good |-> TRUE] \/ fails
        PROVE  Refused(r, o)
    <2> DEFINE b == [o EXCEPT !.conn.upload_file.good = FALSE]
               c == Discard(b)
    <2>1. o.conn.upload_path # 0
      BY DiskIs DEF Work
    <2>2. r = FallbackError(c, "500")
      <3>1. o.conn.upload_file \in [open: BOOLEAN, good: BOOLEAN]
        BY DEF Work, ClientCon
      <3>2. ~(o.conn.upload_file.good /\ (data = <<>> \/ (o.conn.upload_file.open /\ ~fails)))
        BY <1>2, <3>1
      <3> QED BY <3>2, Zenon DEF WriteBody
    <2>3. /\ b.req = o.req /\ b.state = o.state /\ b.to_write = o.to_write /\ b.disk = o.disk
          /\ b.conn = [o.conn EXCEPT !.upload_file.good = FALSE] /\ b.ok = o.ok
          /\ b \in [conn: ClientCon, req: Parser, disk: Seq(Seq(Token)), ok: BOOLEAN,
                    state: {"BODY", "COMPLETE", "ERROR"}, to_write: Nat]
      BY DEF Work, ClientCon
    <2> HIDE DEF b
    <2>4. /\ c.req = o.req /\ c.state = o.state /\ c.to_write = o.to_write
          /\ c.conn = [b.conn EXCEPT !.upload_file.open = FALSE] /\ c.ok = o.ok
          /\ c.disk = [o.disk EXCEPT ![o.conn.upload_path] = Removed]
      <3>1. b.conn.upload_path = o.conn.upload_path
        BY <2>3 DEF Work, ClientCon
      <3> QED BY <2>1, <2>3, <3>1 DEF Discard
    <2>5. c.conn = [o.conn EXCEPT !.upload_file = [open |-> FALSE, good |-> FALSE]]
      <3>1. o.conn \in ClientCon
        BY DEF Work
      <3> QED BY <2>3, <2>4, <3>1, FileOf
    <2>6. DOMAIN c = {"conn", "req", "disk", "ok", "state", "to_write"}
      BY <2>3 DEF Discard
    <2> HIDE DEF c
    <2>7. /\ r.req = c.req /\ r.state = c.state /\ r.to_write = c.to_write /\ r.ok = FALSE
          /\ r.disk = c.disk
          /\ r.conn = [c.conn EXCEPT !.response_out = "500", !.keep_alive = @ /\ c.conn.servConf]
      BY <2>2, <2>6 DEF FallbackError
    <2>8. r.conn = [o.conn EXCEPT !.upload_file = [open |-> FALSE, good |-> FALSE],
                                  !.response_out = "500",
                                  !.keep_alive = @ /\ o.conn.servConf]
      BY <2>5, <2>7 DEF Work, ClientCon
    <2> QED BY <2>4, <2>7, <2>8 DEF Refused, Put
  <1> QED BY <1>1, <1>2

LEMMA NewConnType == NewConn \in ClientCon /\ PlainConn(NewConn)
  BY RemovedIs DEF NewConn, ClientCon, Statuses, PlainConn

\* uploadComplete, of a connection without chunks and parts.
LEMMA Completed ==
    ASSUME NEW o \in Work, PlainConn(o.conn), NEW r, r = UploadComplete(o)
    PROVE  /\ r.conn \in ClientCon /\ PlainConn(r.conn)
           /\ r.conn.up /\ ~r.conn.upload_active /\ r.conn.upload_bytes_remaining = 0
           /\ r.conn.response_out = "201" /\ r.conn.location = o.conn.upload_path
           /\ r.req = o.req /\ r.disk = o.disk /\ r.ok = o.ok /\ r.to_write = o.to_write
  <1> DEFINE k == [NewConn EXCEPT !.servConf = @ \/ o.conn.servConf,
                          !.keep_alive = o.conn.keep_alive, !.response_out = "201",
                          !.location = o.conn.upload_path,
                          !.multipart = o.conn.multipart,
                          !.upload_file = [o.conn.upload_file EXCEPT !.open = FALSE]]
             sc == NewConn.servConf \/ o.conn.servConf
             mp == o.conn.multipart
             ka == o.conn.keep_alive
             path == o.conn.upload_path
             file == [o.conn.upload_file EXCEPT !.open = FALSE]
  <1>1. r = [o EXCEPT !.conn = k]
    BY DEF UploadComplete
  <1>2. /\ o.conn.multipart = <<>> /\ ka \in BOOLEAN /\ mp \in Seq(Token)
        /\ path \in Nat /\ file \in [open: BOOLEAN, good: BOOLEAN] /\ sc \in BOOLEAN
    BY DEF Work, ClientCon, PlainConn
  <1>3. k \in ClientCon
    <2> HIDE DEF sc, ka, path, file, mp
    <2> DEFINE x == [NewConn EXCEPT !.servConf = sc, !.keep_alive = ka, !.response_out = "201",
                                    !.location = path, !.multipart = mp, !.upload_file = file]
    <2>1. x \in ClientCon
      BY <1>2, NewConnType DEF ClientCon, Statuses
    <2>2. k = x
      BY DEF sc, ka, path, file, mp
    <2> HIDE DEF x, k
    <2> QED BY <2>1, <2>2
  <1>4. PlainConn(k)
    BY <1>2 DEF NewConn, PlainConn
  <1>5. /\ k.up /\ ~k.upload_active /\ k.upload_bytes_remaining = 0
        /\ k.response_out = "201" /\ k.location = o.conn.upload_path
    BY DEF NewConn
  <1> HIDE DEF k
  <1>6. /\ r.conn = k /\ r.req = o.req /\ r.disk = o.disk /\ r.ok = o.ok
        /\ r.to_write = o.to_write
    BY <1>1 DEF Work
  <1> QED BY <1>3, <1>4, <1>5, <1>6

LEMMA NotNone == ASSUME NEW b \in Seq(Token), NEW w \in Seq(Token), b # <<>>
    PROVE  /\ Len(b \o w) = Len(b) + Len(w) /\ b \o w \in Seq(Token)
           /\ Len(b) \in Nat \ {0} /\ Len(w) \in Nat /\ Len(b \o w) \in Nat \ {0}
           /\ (Len(w) = 0 <=> w = <<>>)
  <1>1. Len(b) \in Nat \ {0} /\ Len(w) \in Nat
    BY EmptySeq
  <1>2. Len(b \o w) = Len(b) + Len(w) /\ b \o w \in Seq(Token)
    BY ConcatProperties
  <1> QED BY <1>1, <1>2, EmptySeq

\* A queued answer to a request of which w has not been read.
LEMMA QueuedNow ==
    ASSUME NEW k, NEW q, NEW d, NEW a \in DOMAIN Asks, NEW w \in Seq(Token),
           NEW b \in Seq(Token), b \o w = Payload(a), q.buffer = <<>>,
           k.response_out = "201" => /\ k.location \in DOMAIN d /\ d[k.location] = Payload(a)
                                     /\ Asks[a].upload
    PROVE  Queued(k, q, d, w, a) /\ Stream(q, w) = w
  <1>1. Stream(q, w) = w
    BY ConcatEmptySeq DEF Stream
  <1>2. w = <<>> \/ Bad(w)
    BY RestIsBad
  <1>3. a # 0
    BY AskType
  <1> QED BY <1>1, <1>2, <1>3 DEF Queued

\* A failed write: the upload is broken.
LEMMA WriteFailed ==
    ASSUME NEW o \in Work, NEW data \in Seq(Token), data # <<>>, NEW fails \in BOOLEAN,
           fails \/ o.conn.upload_file # [open |-> TRUE, good |-> TRUE],
           o.conn.upload_path \in DOMAIN o.disk, o.conn.up, o.conn.upload_active,
           o.conn.upload_bytes_remaining \in Nat \ {0},
           PlainConn(o.conn), PlainReq(o.req), NEW K, NEW w, NEW a,
           Files(o.conn, o.disk), Keeps(o.conn, o.disk, K), NEW r, r = WriteBody(o, data, fails)
    PROVE  Fine(r, w, a, K) /\ r.ok = FALSE
  <1> DEFINE k == o.conn  d == o.disk  p == k.upload_path  l == r.conn  e == r.disk
  <1>1. Refused(r, o)
    BY Written
  <1>2. k \in ClientCon /\ o.req \in Parser /\ d \in Seq(Seq(Token))
    BY DEF Work
  <1>3. /\ l = [k EXCEPT !.upload_file = [open |-> FALSE, good |-> FALSE],
                         !.response_out = "500", !.keep_alive = @ /\ k.servConf]
        /\ e = Put(d, p, Removed) /\ r.req = o.req /\ r.ok = FALSE
    BY <1>1 DEF Refused
  <1>4. /\ p \in DOMAIN d /\ k.up /\ k.upload_active /\ k.upload_bytes_remaining \in Nat \ {0}
        /\ Files(k, d) /\ Keeps(k, d, K) /\ PlainConn(k) /\ p = k.upload_path
    OBVIOUS
  <1> HIDE DEF k, d, p, l, e
  <1>5. /\ l \in ClientCon /\ PlainConn(l) /\ l.up /\ l.upload_active /\ l.upload_path = p
        /\ l.response_out = "500" /\ l.upload_file = [open |-> FALSE, good |-> FALSE]
        /\ l.upload_bytes_remaining \in Nat \ {0}
    BY <1>2, <1>3, <1>4 DEF ClientCon, Statuses, PlainConn
  <1>6. e \in Seq(Seq(Token)) /\ DOMAIN e = DOMAIN d /\ e[p] = Removed
    BY <1>2, <1>3, <1>4, RemovedIs DEF Put
  <1>7. Files(l, e) /\ Keeps(l, e, K)
    BY ZenonT(40), <1>2, <1>3, <1>4, <1>5, RemovedIs, Overwritten
  <1>8. Broken(l, e)
    BY <1>4, <1>5, <1>6 DEF Broken
  <1>9. Session(l, r.req, e, w, a)
    BY <1>3, <1>5, <1>8 DEF Session, InStep
  <1> QED BY <1>2, <1>3, <1>5, <1>6, <1>7, <1>9 DEF Fine, l, e

Recounted(l, k, n) ==
    /\ l \in ClientCon /\ (PlainConn(k) => PlainConn(l))
    /\ l.up = k.up /\ l.upload_active = k.upload_active /\ l.upload_path = k.upload_path
    /\ l.response_out = k.response_out /\ l.upload_file = k.upload_file
    /\ l.upload_bytes_remaining = n

LEMMA Counts ==
    ASSUME NEW k \in ClientCon, NEW n \in Int
    PROVE  Recounted(Recount(k, n), k, n)
  <1> DEFINE l == Recount(k, n)
  <1>1. l = [k EXCEPT !.upload_bytes_remaining = n]
    BY DEF Recount
  <1> HIDE DEF l
  <1>2. Recounted(l, k, n)
    BY <1>1 DEF ClientCon, PlainConn, Recounted
  <1> QED BY <1>2 DEF l

Advanced(k, l, q, e, w, a, K) ==
    /\ l \in ClientCon /\ PlainConn(l) /\ l.up /\ l.upload_active
    /\ l.upload_path = k.upload_path /\ l.upload_file = k.upload_file
    /\ l.response_out = "none" /\ l.upload_bytes_remaining = Len(w)
    /\ e \in Seq(Seq(Token)) /\ k.upload_path \in DOMAIN e
    /\ w # <<>> => Uploading(l, q, e, w, a) /\ Files(l, e) /\ Keeps(l, e, K)
    /\ w = <<>> => /\ e[k.upload_path] = Payload(a) /\ l.upload_bytes_remaining = 0
                   /\ \A m : ~m.upload_active => Files(m, e) /\ Keeps(m, e, K)

\* What the file and the count of an upload become when data is written.
LEMMA Grown ==
    ASSUME NEW k \in ClientCon, NEW q \in Parser, NEW d \in Seq(Seq(Token)), PlainConn(k),
           NEW data \in Seq(Token), data # <<>>, NEW w \in Seq(Token),
           NEW a \in {0} \cup DOMAIN Asks, NEW K, k.up, k.upload_active,
           Uploading(k, q, d, data \o w, a), Files(k, d), Keeps(k, d, K),
           NEW l, l = Recount(k, k.upload_bytes_remaining - Len(data)),
           NEW e, e = Put(d, k.upload_path, d[k.upload_path] \o data)
    PROVE  Advanced(k, l, q, e, w, a, K)
  <1> DEFINE p == k.upload_path  v == d[p] \o data
  <1>1. /\ k.upload_file = [open |-> TRUE, good |-> TRUE] /\ k.response_out = "none"
        /\ a # 0 /\ a \in DOMAIN Asks /\ Asks[a].upload /\ q.buffer = <<>>
        /\ p \in DOMAIN d /\ d[p] \o (data \o w) = Payload(a)
        /\ k.upload_bytes_remaining = Len(data \o w)
    BY DEF Uploading
  <1>2. d[p] \in Seq(Token)
    BY <1>1, DiskIs
  <1>3. /\ Len(data \o w) = Len(data) + Len(w) /\ Len(data) \in Nat \ {0} /\ Len(w) \in Nat
        /\ (Len(w) = 0 <=> w = <<>>)
    BY NotNone
  <1>4. v \in Seq(Token) /\ v \o w = Payload(a) /\ (w = <<>> => v = Payload(a))
    <2>1. v \in Seq(Token)
      BY <1>2, ConcatProperties
    <2>2. v \o w = d[p] \o (data \o w)
      BY <1>2, Joins
    <2> HIDE DEF v
    <2>3. v \o <<>> = v
      BY <2>1, ConcatEmptySeq
    <2> QED BY <1>1, <2>1, <2>2, <2>3
  <1>5. e = Put(d, p, v) /\ p = k.upload_path
    OBVIOUS
  <1>6. l = Recount(k, Len(w)) /\ Len(w) \in Int
    <2>1. k.upload_bytes_remaining - Len(data) = Len(w)
      BY <1>1, <1>3
    <2> QED BY <1>3, <2>1
  <1> HIDE DEF p, v
  <1>7. /\ l \in ClientCon /\ PlainConn(l) /\ l.up /\ l.upload_active
        /\ l.upload_path = p /\ l.upload_file = k.upload_file
        /\ l.response_out = "none" /\ l.upload_bytes_remaining = Len(w)
    <2>1. /\ l \in ClientCon /\ (PlainConn(k) => PlainConn(l))
          /\ l.up = k.up /\ l.upload_active = k.upload_active /\ l.upload_path = k.upload_path
          /\ l.response_out = k.response_out /\ l.upload_file = k.upload_file
          /\ l.upload_bytes_remaining = Len(w)
      BY <1>6 DEF Recount, ClientCon, PlainConn
    <2> QED BY <1>1, <1>5, <2>1
  <1>8. e \in Seq(Seq(Token)) /\ DOMAIN e = DOMAIN d /\ e[p] = v
    <2>1. DOMAIN e = DOMAIN d /\ e[p] = v
      BY <1>1, <1>5 DEF Put
    <2> QED BY <1>1, <1>4, <1>5, <2>1 DEF Put
  <1>9. Files(l, e) /\ Keeps(l, e, K)
    BY <1>1, <1>4, <1>5, <1>7, Overwritten
  <1>10. ASSUME w = <<>>, NEW m, ~m.upload_active PROVE Files(m, e) /\ Keeps(m, e, K)
    <2>1. \E i \in DOMAIN Asks : Asks[i].upload /\ v = Payload(i)
      BY <1>1, <1>4, <1>10
    <2> QED BY <1>1, <1>4, <1>5, <1>10, <2>1, Overwritten
  <1>11. w # <<>> => Uploading(l, q, e, w, a)
    BY <1>1, <1>4, <1>7, <1>8 DEF Uploading
  <1> QED BY <1>1, <1>3, <1>4, <1>5, <1>7, <1>8, <1>9, <1>10, <1>11 DEF Advanced

Runs(o, w, a, K) ==
    /\ o \in Work /\ o.state = "BODY" /\ o.ok /\ o.conn.up /\ o.conn.upload_active
    /\ PlainConn(o.conn) /\ PlainReq(o.req) /\ Uploading(o.conn, o.req, o.disk, w, a)
    /\ Files(o.conn, o.disk) /\ Keeps(o.conn, o.disk, K)

\* A write the disk takes, and the end of the upload if it was the last one.
LEMMA WriteTaken ==
    ASSUME NEW o, NEW data \in Seq(Token), data # <<>>, NEW w \in Seq(Token),
           NEW a \in {0} \cup DOMAIN Asks, NEW K, Runs(o, data \o w, a, K),
           NEW b, b = WriteBody(o, data, FALSE), NEW r, r = Ended(b)
    PROVE  Fine(r, w, a, K) /\ r.to_write = o.to_write
  <1> DEFINE k == o.conn  d == o.disk  q == o.req  l == b.conn  e == b.disk
  <1>0. o \in Work /\ o.state = "BODY" /\ o.ok
    BY DEF Runs
  <1>1. k \in ClientCon /\ q \in Parser /\ d \in Seq(Seq(Token))
    BY <1>0 DEF Work
  <1>2. /\ k.up /\ k.upload_active /\ Files(k, d) /\ Keeps(k, d, K) /\ PlainConn(k)
        /\ Uploading(k, q, d, data \o w, a) /\ PlainReq(q)
    BY DEF Runs
  <1>3. k.upload_file = [open |-> TRUE, good |-> TRUE] /\ k.upload_path \in DOMAIN d
    BY <1>2 DEF Uploading
  <1>4. Accepted(b, o, data)
    BY <1>0, <1>3, Written
  <1>5. /\ l = Recount(k, k.upload_bytes_remaining - Len(data))
        /\ e = Put(d, k.upload_path, d[k.upload_path] \o data)
        /\ b.req = q /\ b.state = "BODY" /\ b.ok = TRUE /\ b.to_write = o.to_write
    BY <1>0, <1>4 DEF Accepted, Work
  <1>6. b = [o EXCEPT !.conn = l, !.disk = e]
    BY <1>4 DEF Accepted
  <1> HIDE DEF k, d, q, l, e
  <1>7. Advanced(k, l, q, e, w, a, K)
    BY <1>1, <1>2, <1>5, Grown
  <1>8. /\ r = Ended(b) /\ b.conn = l /\ b.disk = e
    BY DEF l, e
  <1>9. Len(w) \in Nat /\ (Len(w) = 0 <=> w = <<>>) /\ a \in DOMAIN Asks /\ Asks[a].upload
        /\ q.buffer = <<>>
    BY <1>2, EmptySeq DEF Uploading
  <1>10. CASE w # <<>>
    <2>1. r = b
      <3>1. l.upload_bytes_remaining # 0 /\ l.multipart_state = "MP_BOUNDARY"
        BY <1>7, <1>9, <1>10 DEF Advanced, PlainConn
      <3>2. ~UploadEnds(b)
        BY <1>5, <1>8, <3>1 DEF UploadEnds
      <3> QED BY <1>8, <3>2 DEF Ended
    <2>2. Session(l, q, e, w, a)
      BY <1>2, <1>7, <1>10 DEF Session, InStep, Advanced
    <2>3. /\ l \in ClientCon /\ e \in Seq(Seq(Token)) /\ l.upload_bytes_remaining >= 0
          /\ Files(l, e) /\ Keeps(l, e, K)
      BY <1>7, <1>9, <1>10 DEF Advanced
    <2>4. r.conn = l /\ r.disk = e /\ r.req = q /\ r.to_write = o.to_write
      BY <1>5, <1>8, <2>1
    <2> QED BY <1>1, <2>2, <2>3, <2>4 DEF Fine
  <1>11. CASE w = <<>>
    <2>1. r = UploadComplete(b)
      <3>1. UploadEnds(b)
        BY <1>5, <1>7, <1>8, <1>11 DEF UploadEnds, Advanced
      <3> QED BY <1>8, <3>1 DEF Ended
    <2>2. /\ r.conn \in ClientCon /\ PlainConn(r.conn)
          /\ r.conn.up /\ ~r.conn.upload_active /\ r.conn.upload_bytes_remaining = 0
          /\ r.conn.response_out = "201" /\ r.conn.location = k.upload_path
          /\ r.req = q /\ r.disk = e /\ r.to_write = o.to_write
      <3>1. b \in Work /\ PlainConn(b.conn) /\ b.conn.upload_path = k.upload_path
        <4>1. l \in ClientCon /\ e \in Seq(Seq(Token)) /\ PlainConn(l) /\ l.upload_path = k.upload_path
          BY <1>7 DEF Advanced
        <4>2. b \in Work
          BY <1>0, <1>6, <4>1 DEF Work
        <4> QED BY <1>8, <4>1, <4>2
      <3> QED BY <1>5, <1>8, <2>1, <3>1, Completed
    <2>3. Files(r.conn, e) /\ Keeps(r.conn, e, K)
      BY <1>7, <1>11, <2>2 DEF Advanced
    <2>4. e[k.upload_path] = Payload(a) /\ k.upload_path \in DOMAIN e
      BY <1>7, <1>11 DEF Advanced
    <2>5. Stream(q, w) = <<>> /\ Queued(r.conn, q, e, w, a)
      <3>1. Stream(q, w) = <<>>
        BY <1>9, <1>11, RemovedIs, ConcatEmptySeq DEF Stream
      <3> QED BY <1>9, <2>2, <2>4, <3>1, AskType DEF Queued
    <2>6. Fit => InStep(r.conn, q, w, a)
      <3>1. ~Bad(Stream(q, w))
        BY <2>5 DEF Bad
      <3>2. Fit => Merit(a) = "201"
        BY <1>9 DEF Fit, Merit
      <3> QED BY <1>9, <2>2, <3>1, <3>2, AskType DEF InStep
    <2>7. Session(r.conn, q, e, w, a)
      BY <1>2, <2>2, <2>5, <2>6 DEF Session
    <2>8. e \in Seq(Seq(Token)) /\ r.conn.upload_bytes_remaining >= 0
      <3>1. e \in Seq(Seq(Token))
        BY <1>7 DEF Advanced
      <3>2. r.conn.upload_bytes_remaining = 0
        BY <2>2, Zenon
      <3> QED BY <3>1, <3>2, ZeroIs, Zenon
    <2> QED BY <1>1, <2>2, <2>3, <2>7, <2>8 DEF Fine
  <1> QED BY <1>10, <1>11

\* What processBody makes of data: n bytes of it are written.
Hands(o, data, fails, n) ==
    /\ n = IF Len(data) < o.conn.upload_bytes_remaining THEN Len(data)
           ELSE o.conn.upload_bytes_remaining
    /\ SubSeq(data, 1, n) \in Seq(Token) /\ SubSeq(data, 1, n) # <<>>
    /\ n = Len(data) => SubSeq(data, 1, n) = data
    /\ ProcessBody(o, data, fails)
         = WriteBody([o EXCEPT !.to_write = n], SubSeq(data, 1, n), fails)

\* processBody, when nothing is chunked or in parts.
LEMMA Processes ==
    ASSUME NEW o \in Work, PlainConn(o.conn), NEW data \in Seq(Token), data # <<>>,
           o.conn.upload_bytes_remaining \in Nat \ {0}, NEW fails \in BOOLEAN
    PROVE  \E n \in 1 .. Len(data) : Hands(o, data, fails, n)
  <1> DEFINE n == IF Len(data) < o.conn.upload_bytes_remaining THEN Len(data)
                  ELSE o.conn.upload_bytes_remaining
             s == SubSeq(data, 1, n)  p == [o EXCEPT !.to_write = n]
  <1>1. Len(data) \in Nat \ {0}
    BY EmptySeq
  <1>2. n \in 1 .. Len(data) /\ n \in 0 .. Len(data)
    BY <1>1
  <1>3. ~o.conn.chunked /\ ~p.conn.MPFlag
    BY DEF PlainConn, Work
  <1>4. ProcessBody(o, data, fails) = Store(p, s, fails)
    <2> HIDE DEF p, s, n
    <2> QED BY <1>3 DEF ProcessBody, p, s, n
  <1>5. Store(p, s, fails) = WriteBody(p, s, fails)
    <2> HIDE DEF p, s, n
    <2> QED BY <1>3 DEF Store
  <1> HIDE DEF n
  <1>6. s \in Seq(Token) /\ Len(s) = n /\ (n = Len(data) => s = data)
    BY <1>2, Cuts
  <1>7. s # <<>>
    <2> HIDE DEF s
    <2> QED BY <1>2, <1>6, EmptySeq
  <1>8. n = IF Len(data) < o.conn.upload_bytes_remaining THEN Len(data)
            ELSE o.conn.upload_bytes_remaining
    BY DEF n
  <1>9. Hands(o, data, fails, n)
    BY <1>4, <1>5, <1>6, <1>7, <1>8 DEF Hands
  <1> QED BY <1>2, <1>9

\* A read while an upload is active.
LEMMA UploadGoesOn ==
    ASSUME NEW k \in ClientCon, NEW q \in Parser, NEW d \in Seq(Seq(Token)),
           NEW data \in Seq(Token), data # <<>>, NEW w \in Seq(Token),
           NEW a \in {0} \cup DOMAIN Asks, NEW K, NEW fails \in BOOLEAN,
           k.up, k.upload_active, Session(k, q, d, data \o w, a), Files(k, d), Keeps(k, d, K),
           NEW r, r = Beyond(Ended(ProcessBody(Begin(k, q, d), data, fails)), data, fails)
    PROVE  Fine(r, w, a, K)
  <1> DEFINE o == Begin(k, q, d)
  <1>1. /\ o \in Work /\ o.conn = k /\ o.req = q /\ o.disk = d /\ o.ok = TRUE /\ o.state = "BODY"
    BY DEF Begin, Work
  <1>2. PlainConn(k) /\ PlainReq(q) /\ (Uploading(k, q, d, data \o w, a) \/ Broken(k, d))
    BY DEF Session
  <1>3. k.upload_path \in DOMAIN d /\ k.upload_bytes_remaining \in Nat \ {0}
    <2>1. Len(data \o w) \in Nat \ {0}
      BY NotNone
    <2> QED BY <1>2, <2>1 DEF Uploading, Broken
  <1> HIDE DEF o
  <1>9. PICK n \in 1 .. Len(data) : Hands(o, data, fails, n)
    <2>1. PlainConn(o.conn) /\ o.conn.upload_bytes_remaining \in Nat \ {0}
      BY <1>1, <1>2, <1>3
    <2> QED BY <1>1, <2>1, Processes
  <1>4. /\ n = IF Len(data) < k.upload_bytes_remaining THEN Len(data)
               ELSE k.upload_bytes_remaining
        /\ SubSeq(data, 1, n) \in Seq(Token) /\ SubSeq(data, 1, n) # <<>>
        /\ n = Len(data) => SubSeq(data, 1, n) = data
        /\ ProcessBody(o, data, fails)
             = WriteBody([o EXCEPT !.to_write = n], SubSeq(data, 1, n), fails)
        /\ n \in Nat
    BY <1>1, <1>9 DEF Hands
  <1> DEFINE p == [o EXCEPT !.to_write = n]  s == SubSeq(data, 1, n)  b == WriteBody(p, s, fails)
  <1>5. /\ p \in Work /\ p.conn = k /\ p.req = q /\ p.disk = d /\ p.ok = TRUE /\ p.state = "BODY"
        /\ p.to_write = n
    BY <1>1, <1>4 DEF Work
  <1>6. s \in Seq(Token) /\ s # <<>> /\ r = Beyond(Ended(b), data, fails)
    BY <1>4 DEF o
  <1> HIDE DEF p, s, b
  <1>7. CASE fails \/ Broken(k, d)
    <2>1. fails \/ k.upload_file # [open |-> TRUE, good |-> TRUE]
      BY <1>7 DEF Broken
    <2>2. Fine(b, w, a, K) /\ b.ok = FALSE
      <3>1. b = WriteBody(p, s, fails)
        BY DEF b
      <3> QED BY <1>2, <1>3, <1>5, <1>6, <2>1, <3>1, WriteFailed
    <2>3. Ended(b) = b
      BY <2>2 DEF Ended, UploadEnds
    <2>4. r = b
      BY <1>6, <2>2, <2>3 DEF Beyond
    <2> QED BY <2>2, <2>4
  <1>8. CASE ~fails /\ Uploading(k, q, d, data \o w, a)
    <2>1. n = Len(data)
      <3>1. k.upload_bytes_remaining = Len(data) + Len(w)
        BY <1>8, NotNone DEF Uploading
      <3>2. Len(data) \in Nat /\ Len(w) \in Nat
        OBVIOUS
      <3> QED BY <1>4, <3>1, <3>2
    <2>2. s = data
      BY <1>4, <2>1 DEF s
    <2>3. b = WriteBody(p, data, FALSE)
      BY <1>8, <2>2 DEF b
    <2>4. Fine(Ended(b), w, a, K) /\ Ended(b).to_write = n
      <3>1. Runs(p, data \o w, a, K)
        BY <1>2, <1>5, <1>8 DEF Runs
      <3>2. Fine(Ended(b), w, a, K) /\ Ended(b).to_write = p.to_write
        BY <2>3, <3>1, WriteTaken
      <3> QED BY <1>5, <3>2
    <2>5. r = Ended(b)
      <3>1. Len(data) <= Ended(b).to_write
        BY <2>1, <2>4
      <3> QED BY <1>6, <3>1 DEF Beyond
    <2> QED BY <2>4, <2>5
  <1> QED BY <1>2, <1>7, <1>8

-----------------------------------------------------------------------------
(* What a request does.                                                    *)

\* An answer to request a, of which w has not been read, is queued.
Answering(o, w, a, K) ==
    /\ o.conn \in ClientCon /\ PlainConn(o.conn) /\ o.conn.up /\ ~o.conn.upload_active
    /\ o.conn.upload_bytes_remaining >= 0 /\ o.conn.response_out # "none"
    /\ o.req \in Parser /\ PlainReq(o.req) /\ o.req.buffer = <<>>
    /\ o.disk \in Seq(Seq(Token)) /\ Files(o.conn, o.disk) /\ Keeps(o.conn, o.disk, K)
    /\ w = <<>> \/ Bad(w)
    /\ o.conn.response_out = "201" => /\ o.conn.location \in DOMAIN o.disk
                                      /\ o.disk[o.conn.location] = Payload(a) /\ Asks[a].upload
    /\ Fit /\ o.conn.upload_file.good => w = <<>> /\ o.conn.response_out = Merit(a)

\* Its body goes into a file.
Carrying(o, w, a, K) ==
    /\ o.conn \in ClientCon /\ PlainConn(o.conn) /\ o.conn.up /\ o.conn.upload_active
    /\ o.conn.upload_bytes_remaining >= 0
    /\ o.req \in Parser /\ PlainReq(o.req) /\ Uploading(o.conn, o.req, o.disk, w, a)
    /\ o.disk \in Seq(Seq(Token)) /\ Files(o.conn, o.disk) /\ Keeps(o.conn, o.disk, K)

LEMMA AnsweringIsFine ==
    ASSUME NEW o, NEW w \in Seq(Token), NEW a \in DOMAIN Asks, NEW K
    PROVE  (Answering(o, w, a, K) => Fine(o, w, a, K)) /\ (Carrying(o, w, a, K) => Fine(o, w, a, K))
  <1>1. ASSUME Answering(o, w, a, K) PROVE Fine(o, w, a, K)
    <2>1. Stream(o.req, w) = w
      BY <1>1, ConcatEmptySeq DEF Answering, Stream
    <2>2. a # 0
      BY AskType
    <2>3. Queued(o.conn, o.req, o.disk, w, a)
      BY <1>1, <2>1, <2>2 DEF Answering, Queued
    <2>4. Fit => InStep(o.conn, o.req, w, a)
      <3>1. w = <<>> => ~Bad(w)
        BY DEF Bad
      <3> QED BY <1>1, <2>1, <2>2, <3>1 DEF Answering, InStep
    <2>5. Session(o.conn, o.req, o.disk, w, a)
      BY <1>1, <2>3, <2>4 DEF Answering, Session
    <2> QED BY <1>1, <2>5 DEF Answering, Fine
  <1>2. ASSUME Carrying(o, w, a, K) PROVE Fine(o, w, a, K)
    <2>1. Session(o.conn, o.req, o.disk, w, a)
      BY <1>2 DEF Carrying, Session, InStep
    <2> QED BY <1>2, <2>1 DEF Carrying, Fine
  <1> QED BY <1>1, <1>2

LEMMA ClearIs ==
    ASSUME NEW q \in Parser, PlainReq(q), NEW r, r = Clear(q)
    PROVE  r \in Parser /\ PlainReq(r) /\ r.buffer = q.buffer /\ r.state = "REQUEST_LINE"
           /\ r.body = <<>>
  <1>1. Len(Asks) \in Nat /\ 0 \in 0 .. Len(Asks)
    BY AsksAssumption
  <1>2. /\ q.buffer \in Seq(Token) /\ q.mp_type \in BOOLEAN /\ q.MPFlag \in BOOLEAN
        /\ ~q.mp_type /\ ~q.MPFlag /\ <<>> \in Seq(Token)
    BY RemovedIs DEF Parser, PlainReq
  <1>3. r = [state |-> "REQUEST_LINE", buffer |-> q.buffer, ask |-> 0, body |-> <<>>,
             content_length |-> 0, chunked |-> FALSE, mp_type |-> q.mp_type, MPFlag |-> q.MPFlag]
    BY DEF Clear, NewParser
  <1> QED BY <1>1, <1>2, <1>3 DEF Parser, PlainReq

\* A connection that waits, and the disk.
Idle(k, d, K) ==
    /\ k \in ClientCon /\ d \in Seq(Seq(Token)) /\ PlainConn(k)
    /\ k.up /\ ~k.upload_active /\ k.response_out = "none" /\ k.upload_bytes_remaining >= 0
    /\ Files(k, d) /\ Keeps(k, d, K)

\* The file of request a is open and holds b; w is still to come.
Started(t, b, d, w, a, K) ==
    /\ t \in Work /\ t.conn.up /\ ~t.conn.upload_active /\ PlainConn(t.conn)
    /\ t.conn.response_out = "none" /\ t.conn.upload_file = [open |-> TRUE, good |-> TRUE]
    /\ t.conn.upload_path = Len(d) + 1 /\ t.conn.upload_bytes_remaining = Len(w)
    /\ PlainReq(t.req) /\ t.req.buffer = <<>> /\ t.state = "BODY" /\ t.ok
    /\ b \in Seq(Token) /\ b \o w = Payload(a) /\ t.disk = Append(d, b)

\* The end of startUpload.
LEMMA UploadStarts ==
    ASSUME NEW t, NEW b, NEW k, NEW d, NEW w \in Seq(Token), NEW a \in DOMAIN Asks, NEW K,
           Idle(k, d, K), Started(t, b, d, w, a, K), Asks[a].upload,
           NEW r, r = IF Len(w) = 0 THEN UploadComplete(t)
                      ELSE [t EXCEPT !.conn.upload_active = TRUE]
    PROVE  (Answering(r, w, a, K) \/ Carrying(r, w, a, K)) /\ HasFields(r)
  <1> DEFINE e == t.disk  l == t.conn
  <1>1. /\ t \in Work /\ PlainConn(t.conn) /\ l \in ClientCon /\ t.req \in Parser
        /\ e \in Seq(Seq(Token)) /\ l.upload_path = Len(d) + 1
        /\ PlainReq(t.req) /\ t.req.buffer = <<>> /\ b \in Seq(Token) /\ b \o w = Payload(a)
        /\ e = Append(d, b)
    BY DEF Started, Work
  <1>2. /\ d \in Seq(Seq(Token)) /\ ~k.upload_active /\ Files(k, d) /\ Keeps(k, d, K)
    BY DEF Idle
  <1>3. Len(d) + 1 \in DOMAIN e /\ e[Len(d) + 1] = b
    BY <1>1, <1>2, AppendIs
  <1>4. Len(w) \in Nat /\ (Len(w) = 0 <=> w = <<>>) /\ (w = <<>> => b = Payload(a))
    <2>1. b \o <<>> = b
      BY <1>1, ConcatEmptySeq
    <2>2. Len(w) \in Nat /\ (Len(w) = 0 <=> w = <<>>)
      BY EmptySeq
    <2> QED BY <1>1, <2>1, <2>2
  <1>7. HasFields(r)
    <2>1. HasFields(t)
      BY <1>1 DEF Work, HasFields
    <2> QED BY <2>1 DEF HasFields, UploadComplete
  <1> HIDE DEF e, l
  <1>5. CASE w = <<>>
    <2>1. r = UploadComplete(t)
      BY <1>4, <1>5
    <2>2. /\ r.conn \in ClientCon /\ PlainConn(r.conn)
          /\ r.conn.up /\ ~r.conn.upload_active /\ r.conn.upload_bytes_remaining = 0
          /\ r.conn.response_out = "201" /\ r.conn.location = t.conn.upload_path
          /\ r.req = t.req /\ r.disk = t.disk
      BY <1>1, <2>1, Completed
    <2>3. r.disk = e /\ r.conn.location = Len(d) + 1
      BY <1>1, <2>2 DEF e, l
    <2>4. Files(r.conn, e) /\ Keeps(r.conn, e, K)
      BY <1>1, <1>2, <1>4, <1>5, <2>2, Created
    <2>5. Merit(a) = "201" \/ ~Fit
      BY DEF Merit, Fit
    <2>6. r.conn.upload_bytes_remaining >= 0
      BY <2>2, ZeroIs, Zenon
    <2> QED BY <1>7, <1>1, <1>3, <1>4, <1>5, <2>2, <2>3, <2>4, <2>5, <2>6 DEF Answering
  <1>6. CASE w # <<>>
    <2>1. r = [t EXCEPT !.conn.upload_active = TRUE]
      BY <1>4, <1>6
    <2>2. r.conn = [l EXCEPT !.upload_active = TRUE] /\ r.disk = e /\ r.req = t.req
      BY <1>1, <2>1 DEF Work, l, e
    <2>3. /\ l.up /\ PlainConn(l) /\ l.response_out = "none"
          /\ l.upload_file = [open |-> TRUE, good |-> TRUE] /\ l.upload_bytes_remaining = Len(w)
      BY DEF Started, l
    <2> DEFINE m == r.conn
    <2>4. m = [l EXCEPT !.upload_active = TRUE]
      BY <2>2
    <2> HIDE DEF m
    <2>5. /\ m \in ClientCon /\ PlainConn(m) /\ m.up /\ m.upload_active
          /\ m.upload_path = Len(d) + 1 /\ m.response_out = "none"
          /\ m.upload_file = [open |-> TRUE, good |-> TRUE] /\ m.upload_bytes_remaining = Len(w)
      BY <1>1, <2>3, <2>4 DEF ClientCon, PlainConn
    <2>6. Files(m, e) /\ Keeps(m, e, K)
      BY <1>1, <1>2, <2>5, Created
    <2>7. Uploading(m, t.req, e, w, a)
      BY <1>1, <1>3, <1>6, <2>5, AskType DEF Uploading
    <2>8. r.conn = m /\ r.disk = e /\ r.req = t.req
      BY <2>2 DEF m
    <2>9. m.upload_bytes_remaining >= 0
      BY <1>4, <2>5
    <2>10. e \in Seq(Seq(Token)) /\ PlainReq(t.req) /\ t.req \in Parser
      BY <1>1
    <2> QED BY <1>7, <2>5, <2>6, <2>7, <2>8, <2>9, <2>10 DEF Carrying
  <1> QED BY <1>5, <1>6

\* openUploadFile, when the disk refuses and when it does not.
Unopened(r, k, q, d) ==
    /\ r.conn \in ClientCon /\ PlainConn(r.conn) /\ r.conn.up = k.up
    /\ r.conn.upload_active = k.upload_active /\ r.conn.response_out = "500"
    /\ r.conn.upload_bytes_remaining = k.upload_bytes_remaining
    /\ ~r.conn.upload_file.good /\ r.req = q /\ r.disk = d /\ r.ok = FALSE /\ HasFields(r)

LEMMA NotOpened ==
    ASSUME NEW k \in ClientCon, PlainConn(k), NEW q, NEW d, NEW fails, fails = TRUE
    PROVE  Unopened(OpenUploadFile(Begin(k, q, d), fails), k, q, d)
  <1> DEFINE r == OpenUploadFile(Begin(k, q, d), fails)
             o == Begin(k, q, d)
             x == [o EXCEPT !.conn.upload_path = 0, !.conn.upload_file.good = FALSE]
             l == x.conn
  <1>1. r = FallbackError(x, "500")
    BY DEF OpenUploadFile
  <1>2. /\ HasFields(x) /\ x.req = q /\ x.disk = d
        /\ l = [[k EXCEPT !.upload_path = 0] EXCEPT !.upload_file.good = FALSE]
    <2> DEFINE y == [o EXCEPT !.conn.upload_path = 0]
    <2>1. HasFields(o) /\ o.conn = k /\ o.req = q /\ o.disk = d
      BY DEF Begin, HasFields
    <2> HIDE DEF o
    <2>2. /\ HasFields(y) /\ y.req = q /\ y.disk = d
          /\ y.conn = [k EXCEPT !.upload_path = 0]
      BY <2>1 DEF HasFields
    <2>3. x = [y EXCEPT !.conn.upload_file.good = FALSE]
      OBVIOUS
    <2> HIDE DEF y, x
    <2> QED BY <2>2, <2>3 DEF HasFields
  <1> HIDE DEF x, l, r
  <1>3. /\ l \in ClientCon /\ PlainConn(l) /\ l.up = k.up /\ l.upload_active = k.upload_active
        /\ l.upload_bytes_remaining = k.upload_bytes_remaining /\ ~l.upload_file.good
    <2> DEFINE f == [k.upload_file EXCEPT !.good = FALSE]
    <2>1. k.upload_file \in [open: BOOLEAN, good: BOOLEAN]
      BY DEF ClientCon
    <2>2. f \in [open: BOOLEAN, good: BOOLEAN] /\ ~f.good
      <3> DEFINE g == k.upload_file
      <3> HIDE DEF g
      <3>1. g \in [open: BOOLEAN, good: BOOLEAN] /\ f = [g EXCEPT !.good = FALSE]
        BY <2>1 DEF g
      <3> QED BY <3>1
    <2>3. l = [k EXCEPT !.upload_path = 0, !.upload_file = f]
      BY <1>2
    <2> HIDE DEF f
    <2> QED BY <2>2, <2>3 DEF ClientCon, PlainConn
  <1>4. r.conn = Failing(l, "500") /\ r.req = q /\ r.disk = d /\ r.ok = FALSE
    <2>1. x.conn = l
      BY DEF l
    <2>2. r.conn = Failing(x.conn, "500") /\ r.req = x.req /\ r.disk = x.disk /\ r.ok = FALSE
      BY <1>1, <1>2 DEF FallbackError, HasFields, Failing
    <2> QED BY <1>2, <2>1, <2>2
  <1>5. "500" \in Statuses
    BY DEF Statuses
  <1> DEFINE m == r.conn
  <1>6. m = Failing(l, "500")
    BY <1>4
  <1> HIDE DEF m
  <1>7. /\ m \in ClientCon /\ (PlainConn(l) => PlainConn(m)) /\ m.up = l.up
        /\ m.upload_active = l.upload_active /\ m.upload_file = l.upload_file
        /\ m.upload_bytes_remaining = l.upload_bytes_remaining /\ m.response_out = "500"
    BY <1>3, <1>5, <1>6, FailingIs
  <1>8. HasFields(r)
    BY <1>1, <1>2 DEF FallbackError, HasFields
  <1>9. Unopened(r, k, q, d)
    BY <1>3, <1>4, <1>7, <1>8 DEF m, Unopened
  <1> QED BY <1>9 DEF r

OpenConn(k, f) == [k EXCEPT !.upload_path = f, !.upload_file = [open |-> TRUE, good |-> TRUE]]

Opens(l, k, f) ==
    /\ l \in ClientCon /\ PlainConn(l) /\ l.up = k.up
    /\ l.upload_active = k.upload_active /\ l.response_out = k.response_out
    /\ l.upload_file = [open |-> TRUE, good |-> TRUE] /\ l.upload_path = f

LEMMA Opened ==
    ASSUME NEW k \in ClientCon, PlainConn(k), NEW q, NEW d \in Seq(Seq(Token)),
           NEW fails, fails = FALSE
    PROVE  /\ OpenUploadFile(Begin(k, q, d), fails)
                = Begin(OpenConn(k, Len(d) + 1), q, Append(d, <<>>))
           /\ Opens(OpenConn(k, Len(d) + 1), k, Len(d) + 1)
  <1> DEFINE n == Len(d) + 1  l == OpenConn(k, n)
  <1>1. n \in Nat
    OBVIOUS
  <1>2. OpenUploadFile(Begin(k, q, d), fails)
          = Begin(OpenConn(k, Len(d) + 1), q, Append(d, <<>>))
    BY DEF OpenUploadFile, Begin, OpenConn
  <1>4. l = OpenConn(k, n)
    OBVIOUS
  <1> HIDE DEF l, n
  <1>3. Opens(l, k, n)
    BY <1>1, <1>4 DEF OpenConn, ClientCon, PlainConn, Opens
  <1> QED BY <1>2, <1>3 DEF l, n

LEMMA PutLast ==
    ASSUME NEW d \in Seq(Seq(Token)), NEW b \in Seq(Token), NEW e, e = Append(d, <<>>)
    PROVE  /\ e \in Seq(Seq(Token)) /\ Len(d) + 1 \in DOMAIN e /\ e[Len(d) + 1] = <<>>
           /\ Put(e, Len(d) + 1, e[Len(d) + 1] \o b) = Append(d, b)
  <1>1. e \in Seq(Seq(Token)) /\ Len(d) + 1 \in DOMAIN e /\ e[Len(d) + 1] = <<>>
    BY RemovedIs, AppendIs
  <1>2. <<>> \o b = b
    BY ConcatEmptySeq
  <1>3. Put(e, Len(d) + 1, b) = Append(d, b)
    <2> DEFINE x == Put(e, Len(d) + 1, b)  y == Append(d, b)
    <2>1. /\ x \in Seq(Seq(Token)) /\ Len(x) = Len(e)
          /\ x[Len(d) + 1] = b /\ \A f \in DOMAIN e \ {Len(d) + 1} : x[f] = e[f]
      <3> DEFINE j == Len(d) + 1  z == Seq(Token)
      <3>1. j \in DOMAIN e /\ e \in Seq(z) /\ b \in z /\ x = [e EXCEPT ![j] = b]
        BY <1>1 DEF Put
      <3> HIDE DEF j, z, x
      <3>2. x \in Seq(z) /\ Len(x) = Len(e) /\ x[j] = b /\ \A f \in DOMAIN e \ {j} : x[f] = e[f]
        <4>1. x \in Seq(z) /\ DOMAIN x = DOMAIN e
          BY <3>1
        <4>2. x[j] = b /\ \A f \in DOMAIN e \ {j} : x[f] = e[f]
          BY <3>1
        <4>3. DOMAIN x = 1 .. Len(x) /\ DOMAIN e = 1 .. Len(e) /\ Len(x) \in Nat /\ Len(e) \in Nat
          BY <3>1, <4>1
        <4>4. Len(x) = Len(e)
          BY <4>1, <4>3
        <4> QED BY <4>1, <4>2, <4>4
      <3> QED BY <3>2 DEF j, z
    <2>2. /\ y \in Seq(Seq(Token)) /\ Len(y) = Len(d) + 1 /\ Len(e) = Len(d) + 1
          /\ y[Len(d) + 1] = b /\ \A f \in 1 .. Len(d) : y[f] = d[f] /\ e[f] = d[f]
      OBVIOUS
    <2> HIDE DEF x, y
    <2>3. \A f \in 1 .. Len(d) + 1 : x[f] = y[f]
      <3> SUFFICES ASSUME NEW f \in 1 .. Len(d) + 1 PROVE x[f] = y[f]
        OBVIOUS
      <3>1. Len(d) \in Nat /\ DOMAIN e = 1 .. Len(d) + 1
        BY <1>1, <2>2
      <3>2. f = Len(d) + 1 \/ (f # Len(d) + 1 /\ f \in 1 .. Len(d) /\ f \in DOMAIN e)
        BY <3>1
      <3> QED BY <2>1, <2>2, <3>2
    <2>4. x = y
      BY <2>1, <2>2, <2>3, SeqEqual
    <2> QED BY <2>4 DEF x, y
  <1> QED BY <1>1, <1>2, <1>3

\* A connection whose file has just been opened, the f-th of the disk.
Ready(l, f) ==
    /\ l \in ClientCon /\ PlainConn(l) /\ l.up /\ ~l.upload_active
    /\ l.response_out = "none" /\ l.upload_file = [open |-> TRUE, good |-> TRUE]
    /\ l.upload_path = f

LEMMA TakenIs ==
    ASSUME Counted, NEW q \in Parser, NEW w \in Seq(Token), NEW a \in DOMAIN Asks, Taken(q, w, a)
    PROVE  /\ q.body \in Seq(Token) /\ q.body \o w = Payload(a) /\ q.buffer = <<>>
           /\ q.content_length = Asks[a].payload /\ Asks[a].payload \in Nat
           /\ Asks[a].payload = Len(q.body) + Len(w) /\ Len(q.body) \in Nat /\ Len(w) \in Nat
  <1>1. /\ q.body \in Seq(Token) /\ q.body \o w = Payload(a) /\ q.buffer = <<>>
        /\ q.content_length = Asks[a].payload
    BY DEF Taken, Parser
  <1>2. Len(q.body \o w) = Len(q.body) + Len(w) /\ Len(q.body) \in Nat /\ Len(w) \in Nat
    BY <1>1, ConcatProperties
  <1>3. Len(Payload(a)) = Asks[a].payload /\ Asks[a].payload \in Nat
    BY PayloadIs
  <1> QED BY <1>1, <1>2, <1>3

\* The parts of startUpload.
Sized(p, o) == [p EXCEPT !.conn.upload_bytes_remaining = o.req.content_length]
Coded(g, o) == [g EXCEPT !.conn.chunked = @ \/ o.req.chunked]
Cleared(s) == [s EXCEPT !.req = Clear(@)]

\* What came of the body with the headers is written at once.
LEMMA BodyStored ==
    ASSUME Counted, NEW d \in Seq(Seq(Token)), NEW l, Ready(l, Len(d) + 1),
           NEW q \in Parser, PlainReq(q), NEW w \in Seq(Token), NEW a \in DOMAIN Asks, NEW K,
           Taken(q, w, a), q.body # <<>>, NEW m, m = Recount(l, Asks[a].payload),
           NEW e, e = Append(d, <<>>),
           NEW s, s = ProcessBody(Begin(m, q, e), q.body, FALSE),
           NEW t, t = Cleared(s)
    PROVE  Started(t, q.body, d, w, a, K) /\ s.ok
  <1> DEFINE b == q.body  g == Begin(m, q, e)  c == Asks[a].payload
  <1>1. /\ b \in Seq(Token) /\ b \o w = Payload(a) /\ q.buffer = <<>> /\ b # <<>>
        /\ c \in Nat /\ c = Len(b) + Len(w) /\ Len(b) \in Nat \ {0} /\ Len(w) \in Nat
    <2>1. Len(b) \in Nat \ {0}
      BY TakenIs, EmptySeq
    <2> QED BY <2>1, TakenIs
  <1>2. /\ m \in ClientCon /\ PlainConn(m) /\ m.up /\ ~m.upload_active
        /\ m.response_out = "none" /\ m.upload_file = [open |-> TRUE, good |-> TRUE]
        /\ m.upload_path = Len(d) + 1 /\ m.upload_bytes_remaining = c
    <2>1. c \in Int
      BY <1>1
    <2> HIDE DEF c
    <2>2. m = Recount(l, c) /\ l \in ClientCon
      BY DEF c, Ready
    <2>3. Recounted(m, l, c)
      BY <2>1, <2>2, Counts
    <2> QED BY <2>3 DEF Ready, Recounted
  <1>3. /\ e \in Seq(Seq(Token)) /\ Len(d) + 1 \in DOMAIN e
        /\ Put(e, Len(d) + 1, e[Len(d) + 1] \o b) = Append(d, b)
    BY <1>1, PutLast
  <1>4. g \in Work /\ g.conn = m /\ g.req = q /\ g.disk = e /\ g.ok /\ g.state = "BODY"
    BY <1>2, <1>3 DEF Begin, Work
  <1>5. s = ProcessBody(g, b, FALSE) /\ FALSE \in BOOLEAN
    OBVIOUS
  <1> HIDE DEF b, g, c
  <1>6. PICK n \in 1 .. Len(b) : Hands(g, b, FALSE, n)
    <2>1. m.upload_bytes_remaining \in Nat \ {0}
      BY <1>1, <1>2
    <2> QED BY <1>1, <1>2, <1>4, <2>1, Processes
  <1>7. n = Len(b)
    <2>1. n = IF Len(b) < c THEN Len(b) ELSE c
      BY <1>2, <1>4, <1>6 DEF Hands
    <2> QED BY <1>1, <2>1
  <1> DEFINE h == [g EXCEPT !.to_write = n]
  <1>8. /\ h \in Work /\ h.conn = m /\ h.req = q /\ h.disk = e /\ h.ok /\ h.state = "BODY"
    BY <1>1, <1>4, <1>7 DEF Work
  <1>9. s = WriteBody(h, b, FALSE)
    BY <1>5, <1>6, <1>7 DEF Hands
  <1> HIDE DEF h
  <1>10. Accepted(s, h, b)
    BY <1>1, <1>2, <1>3, <1>5, <1>8, <1>9, Written
  <1>11. /\ s.conn = Recount(m, c - Len(b)) /\ s.disk = Append(d, b)
         /\ s.req = q /\ s.state = "BODY" /\ s.ok
         /\ s = [h EXCEPT !.conn = s.conn, !.disk = s.disk]
    <2>4. /\ s.conn = Recount(h.conn, h.conn.upload_bytes_remaining - Len(b))
          /\ s.disk = Put(h.disk, h.conn.upload_path, h.disk[h.conn.upload_path] \o b)
          /\ s.req = h.req /\ s.state = h.state /\ s.ok = h.ok
      BY <1>10, Zenon DEF Accepted
    <2>5. h.conn.upload_bytes_remaining = c /\ h.conn.upload_path = Len(d) + 1 /\ h.conn = m
      BY <1>2, <1>8
    <2>1. /\ s.conn = Recount(m, c - Len(b))
          /\ s.disk = Put(e, Len(d) + 1, e[Len(d) + 1] \o b)
          /\ s.req = q /\ s.state = "BODY" /\ s.ok
      BY <1>8, <2>4, <2>5
    <2>2. s = [h EXCEPT !.conn = s.conn, !.disk = s.disk]
      BY <1>10, Zenon DEF Accepted
    <2>3. s.disk = Append(d, b)
      BY <1>3, <2>1
    <2> QED BY <2>1, <2>2, <2>3
  <1>12. c - Len(b) = Len(w) /\ Len(w) \in Int
    BY <1>1
  <1> DEFINE k == s.conn
  <1>13. /\ k \in ClientCon /\ PlainConn(k) /\ k.up /\ ~k.upload_active
         /\ k.response_out = "none" /\ k.upload_file = [open |-> TRUE, good |-> TRUE]
         /\ k.upload_path = Len(d) + 1 /\ k.upload_bytes_remaining = Len(w)
    <2>1. k = Recount(m, Len(w))
      BY <1>11, <1>12
    <2> HIDE DEF k
    <2>2. Recounted(k, m, Len(w))
      BY <1>2, <1>12, <2>1, Counts
    <2> QED BY <1>2, <2>2 DEF Recounted
  <1>14. Append(d, b) \in Seq(Seq(Token))
    BY <1>1, AppendIs
  <1>15. s \in Work
    <2> DEFINE y == Append(d, b)
    <2>1. s = [h EXCEPT !.conn = k, !.disk = y]
      BY <1>11
    <2> HIDE DEF k, y
    <2>2. k \in ClientCon
      BY <1>13
    <2>3. y \in Seq(Seq(Token))
      BY <1>14 DEF y
    <2> QED BY <1>8, <2>1, <2>2, <2>3 DEF Work
  <1>16. /\ Clear(q) \in Parser /\ PlainReq(Clear(q)) /\ Clear(q).buffer = <<>>
    BY <1>1, ClearIs
  <1> HIDE DEF k
  <1>17. /\ t \in Work /\ t.conn = k /\ t.disk = Append(d, b) /\ t.req = Clear(q) /\ t.state = "BODY"
         /\ t.ok
    BY <1>11, <1>15, <1>16 DEF Work, k, Cleared
  <1> QED BY <1>1, <1>11, <1>13, <1>16, <1>17 DEF Started, b

\* startUpload, when nothing is in parts.
Rest(t) == IF \/ ~t.conn.chunked /\ t.conn.upload_bytes_remaining = 0
              \/ t.state = "COMPLETE" \/ t.conn.multipart_state = "MP_END"
             THEN UploadComplete(t)
             ELSE [t EXCEPT !.conn.upload_active = TRUE]

LEMMA StartsPlainly ==
    ASSUME NEW o, ~o.req.MPFlag, ~o.conn.MPFlag, NEW fails,
           NEW p, p = OpenUploadFile(o, fails), NEW g, g = Sized(p, o),
           NEW s, s = ProcessBody(Coded(g, o), o.req.body, fails), NEW t, t = Cleared(s),
           NEW r, r = StartUpload(o, fails)
    PROVE  /\ ~p.ok => r = p
           /\ p.ok /\ g.ok /\ o.req.body = <<>> => r = Rest(g)
           /\ p.ok /\ s.ok /\ o.req.body # <<>> => r = Rest(t)
  <1> DEFINE body == o.req.body
             pp == CASE o.req.MPFlag /\ ~o.req.mp_type ->
                          FallbackError([o EXCEPT !.conn.MPFlag = TRUE], "400")
                     [] o.req.MPFlag /\ o.req.mp_type ->
                          [o EXCEPT !.conn.MPFlag = TRUE, !.conn.upload_path = 0]
                     [] OTHER -> IF o.conn.MPFlag THEN [o EXCEPT !.conn.upload_path = 0]
                                 ELSE OpenUploadFile(o, fails)
             gg == [pp EXCEPT !.conn.upload_bytes_remaining = o.req.content_length]
             ss == IF body = <<>> THEN gg
                   ELSE ProcessBody([gg EXCEPT !.conn.chunked = @ \/ o.req.chunked], body, fails)
             tt == IF body = <<>> THEN ss ELSE [ss EXCEPT !.req = Clear(@)]
  <1>1. r = IF ~pp.ok THEN pp ELSE IF ~ss.ok THEN ss ELSE Rest(tt)
    BY Zenon DEF StartUpload, Rest
  <1>2. pp = p
    OBVIOUS
  <1> HIDE DEF pp
  <1>3. gg = g
    BY <1>2 DEF Sized
  <1> HIDE DEF gg
  <1>4. CASE body = <<>>
    BY <1>1, <1>2, <1>3, <1>4
  <1>5. CASE body # <<>>
    <2>1. ss = s
      BY <1>3, <1>5 DEF Coded
    <2> HIDE DEF ss
    <2>2. tt = t
      BY <1>5, <2>1 DEF Cleared
    <2> HIDE DEF tt
    <2> QED BY <1>1, <1>2, <1>5, <2>1, <2>2
  <1> QED BY <1>4, <1>5

LEMMA RestIs ==
    ASSUME NEW t \in Work, PlainConn(t.conn), t.state = "BODY", NEW w \in Seq(Token),
           t.conn.upload_bytes_remaining = Len(w)
    PROVE  Rest(t) = IF Len(w) = 0 THEN UploadComplete(t)
                     ELSE [t EXCEPT !.conn.upload_active = TRUE]
  BY DEF Rest, PlainConn

LEMMA OfNoFile ==
    ASSUME NEW k, NEW l, NEW d, NEW K, ~k.upload_active, ~l.upload_active,
           Files(k, d), Keeps(k, d, K)
    PROVE  Files(l, d) /\ Keeps(l, d, K)
  BY DEF Files, Keeps

\* startUpload: an answer, or an upload that goes on.
LEMMA Launched ==
    ASSUME Counted, NEW k, NEW d, NEW K, Idle(k, d, K), NEW q \in Parser, PlainReq(q),
           NEW w \in Seq(Token), NEW a \in DOMAIN Asks, Taken(q, w, a), Asks[a].upload,
           NEW fails \in BOOLEAN, NEW r, r = StartUpload(Begin(k, q, d), fails)
    PROVE  (Answering(r, w, a, K) \/ Carrying(r, w, a, K)) /\ HasFields(r)
  <1> DEFINE o == Begin(k, q, d)
             p == OpenUploadFile(o, fails)
             g == Sized(p, o)
             s == ProcessBody(Coded(g, o), o.req.body, fails)
             t == Cleared(s)
             b == q.body
  <1>1. /\ k \in ClientCon /\ d \in Seq(Seq(Token)) /\ PlainConn(k)
        /\ k.up /\ ~k.upload_active /\ k.response_out = "none" /\ k.upload_bytes_remaining >= 0
        /\ Files(k, d) /\ Keeps(k, d, K)
    BY DEF Idle
  <1>2. /\ b \in Seq(Token) /\ b \o w = Payload(a) /\ q.buffer = <<>>
        /\ q.content_length = Asks[a].payload /\ Asks[a].payload \in Nat
        /\ Asks[a].payload = Len(b) + Len(w) /\ Len(b) \in Nat /\ Len(w) \in Nat
    BY TakenIs
  <1>3. o.conn = k /\ o.req = q /\ o.disk = d
    BY DEF Begin
  <1>4. /\ ~p.ok => r = p
        /\ p.ok /\ g.ok /\ b = <<>> => r = Rest(g)
        /\ p.ok /\ s.ok /\ b # <<>> => r = Rest(t)
    <2>1. ~o.req.MPFlag /\ ~o.conn.MPFlag /\ r = StartUpload(o, fails) /\ o.req.body = b
      BY <1>1, <1>3 DEF PlainReq, PlainConn
    <2> HIDE DEF o, b
    <2>2. /\ p = OpenUploadFile(o, fails) /\ g = Sized(p, o)
          /\ s = ProcessBody(Coded(g, o), o.req.body, fails) /\ t = Cleared(s)
      OBVIOUS
    <2> HIDE DEF p, g, s, t
    <2> QED BY <2>1, <2>2, StartsPlainly
  <1>5. CASE fails
    <2>1. p = OpenUploadFile(Begin(k, q, d), fails)
      OBVIOUS
    <2> HIDE DEF p, o
    <2>0. Unopened(p, k, q, d)
      BY <1>1, <1>5, <2>1, NotOpened
    <2>2. /\ p.conn \in ClientCon /\ PlainConn(p.conn) /\ p.conn.up = k.up
          /\ p.conn.upload_active = k.upload_active /\ p.conn.response_out = "500"
          /\ p.conn.upload_bytes_remaining = k.upload_bytes_remaining
          /\ ~p.conn.upload_file.good /\ p.req = q /\ p.disk = d /\ p.ok = FALSE /\ HasFields(p)
      BY <2>0 DEF Unopened
    <2>3. r = p
      BY <1>4, <2>2
    <2>4. Files(p.conn, d) /\ Keeps(p.conn, d, K)
      BY <1>1, <2>2, OfNoFile
    <2>5. w = <<>> \/ Bad(w)
      BY <1>2, RestIsBad
    <2>6. p.conn.upload_bytes_remaining >= 0
      BY <1>1, <2>2
    <2> QED BY <1>1, <1>2, <2>2, <2>3, <2>4, <2>5, <2>6 DEF Answering
  <1>6. CASE ~fails
    <2> DEFINE l == OpenConn(k, Len(d) + 1)  e == Append(d, <<>>)  c == Asks[a].payload
               m == Recount(l, c)
    <2>0. l = OpenConn(k, Len(d) + 1) /\ e = Append(d, <<>>) /\ m = Recount(l, c)
      OBVIOUS
    <2> HIDE DEF l, e, c, m
    <2>10. OpenUploadFile(Begin(k, q, d), fails) = Begin(l, q, e) /\ Opens(l, k, Len(d) + 1)
      BY <1>1, <1>6, <2>0, Opened
    <2>1. /\ OpenUploadFile(Begin(k, q, d), fails) = Begin(l, q, e)
          /\ l \in ClientCon /\ PlainConn(l) /\ l.up = k.up
          /\ l.upload_active = k.upload_active /\ l.response_out = k.response_out
          /\ l.upload_file = [open |-> TRUE, good |-> TRUE] /\ l.upload_path = Len(d) + 1
      BY <2>10 DEF Opens
    <2>2. Ready(l, Len(d) + 1)
      BY <1>1, <2>1 DEF Ready
    <2>3. p = Begin(l, q, e)
      BY <1>6, <2>1
    <2>4. g = Begin(m, q, e)
      <3>1. o.req.content_length = c
        BY <1>2, <1>3 DEF c
      <3> DEFINE n == o.req.content_length
      <3> HIDE DEF p, o
      <3>2. g = [p EXCEPT !.conn.upload_bytes_remaining = n]
        BY DEF Sized
      <3> HIDE DEF n, g
      <3>3. n = c
        BY <3>1 DEF n
      <3> QED BY <2>0, <2>3, <3>2, <3>3 DEF Begin, Recount
    <2> HIDE DEF p, g
    <2>5. /\ m \in ClientCon /\ PlainConn(m) /\ m.up /\ ~m.upload_active
          /\ m.response_out = "none" /\ m.upload_file = [open |-> TRUE, good |-> TRUE]
          /\ m.upload_path = Len(d) + 1 /\ m.upload_bytes_remaining = c
      <3>1. c \in Int
        BY <1>2 DEF c
      <3>2. Recounted(m, l, c)
        BY <2>0, <2>1, <3>1, Counts
      <3> QED BY <1>1, <2>1, <3>2 DEF Recounted
    <2>6. e \in Seq(Seq(Token))
      BY <1>1, PutLast, RemovedIs DEF e
    <2>7. g \in Work /\ g.conn = m /\ g.req = q /\ g.disk = e /\ g.ok /\ g.state = "BODY" /\ p.ok
      BY <2>3, <2>4, <2>5, <2>6 DEF Begin, Work
    <2>8. CASE b = <<>>
      <3>1. r = Rest(g) /\ Len(b) = 0 /\ c = Len(w)
        BY <1>2, <1>4, <2>7, <2>8 DEF c
      <3>2. Started(g, b, d, w, a, K)
        BY <1>2, <2>5, <2>7, <2>8, <3>1 DEF Started, e
      <3>3. Rest(g) = IF Len(w) = 0 THEN UploadComplete(g)
                      ELSE [g EXCEPT !.conn.upload_active = TRUE]
        BY <2>5, <2>7, <3>1, RestIs
      <3> QED BY <3>1, <3>2, <3>3, UploadStarts
    <2>9. CASE b # <<>>
      <3>1. s = ProcessBody(g, b, FALSE)
        <4>1. Coded(g, o) = g
          <5>1. g.conn.chunked = FALSE /\ o.req.chunked = FALSE
            BY <1>3, <2>5, <2>7 DEF PlainConn, PlainReq, ClientCon, Parser
          <5> HIDE DEF o
          <5> DEFINE y == g.conn.chunked \/ o.req.chunked
          <5>2. y = g.conn.chunked
            BY <5>1
          <5>3. [g EXCEPT !.conn.chunked = y] = g
            <6> HIDE DEF y
            <6> QED BY <5>2, <2>7 DEF Work, ClientCon
          <5> QED BY <5>3 DEF Coded
        <4>2. o.req.body = b
          BY <1>3
        <4> QED BY <1>6, <4>1, <4>2
      <3> HIDE DEF s
      <3>2. Started(t, b, d, w, a, K) /\ s.ok
        <4>1. m = Recount(l, Asks[a].payload) /\ s = ProcessBody(Begin(m, q, e), q.body, FALSE)
          BY <1>6, <2>0, <2>4, <3>1 DEF c
        <4>2. e = Append(d, <<>>) /\ q.body # <<>>
          BY <2>9 DEF e
        <4> HIDE DEF m
        <4> QED BY <1>1, <2>2, <4>1, <4>2, BodyStored
      <3>3. r = Rest(t)
        BY <1>4, <2>7, <2>9, <3>2
      <3> HIDE DEF t
      <3>4. Rest(t) = IF Len(w) = 0 THEN UploadComplete(t)
                      ELSE [t EXCEPT !.conn.upload_active = TRUE]
        BY <3>2, RestIs DEF Started
      <3> QED BY <3>2, <3>3, <3>4, UploadStarts
    <2> QED BY <2>8, <2>9
  <1> QED BY <1>5, <1>6

-----------------------------------------------------------------------------
(* The steps of the server.                                                *)

LEMMA BeginWith ==
    ASSUME NEW k, NEW q, NEW d, NEW o, o = Begin(k, q, d), NEW l, NEW p
    PROVE  /\ \A g : g = [o EXCEPT !.req = p] => g = Begin(k, p, d)
           /\ \A g : g = [o EXCEPT !.conn = l] => g = Begin(l, q, d)
           /\ o.req = q /\ o.conn = k /\ o.disk = d
  <1>1. ASSUME NEW g, g = [o EXCEPT !.req = p] PROVE g = Begin(k, p, d)
    BY <1>1 DEF Begin
  <1>2. ASSUME NEW g, g = [o EXCEPT !.conn = l] PROVE g = Begin(l, q, d)
    BY <1>2 DEF Begin
  <1>3. o.req = q /\ o.conn = k /\ o.disk = d
    BY DEF Begin
  <1> QED BY <1>1, <1>2, <1>3

Served(k, keep) == [k EXCEPT !.keep_alive = keep, !.servConf = TRUE]

LEMMA ServedIs ==
    ASSUME NEW k, NEW d, NEW K, Idle(k, d, K), NEW keep \in BOOLEAN
    PROVE  Idle(Served(k, keep), d, K)
  <1> DEFINE l == Served(k, keep)
  <1>1. /\ l \in ClientCon /\ PlainConn(l) /\ l.up = k.up /\ l.upload_active = k.upload_active
        /\ l.response_out = k.response_out
        /\ l.upload_bytes_remaining = k.upload_bytes_remaining
    BY DEF Idle, ClientCon, PlainConn, Served
  <1> HIDE DEF l
  <1>2. Idle(l, d, K)
    BY <1>1, OfNoFile DEF Idle
  <1> QED BY <1>2 DEF l

\* An error page for request a.
LEMMA Refusal ==
    ASSUME NEW k, NEW d, NEW K, Idle(k, d, K), NEW q \in Parser, PlainReq(q), q.buffer = <<>>,
           NEW w, NEW a, w = <<>> \/ Bad(w), ~Fit, NEW status \in Statuses \ {"201"},
           NEW r, r = FallbackError(Begin(k, q, d), status)
    PROVE  Answering(r, w, a, K) /\ HasFields(r)
  <1> DEFINE o == Begin(k, q, d)  l == Failing(k, status)
  <1>1. HasFields(o) /\ o.conn = k /\ o.req = q /\ o.disk = d
    BY DEF Begin, HasFields
  <1>2. r = FallbackError(o, status)
    OBVIOUS
  <1> HIDE DEF o
  <1>3. r.conn = l /\ r.req = q /\ r.disk = d /\ HasFields(r)
    BY <1>1, <1>2 DEF FallbackError, HasFields, Failing
  <1>4. l = Failing(k, status) /\ k \in ClientCon /\ status \in Statuses
    BY DEF Idle
  <1> HIDE DEF l
  <1>5. /\ l \in ClientCon /\ (PlainConn(k) => PlainConn(l)) /\ l.up = k.up
        /\ l.upload_active = k.upload_active
        /\ l.upload_bytes_remaining = k.upload_bytes_remaining /\ l.response_out = status
    BY <1>4, FailingIs
  <1>6. Files(l, d) /\ Keeps(l, d, K)
    BY <1>5, OfNoFile DEF Idle
  <1>7. status # "none" /\ status # "201"
    BY DEF Statuses
  <1> QED BY <1>3, <1>5, <1>6, <1>7 DEF Idle, Answering

\* processRequest, when the headers of request a have been read.
LEMMA Processing ==
    ASSUME Counted, NEW k, NEW d, NEW K, Idle(k, d, K), NEW q \in Parser, PlainReq(q),
           NEW w \in Seq(Token), NEW a \in DOMAIN Asks, Taken(q, w, a),
           NEW fails \in BOOLEAN, NEW r, r = ProcessRequest(Begin(k, q, d), fails)
    PROVE  (Answering(r, w, a, K) \/ Carrying(r, w, a, K)) /\ HasFields(r)
  <1> DEFINE o == Begin(k, q, d)
             l == Served(k, Asks[a].keep)
             p == Begin(l, q, d)
  <1>1. /\ Asks[a].keep \in BOOLEAN /\ Asks[a].upload \in BOOLEAN /\ Asks[a].valid
        /\ q.ask = a /\ ~q.chunked
    BY AskType DEF Ask, Taken, PlainReq
  <1>2. /\ q.body \in Seq(Token) /\ q.body \o w = Payload(a) /\ q.buffer = <<>>
        /\ q.content_length = Asks[a].payload /\ Asks[a].payload \in Nat
        /\ Asks[a].payload = Len(q.body) + Len(w) /\ Len(q.body) \in Nat /\ Len(w) \in Nat
    BY TakenIs
  <1>3. Idle(l, d, K)
    BY <1>1, ServedIs
  <1>4. [o EXCEPT !.conn.keep_alive = Asks[a].keep, !.conn.servConf = TRUE] = p
    <2> DEFINE keep == Asks[a].keep
               y == [o EXCEPT !.conn.keep_alive = keep]
               x == [y EXCEPT !.conn.servConf = TRUE]
               m == [k EXCEPT !.keep_alive = keep]
               n == [m EXCEPT !.servConf = TRUE]
    <2>1. o = Begin(k, q, d)
      OBVIOUS
    <2> HIDE DEF o, keep
    <2>2. y = Begin(m, q, d)
      BY <2>1, BeginWith
    <2> HIDE DEF y, m
    <2>3. x = Begin(n, q, d)
      <3>1. y.conn = m
        BY <2>2, BeginWith
      <3>2. x = [y EXCEPT !.conn = n]
        BY <3>1
      <3> HIDE DEF x, n
      <3> QED BY <2>2, <3>2, BeginWith
    <2>4. n = [k EXCEPT !.keep_alive = keep, !.servConf = TRUE]
      BY DEF m
    <2>5. x = [o EXCEPT !.conn.keep_alive = keep, !.conn.servConf = TRUE]
      BY DEF y
    <2> HIDE DEF x, n
    <2> QED BY <2>3, <2>4, <2>5 DEF Served, keep
  <1>5. p.req = q /\ o.req = q
    BY DEF Begin
  <1>6. w = <<>> \/ Bad(w)
    BY <1>2, RestIsBad
  <1>7. p = Begin(l, q, d) /\ r = ProcessRequest(o, fails)
    OBVIOUS
  <1> HIDE DEF o, l, p
  <1> DEFINE big == q.content_length > MaxBody \/ Len(q.body) > MaxBody
  <1>8. r = IF big THEN FallbackError(p, "413")
            ELSE IF ~Asks[a].upload THEN [p EXCEPT !.conn.response_out = "200"]
            ELSE StartUpload(p, fails)
    <2>1. MaxBody \in Nat
      BY ConnectionAssumption
    <2>2. ~big <=> q.content_length <= MaxBody /\ Len(q.body) <= MaxBody
      BY <1>2, <2>1
    <2> QED BY <1>1, <1>4, <1>5, <1>7, <2>2 DEF ProcessRequest
  <1>9. CASE big
    <2>1. ~Fit
      <3>1. Fit => Asks[a].payload <= MaxBody
        BY DEF Fit
      <3>2. MaxBody \in Nat
        BY ConnectionAssumption
      <3> QED BY <1>2, <1>9, <3>1, <3>2
    <2>2. "413" \in Statuses \ {"201"}
      BY DEF Statuses
    <2>3. r = FallbackError(Begin(l, q, d), "413")
      BY <1>7, <1>8, <1>9
    <2> HIDE DEF big
    <2> QED BY <1>2, <1>3, <1>6, <2>1, <2>2, <2>3, Refusal
  <1>10. CASE ~big /\ ~Asks[a].upload
    <2>1. r = [p EXCEPT !.conn.response_out = "200"]
      BY <1>8, <1>10
    <2> DEFINE m == r.conn
    <2>2. m = [l EXCEPT !.response_out = "200"] /\ r.req = q /\ r.disk = d /\ HasFields(r)
      BY <1>7, <2>1 DEF Begin, HasFields
    <2> HIDE DEF m
    <2>3. /\ m \in ClientCon /\ PlainConn(m) /\ m.up /\ ~m.upload_active
          /\ m.response_out = "200"
          /\ m.upload_bytes_remaining = l.upload_bytes_remaining
      BY <1>3, <2>2 DEF Idle, ClientCon, PlainConn, Statuses
    <2>4. Files(m, d) /\ Keeps(m, d, K)
      BY <1>3, <2>3, OfNoFile DEF Idle
    <2>5. Fit => w = <<>>
      <3>1. Fit => Asks[a].payload = 0
        BY <1>10 DEF Fit
      <3>2. Fit => Len(w) = 0
        BY <1>2, <3>1
      <3> QED BY <3>2, EmptySeq
    <2>6. Merit(a) = "200"
      BY <1>1, <1>10 DEF Merit
    <2>7. m.upload_bytes_remaining >= 0 /\ d \in Seq(Seq(Token))
      BY <1>3, <2>3 DEF Idle
    <2> QED BY <1>2, <1>6, <2>2, <2>3, <2>4, <2>5, <2>6, <2>7 DEF Answering, m
  <1>11. CASE ~big /\ Asks[a].upload
    <2>1. r = StartUpload(Begin(l, q, d), fails)
      BY <1>7, <1>8, <1>11
    <2> HIDE DEF big
    <2> QED BY <1>3, <1>11, <2>1, Launched
  <1> QED BY <1>9, <1>10, <1>11

\* The parser is cleared after an answer that leaves the connection open.
LEMMA Finished ==
    ASSUME NEW r, HasFields(r), NEW w, NEW a, NEW K, NEW state,
           Answering(r, w, a, K) \/ Carrying(r, w, a, K),
           NEW s, s = Processed(r, state)
    PROVE  Answering(s, w, a, K) \/ Carrying(s, w, a, K)
  <1> DEFINE c == Clear(r.req)
  <1>1. r.req \in Parser /\ PlainReq(r.req) /\ r.req.buffer = <<>>
    BY DEF Answering, Carrying, Uploading
  <1>2. c \in Parser /\ PlainReq(c) /\ c.buffer = <<>>
    BY <1>1, ClearIs
  <1>3. s = r \/ s = [r EXCEPT !.req = c]
    BY DEF Processed
  <1> HIDE DEF c
  <1>4. CASE s = [r EXCEPT !.req = c]
    <2>1. s.conn = r.conn /\ s.disk = r.disk /\ s.req = c
      BY <1>4 DEF HasFields
    <2>2. CASE Answering(r, w, a, K)
      BY <1>2, <2>1, <2>2 DEF Answering
    <2>3. CASE Carrying(r, w, a, K)
      BY <1>2, <2>1, <2>3 DEF Carrying, Uploading
    <2> QED BY <2>2, <2>3
  <1> QED BY <1>3, <1>4

\* What is read while no upload is active is parsed as a request.
LEMMA RequestRead ==
    ASSUME Counted, NEW k, NEW d, NEW K, Idle(k, d, K), NEW q \in Parser,
           NEW data \in Seq(Token), data # <<>>, NEW w \in Seq(Token),
           NEW a \in {0} \cup DOMAIN Asks, Session(k, q, d, data \o w, a),
           NEW fails \in BOOLEAN, NEW r, r = ReadRequest(Begin(k, q, d), data, fails)
    PROVE  Fine(r, w, a, K)
  <1> DEFINE o == Begin(k, q, d)  p == ParseRequest(q, data)  g == Begin(k, p, d)
  <1>1. /\ k \in ClientCon /\ d \in Seq(Seq(Token)) /\ PlainConn(k)
        /\ k.up /\ ~k.upload_active /\ k.response_out = "none" /\ k.upload_bytes_remaining >= 0
        /\ Files(k, d) /\ Keeps(k, d, K)
    BY DEF Idle
  <1>2. PlainReq(q) /\ Waiting(q, data \o w, a) /\ (Fit => InStep(k, q, data \o w, a))
    BY <1>1 DEF Session
  <1>3. /\ p \in Parser /\ PlainReq(p) /\ Outcome(p, w, a)
        /\ q.state = "HEADERS" \/ ~Bad(Stream(q, data \o w)) =>
             /\ p.state # "ERROR"
             /\ p.state = "HEADERS" \/ Taken(p, w, a) \/ ~Bad(Stream(p, w))
    <2>1. p = ParseRequest(q, data)
      OBVIOUS
    <2> HIDE DEF p
    <2> QED BY <1>2, <2>1, Parsing
  <1>4. Fit /\ k.upload_file.good => q.state = "HEADERS" \/ ~Bad(Stream(q, data \o w))
    BY <1>1, <1>2 DEF InStep
  <1>5. g.req = p /\ g.conn = k /\ g.disk = d /\ HasFields(g)
    BY DEF Begin, HasFields
  <1>6. r = Parsed(g, fails)
    <2>1. o.req = q /\ [o EXCEPT !.req = p] = g
      <3> DEFINE y == [o EXCEPT !.req = p]
      <3>1. o = Begin(k, q, d) /\ y = [o EXCEPT !.req = p]
        OBVIOUS
      <3> HIDE DEF p, o, y
      <3>2. y = Begin(k, p, d) /\ o.req = q
        BY <3>1, BeginWith
      <3> QED BY <3>2 DEF y, g
    <2> HIDE DEF p, g
    <2>2. r = Parsed([o EXCEPT !.req = ParseRequest(o.req, data)], fails)
      BY DEF ReadRequest
    <2> HIDE DEF o
    <2> QED BY <2>1, <2>2 DEF p
  <1> HIDE DEF p, g
  <1>7. r = IF p.state = "ERROR" THEN FallbackError(g, "400")
            ELSE IF p.state \in {"REQUEST_LINE", "HEADERS"} THEN g
            ELSE Processed(ProcessRequest(g, fails), p.state)
    BY <1>5, <1>6 DEF Parsed
  <1>8. CASE p.state = "ERROR"
    <2>1. Bad(Stream(p, w))
      BY <1>3, <1>8 DEF Outcome, Waiting, Taken
    <2>2. ~(Fit /\ k.upload_file.good)
      BY <1>3, <1>4, <1>8
    <2> DEFINE l == Failing(k, "400")
    <2>3. r.conn = l /\ r.req = p /\ r.disk = d
      <3>1. r = FallbackError(g, "400")
        BY <1>7, <1>8
      <3> QED BY <1>5, <3>1 DEF FallbackError, HasFields, Failing
    <2>4. "400" \in Statuses /\ l = Failing(k, "400")
      BY DEF Statuses
    <2> HIDE DEF l
    <2>5. /\ l \in ClientCon /\ PlainConn(l) /\ l.up /\ ~l.upload_active
          /\ l.upload_file = k.upload_file
          /\ l.upload_bytes_remaining = k.upload_bytes_remaining /\ l.response_out = "400"
      BY <1>1, <2>4, FailingIs
    <2>6. Files(l, d) /\ Keeps(l, d, K)
      BY <1>1, <2>5, OfNoFile
    <2>7. Session(l, p, d, w, a)
      BY <1>3, <2>1, <2>2, <2>5 DEF Session, Queued, InStep
    <2> QED BY <1>1, <1>3, <2>3, <2>5, <2>6, <2>7 DEF Fine
  <1>9. CASE p.state \in {"REQUEST_LINE", "HEADERS"}
    <2>1. r = g
      BY <1>7, <1>9
    <2>2. Waiting(p, w, a)
      BY <1>3, <1>9 DEF Outcome, Taken
    <2>3. Fit => InStep(k, p, w, a)
      <3>1. ~Taken(p, w, a)
        BY <1>9 DEF Taken
      <3> QED BY <1>1, <1>3, <1>4, <3>1 DEF InStep
    <2>4. Session(k, p, d, w, a)
      BY <1>1, <1>3, <2>2, <2>3 DEF Session
    <2> QED BY <1>1, <1>3, <1>5, <2>1, <2>4 DEF Fine
  <1>10. CASE p.state \notin {"ERROR", "REQUEST_LINE", "HEADERS"}
    <2>1. Taken(p, w, a) /\ a \in DOMAIN Asks
      BY <1>3, <1>10 DEF Outcome, Waiting, Taken
    <2> DEFINE s == ProcessRequest(Begin(k, p, d), fails)
    <2>2. r = Processed(s, p.state)
      BY <1>7, <1>10 DEF g
    <2>3. s = ProcessRequest(Begin(k, p, d), fails)
      OBVIOUS
    <2> HIDE DEF s
    <2>4. (Answering(s, w, a, K) \/ Carrying(s, w, a, K)) /\ HasFields(s)
      BY <1>3, <2>1, <2>3, Processing
    <2>5. Answering(r, w, a, K) \/ Carrying(r, w, a, K)
      BY <2>2, <2>4, Finished
    <2> QED BY <2>1, <2>5, AnsweringIsFine
  <1> QED BY <1>8, <1>9, <1>10

-----------------------------------------------------------------------------
(* The invariant.                                                          *)

\* The invariant as a relation between a connection, its disk and its client.
Sound(k, q, d, w, a, K) ==
    /\ k \in ClientCon /\ q \in Parser /\ d \in Seq(Seq(Token)) /\ w \in Seq(Token)
    /\ k.upload_bytes_remaining >= 0
    /\ Session(k, q, d, w, a) /\ Files(k, d) /\ Keeps(k, d, K)

LEMMA SoundIs ==
    /\ IInv <=> Sound(conn, req, disk, wire, client.asking, kept) /\ client \in Client
    /\ IInv' <=> Sound(conn', req', disk', wire', client'.asking, kept') /\ client' \in Client
  <1>1. IInv <=> Sound(conn, req, disk, wire, client.asking, kept) /\ client \in Client
    BY DEF IInv, TypeOK, Sound, Session, PlainConn
  <1>2. IInv' <=> Sound(conn', req', disk', wire', client'.asking, kept') /\ client' \in Client
    BY DEF IInv, TypeOK, Sound, Session, PlainConn
  <1> QED BY <1>1, <1>2

LEMMA InitSound == ASSUME Init PROVE IInv
  <1>1. NewConn \in ClientCon /\ PlainConn(NewConn)
    BY NewConnType
  <1>2. NewParser \in Parser /\ PlainReq(NewParser)
    <2>1. 0 \in 0 .. Len(Asks) /\ <<>> \in Seq(Token)
      BY AsksAssumption, RemovedIs
    <2> QED BY <2>1 DEF NewParser, Parser, PlainReq
  <1>3. Stream(NewParser, <<>>) = <<>>
    BY RemovedIs, ConcatEmptySeq DEF Stream, NewParser
  <1>4. ~Bad(<<>>)
    BY DEF Bad
  <1>5. Waiting(NewParser, <<>>, 0)
    BY <1>3 DEF Waiting, NewParser
  <1>6. /\ NewConn.up /\ ~NewConn.upload_active /\ NewConn.response_out = "none"
        /\ NewConn.upload_bytes_remaining = 0
    BY DEF NewConn
  <1>7. Session(NewConn, NewParser, <<>>, <<>>, 0)
    BY <1>1, <1>2, <1>3, <1>4, <1>5, <1>6 DEF Session, InStep
  <1>8. Files(NewConn, <<>>) /\ Keeps(NewConn, <<>>, {})
    BY DEF Files, Keeps
  <1>9. <<>> \in Seq(Seq(Token)) /\ <<>> \in Seq(Token)
    BY RemovedIs
  <1>10. Sound(NewConn, NewParser, <<>>, <<>>, 0, {})
    BY <1>1, <1>2, <1>6, <1>7, <1>8, <1>9, ZeroIs DEF Sound
  <1>11. client \in Client /\ client.asking = 0
    BY DEF Init, Client, Nothing
  <1> QED BY <1>10, <1>11, SoundIs DEF Init

LEMMA ReadSound ==
    ASSUME Counted, IInv, ReadClient
    PROVE  IInv'
  <1> DEFINE a == client.asking
  <1>1. Sound(conn, req, disk, wire, a, kept) /\ client \in Client /\ a \in {0} \cup DOMAIN Asks
    BY SoundIs DEF Client
  <1>2. PICK n \in Reads, fails \in {FALSE, DiskFaults} :
          /\ wire' = Erase(wire, n)
          /\ \E o \in {Read(SubSeq(wire, 1, n), fails)} :
               conn' = o.conn /\ req' = o.req /\ disk' = o.disk
    BY DEF ReadClient
  <1>3. fails \in BOOLEAN
    BY ConnectionAssumption
  <1> DEFINE data == SubSeq(wire, 1, n)  w == Erase(wire, n)  r == Read(data, fails)
  <1>4. /\ data \in Seq(Token) /\ data # <<>> /\ w \in Seq(Token) /\ data \o w = wire
        /\ Len(data) \in Nat \ {0} /\ Erase(data, 0) = data
    <2>1. wire \in Seq(Token) /\ n \in 1 .. Len(wire) /\ n \in 0 .. Len(wire)
      BY <1>1 DEF Reads, Sound
    <2>2. /\ data \in Seq(Token) /\ Len(data) = n /\ w \in Seq(Token) /\ data \o w = wire
      BY <2>1, Cuts
    <2> HIDE DEF data
    <2>3. Erase(data, 0) = data
      <3>1. 0 \in 0 .. Len(data)
        BY <2>1, <2>2
      <3> QED BY <2>2, <3>1, Cuts
    <2> QED BY <2>1, <2>2, <2>3, EmptySeq
  <1>5. conn' = r.conn /\ req' = r.req /\ disk' = r.disk /\ wire' = w
    BY <1>2
  <1>6. client' = client /\ kept' = kept /\ conn.up /\ conn.response_out = "none"
    BY DEF ReadClient
  <1>7. Here = Begin(conn, req, disk)
    BY DEF Here, Begin
  <1> DEFINE o == Here
  <1>8. r = Beyond(IF conn.upload_active THEN Ended(ProcessBody(o, data, fails)) ELSE o,
                   data, fails)
    BY DEF Read
  <1>9. o = Begin(conn, req, disk)
    BY <1>7
  <1> HIDE DEF data, w, r, o, a
  <1>10. Fine(r, w, a, kept)
    <2>1. CASE conn.upload_active
      <3>1. r = Beyond(Ended(ProcessBody(Begin(conn, req, disk), data, fails)), data, fails)
        BY <1>8, <1>9, <2>1
      <3>2. /\ conn \in ClientCon /\ req \in Parser /\ disk \in Seq(Seq(Token))
            /\ Session(conn, req, disk, data \o w, a) /\ Files(conn, disk)
            /\ Keeps(conn, disk, kept)
        BY <1>1, <1>4 DEF Sound
      <3> QED BY <1>1, <1>3, <1>4, <1>6, <2>1, <3>1, <3>2, UploadGoesOn
    <2>2. CASE ~conn.upload_active
      <3>1. r = Beyond(o, data, fails)
        BY <1>8, <2>2
      <3>2. o.ok /\ o.to_write = 0
        BY <1>9 DEF Begin
      <3>3. ~(Len(data) <= o.to_write)
        BY <1>4, <3>2
      <3>4. r = ReadRequest(Begin(conn, req, disk), data, fails)
        BY <1>4, <1>9, <3>1, <3>2, <3>3 DEF Beyond
      <3>5. Idle(conn, disk, kept)
        BY <1>1, <1>6, <2>2 DEF Sound, Session, Idle
      <3>6. Session(conn, req, disk, data \o w, a) /\ req \in Parser
        BY <1>1, <1>4 DEF Sound
      <3> QED BY <1>1, <1>3, <1>4, <3>4, <3>5, <3>6, RequestRead
    <2> QED BY <2>1, <2>2
  <1>11. Sound(conn', req', disk', wire', a, kept)
    BY <1>4, <1>5, <1>10 DEF Fine, Sound
  <1> QED BY <1>1, <1>6, <1>11, SoundIs DEF a

Closed == [NewConn EXCEPT !.up = FALSE]

LEMMA ClosedIs ==
    /\ Closed \in ClientCon /\ PlainConn(Closed) /\ ~Closed.up /\ ~Closed.upload_active
    /\ Closed.response_out = "none" /\ Closed.upload_bytes_remaining = 0
    /\ NewParser \in Parser /\ PlainReq(NewParser) /\ NewParser.body = <<>>
    /\ NewParser.state = "REQUEST_LINE" /\ NewParser.buffer = <<>>
    /\ Stream(NewParser, <<>>) = <<>> /\ ~Bad(<<>>) /\ Waiting(NewParser, <<>>, 0)
  <1> DEFINE k == Closed
  <1>1. k \in ClientCon /\ PlainConn(k)
    BY NewConnType DEF Closed, ClientCon, PlainConn
  <1>2. /\ ~k.up /\ ~k.upload_active /\ k.response_out = "none" /\ k.upload_bytes_remaining = 0
    BY DEF Closed, NewConn
  <1>3. /\ NewParser \in Parser /\ PlainReq(NewParser) /\ NewParser.body = <<>>
        /\ NewParser.state = "REQUEST_LINE" /\ NewParser.buffer = <<>>
    <2>1. 0 \in 0 .. Len(Asks) /\ <<>> \in Seq(Token)
      BY AsksAssumption, RemovedIs
    <2> QED BY <2>1 DEF NewParser, Parser, PlainReq
  <1>4. Stream(NewParser, <<>>) = <<>> /\ ~Bad(<<>>)
    BY RemovedIs, ConcatEmptySeq DEF Stream, NewParser, Bad
  <1>5. Waiting(NewParser, <<>>, 0)
    BY <1>3, <1>4 DEF Waiting
  <1> QED BY <1>1, <1>2, <1>3, <1>4, <1>5

\* A connection is closed: the file of its upload goes.
LEMMA ClosedSound ==
    ASSUME NEW k, NEW q, NEW d, NEW w, NEW a, NEW K, Sound(k, q, d, w, a, K), k.up,
           NEW e, e = IF k.upload_active /\ k.upload_path # 0 THEN Put(d, k.upload_path, Removed)
                      ELSE d
    PROVE  Sound(Closed, NewParser, e, <<>>, 0, K)
  <1> DEFINE l == Closed
  <1>1. /\ l \in ClientCon /\ PlainConn(l) /\ ~l.up /\ ~l.upload_active
        /\ l.response_out = "none" /\ l.upload_bytes_remaining = 0
        /\ NewParser \in Parser /\ PlainReq(NewParser) /\ NewParser.body = <<>>
        /\ NewParser.state = "REQUEST_LINE" /\ NewParser.buffer = <<>>
        /\ Stream(NewParser, <<>>) = <<>> /\ ~Bad(<<>>) /\ Waiting(NewParser, <<>>, 0)
    BY ClosedIs
  <1>2. l = [NewConn EXCEPT !.up = FALSE]
    BY DEF Closed
  <1> HIDE DEF l
  <1>3. Session(l, NewParser, e, <<>>, 0)
    BY <1>1, <1>2 DEF Session, InStep
  <1>4. d \in Seq(Seq(Token)) /\ Files(k, d) /\ Keeps(k, d, K)
    BY DEF Sound
  <1>5. e \in Seq(Seq(Token)) /\ Files(l, e) /\ Keeps(l, e, K)
    <2>1. CASE k.upload_active
      <3>1. k.upload_path \in DOMAIN d /\ k.upload_path # 0
        <4>1. k.upload_path \in DOMAIN d
          BY <2>1 DEF Sound, Session, Uploading, Broken
        <4> QED BY <1>4, <4>1, DiskIs
      <3>2. e = Put(d, k.upload_path, Removed)
        BY <2>1, <3>1
      <3>3. e \in Seq(Seq(Token))
        BY <1>4, <3>1, <3>2, RemovedIs DEF Put
      <3>4. Files(l, e) /\ Keeps(l, e, K)
        BY <1>1, <1>4, <2>1, <3>1, <3>2, RemovedIs, Overwritten
      <3> QED BY <3>3, <3>4
    <2>2. CASE ~k.upload_active
      BY <1>1, <1>4, <2>2, OfNoFile
    <2> QED BY <2>1, <2>2
  <1>6. <<>> \in Seq(Token)
    BY RemovedIs
  <1>7. l.upload_bytes_remaining >= 0
    BY <1>1
  <1> QED BY <1>1, <1>3, <1>5, <1>6, <1>7 DEF Sound, l

LEMMA ClosingIs ==
    ASSUME CloseClient
    PROVE  /\ conn' = Closed /\ req' = NewParser /\ wire' = <<>>
           /\ disk' = IF conn.upload_active /\ conn.upload_path # 0
                        THEN Put(disk, conn.upload_path, Removed) ELSE disk
  <1>1. Discard(Here).disk = IF conn.upload_path = 0 THEN disk
                             ELSE Put(disk, conn.upload_path, Removed)
    <2> DEFINE o == Here
               v == IF conn.upload_path = 0 THEN disk ELSE Put(disk, conn.upload_path, Removed)
    <2>1. o.conn = conn /\ o.disk = disk /\ HasFields(o)
      BY DEF Here, HasFields
    <2> HIDE DEF o
    <2>2. Discard(o) = [o EXCEPT !.conn.upload_file.open = FALSE, !.disk = v]
      BY <2>1 DEF Discard, Put
    <2> HIDE DEF v
    <2>3. Discard(o).disk = v
      BY <2>1, <2>2 DEF HasFields
    <2> QED BY <2>3 DEF o, v
  <1> QED BY <1>1 DEF CloseClient, Closed

LEMMA LeaveSound == ASSUME IInv, Leave PROVE IInv'
  <1>1. Sound(conn, req, disk, wire, client.asking, kept) /\ client \in Client
    BY SoundIs
  <1>2. conn.up /\ CloseClient /\ client' = [client EXCEPT !.asking = 0] /\ kept' = kept
    BY DEF Leave
  <1>3. Sound(conn', req', disk', wire', 0, kept)
    BY <1>1, <1>2, ClosingIs, ClosedSound
  <1>4. client' \in Client /\ client'.asking = 0
    BY <1>1, <1>2 DEF Client
  <1> QED BY <1>2, <1>3, <1>4, SoundIs

LEMMA ConnectSound == ASSUME IInv, Connect PROVE IInv'
  <1>1. Sound(conn, req, disk, wire, client.asking, kept) /\ client \in Client
    BY SoundIs
  <1>2. /\ ~conn.up /\ conn' = NewConn /\ req' = req /\ disk' = disk /\ wire' = wire
        /\ kept' = kept /\ client' = [client EXCEPT !.asking = 0, !.got = Nothing]
    BY DEF Connect
  <1>3. /\ conn = Closed /\ req = NewParser /\ wire = <<>>
        /\ disk \in Seq(Seq(Token)) /\ Files(conn, disk) /\ Keeps(conn, disk, kept)
    BY <1>1, <1>2 DEF Sound, Session, Closed
  <1>4. /\ NewConn.up /\ ~NewConn.upload_active /\ NewConn.response_out = "none"
        /\ NewConn.upload_bytes_remaining = 0
    BY DEF NewConn
  <1>5. Session(NewConn, NewParser, disk, <<>>, 0)
    BY <1>4, NewConnType, ClosedIs DEF Session, InStep
  <1>6. Files(NewConn, disk) /\ Keeps(NewConn, disk, kept)
    BY <1>3, <1>4, ClosedIs, OfNoFile
  <1>7. <<>> \in Seq(Token) /\ NewConn.upload_bytes_remaining >= 0
    BY <1>4, RemovedIs
  <1>8. Sound(NewConn, NewParser, disk, <<>>, 0, kept)
    BY <1>3, <1>5, <1>6, <1>7, NewConnType, ClosedIs DEF Sound
  <1>9. client' \in Client /\ client'.asking = 0
    BY <1>1, <1>2 DEF Client, Nothing
  <1> QED BY <1>2, <1>3, <1>8, <1>9, SoundIs

LEMMA SendSound == ASSUME Counted, IInv, SendRequest PROVE IInv'
  <1>1. Sound(conn, req, disk, wire, client.asking, kept) /\ client \in Client
    BY SoundIs
  <1>2. PICK i \in DOMAIN Asks : /\ wire' = wire \o Wire(i)
                                 /\ client' = [asking |-> i, asked |-> client.asked + 1,
                                               got |-> Nothing]
    BY DEF SendRequest
  <1>3. /\ conn.up /\ client.asking = 0 /\ conn' = conn /\ req' = req /\ disk' = disk
        /\ kept' = kept
    BY DEF SendRequest
  <1>4. client' \in Client /\ client'.asking = i
    BY <1>1, <1>2 DEF Client, Nothing
  <1> DEFINE k == conn  q == req  d == disk  w == wire  v == wire \o Wire(i)
  <1>5. /\ k \in ClientCon /\ q \in Parser /\ d \in Seq(Seq(Token)) /\ w \in Seq(Token)
        /\ k.upload_bytes_remaining >= 0
        /\ Session(k, q, d, w, 0) /\ Files(k, d) /\ Keeps(k, d, kept)
    BY <1>1, <1>3 DEF Sound
  <1>6. i # 0 /\ Wire(i) \in Seq(Token) /\ (Bad(Wire(i)) <=> ~Asks[i].valid)
    BY AskType, WireIs, BadStream
  <1>7. q.buffer \in Seq(Token) /\ Stream(q, w) \in Seq(Token)
    BY <1>5 DEF Parser, Stream
  <1>8. v \in Seq(Token) /\ Stream(q, v) = Stream(q, w) \o Wire(i)
    <2> DEFINE b == req.buffer  u == wire  x == Wire(i)
    <2>1. b \in Seq(Token) /\ u \in Seq(Token) /\ x \in Seq(Token)
      BY <1>5, <1>6, <1>7
    <2> HIDE DEF b, u, x
    <2>2. u \o x \in Seq(Token) /\ (b \o u) \o x = b \o (u \o x)
      BY SMTT(30), <2>1, Joins
    <2> QED BY <2>2 DEF b, u, x, Stream
  <1> HIDE DEF k, q, d, w, v
  <1>9. Bad(Stream(q, w)) => Bad(Stream(q, v))
    BY <1>6, <1>7, <1>8, BadStream
  <1>10. Stream(q, w) = <<>> => Stream(q, v) = Wire(i)
    BY <1>6, <1>8, ConcatEmptySeq
  <1>11. PlainConn(k) /\ PlainReq(q) /\ k.up
    BY <1>3, <1>5 DEF Session, k
  <1>12. Session(k, q, d, v, i)
    <2>1. CASE k.upload_active
      <3>1. Broken(k, d)
        BY <1>5, <2>1 DEF Session, Uploading
      <3> QED BY <1>11, <2>1, <3>1 DEF Session, InStep
    <2>2. CASE ~k.upload_active /\ k.response_out = "none"
      <3>1. Waiting(q, w, 0)
        BY <1>5, <2>2 DEF Session
      <3>2. q.body = <<>> /\ q.state = "REQUEST_LINE" /\ (Stream(q, w) = <<>> \/ Bad(Stream(q, w)))
        BY <3>1 DEF Waiting
      <3>3. Waiting(q, v, i)
        BY <1>6, <1>9, <1>10, <3>2 DEF Waiting
      <3>4. ASSUME Fit PROVE InStep(k, q, v, i)
        <4>1. InStep(k, q, w, 0) /\ Asks[i].valid
          BY <1>5, <3>4 DEF Session, Fit
        <4>2. k.upload_file.good => ~Bad(Stream(q, v))
          BY <1>6, <1>10, <2>2, <3>2, <4>1 DEF InStep
        <4> QED BY <2>2, <4>2 DEF InStep
      <3> QED BY <1>11, <2>2, <3>3, <3>4 DEF Session
    <2>3. CASE ~k.upload_active /\ k.response_out # "none"
      <3>1. Queued(k, q, d, w, 0) /\ (Fit => InStep(k, q, w, 0))
        BY <1>5, <2>3 DEF Session
      <3>2. Queued(k, q, d, v, i)
        BY <1>9, <3>1 DEF Queued
      <3>3. Fit => InStep(k, q, v, i)
        BY <2>3, <3>1 DEF InStep
      <3> QED BY <1>11, <2>3, <3>2, <3>3 DEF Session
    <2> QED BY <2>1, <2>2, <2>3
  <1>13. Sound(k, q, d, v, i, kept)
    BY <1>5, <1>8, <1>12 DEF Sound
  <1> QED BY <1>2, <1>3, <1>4, <1>13, SoundIs DEF k, q, d, v

LEMMA WriteSound == ASSUME IInv, ClientWrite PROVE IInv'
  <1> DEFINE a == client.asking
             f == [ask |-> a, file |-> conn.location]
             K == IF conn.response_out # "201" THEN kept ELSE kept \cup {f}
  <1>1. Sound(conn, req, disk, wire, a, kept) /\ client \in Client
    BY SoundIs
  <1>2. /\ conn.up /\ conn.response_out # "none" /\ kept' = K
        /\ client' = [client EXCEPT !.asking = 0,
                        !.got = [ask |-> client.asking, status |-> conn.response_out]]
    BY DEF ClientWrite
  <1>3. /\ conn \in ClientCon /\ req \in Parser /\ disk \in Seq(Seq(Token)) /\ wire \in Seq(Token)
        /\ conn.upload_bytes_remaining >= 0
        /\ Session(conn, req, disk, wire, a) /\ Files(conn, disk) /\ Keeps(conn, disk, kept)
    BY <1>1 DEF Sound
  <1>4. client' \in Client /\ client'.asking = 0
    <2>1. conn.response_out \in Statuses
      BY <1>2, <1>3 DEF ClientCon
    <2> QED BY <1>1, <1>2, <2>1 DEF Client
  <1>5. conn.upload_active => Broken(conn, disk)
    BY <1>2, <1>3 DEF Session, Uploading
  <1>6. ~conn.upload_active => Queued(conn, req, disk, wire, a)
    BY <1>2, <1>3 DEF Session
  <1>7. Keeps(conn, disk, K)
    <2>1. CASE conn.response_out # "201"
      BY <1>3, <2>1
    <2>2. CASE conn.response_out = "201"
      <3>1. ~conn.upload_active /\ a # 0 /\ conn.location \in DOMAIN disk
            /\ disk[conn.location] = Payload(a)
        BY <1>5, <1>6, <2>2 DEF Broken, Queued
      <3>2. f.ask = a /\ f.file = conn.location /\ a \in DOMAIN Asks
        BY <1>1, <3>1 DEF Client
      <3> HIDE DEF f, a
      <3> QED BY <1>3, <2>2, <3>1, <3>2 DEF Keeps
    <2> QED BY <2>1, <2>2
  <1> HIDE DEF K
  <1>8. CASE ~conn.keep_alive
    <2>1. CloseClient
      BY <1>8 DEF ClientWrite
    <2>2. Sound(conn, req, disk, wire, a, K)
      BY <1>3, <1>7 DEF Sound
    <2>3. Sound(conn', req', disk', wire', 0, K)
      BY <1>2, <2>1, <2>2, ClosingIs, ClosedSound
    <2> QED BY <1>2, <1>4, <2>3, SoundIs
  <1>9. CASE conn.keep_alive
    <2>1. /\ conn' = [conn EXCEPT !.response_out = "none"] /\ req' = Clear(req)
          /\ disk' = disk /\ wire' = wire
      BY <1>9 DEF ClientWrite
    <2> DEFINE l == conn'  q == Clear(req)
    <2>2. /\ l \in ClientCon /\ (PlainConn(conn) => PlainConn(l)) /\ l.up
          /\ l.upload_active = conn.upload_active /\ l.upload_path = conn.upload_path
          /\ l.upload_file = conn.upload_file /\ l.response_out = "none"
          /\ l.upload_bytes_remaining = conn.upload_bytes_remaining
      BY <1>2, <1>3, <2>1 DEF ClientCon, PlainConn, Statuses
    <2> HIDE DEF l, q
    <2>3. PlainConn(conn) /\ PlainReq(req)
      BY <1>3 DEF Session
    <2>4. /\ q \in Parser /\ PlainReq(q) /\ q.buffer = req.buffer /\ q.state = "REQUEST_LINE"
          /\ q.body = <<>>
      BY <1>3, <2>3, ClearIs DEF q
    <2>5. Stream(q, wire) = Stream(req, wire)
      BY <2>4 DEF Stream
    <2>6. Files(l, disk) /\ Keeps(l, disk, K)
      BY <1>2, <1>3, <1>7, <2>2 DEF Files, Keeps
    <2>7. Session(l, q, disk, wire, 0)
      <3>1. CASE conn.upload_active
        <4>1. Broken(l, disk)
          BY <1>5, <2>2, <3>1 DEF Broken
        <4> QED BY <2>2, <2>3, <2>4, <3>1, <4>1 DEF Session, InStep
      <3>2. CASE ~conn.upload_active
        <4>1. Stream(q, wire) = <<>> \/ Bad(Stream(q, wire))
          BY <1>6, <2>5, <3>2 DEF Queued
        <4>2. Waiting(q, wire, 0)
          BY <2>4, <4>1 DEF Waiting
        <4>3. Fit => InStep(l, q, wire, 0)
          <5>1. Fit => InStep(conn, req, wire, a)
            BY <1>3 DEF Session
          <5> QED BY <1>2, <2>2, <2>5, <3>2, <5>1 DEF InStep
        <4> QED BY <2>2, <2>3, <2>4, <3>2, <4>2, <4>3 DEF Session
      <3> QED BY <3>1, <3>2
    <2>8. Sound(l, q, disk, wire, 0, K)
      BY <1>3, <2>2, <2>4, <2>6, <2>7 DEF Sound
    <2> QED BY <1>2, <1>4, <2>1, <2>8, SoundIs DEF l, q
  <1> QED BY <1>8, <1>9

\* The invariant holds, for requests whose bodies are counted.
THEOREM InvariantHolds == Counted => (Spec => []IInv)
  <1> SUFFICES ASSUME Counted PROVE Spec => []IInv
    OBVIOUS
  <1>1. Init => IInv
    BY InitSound
  <1>2. IInv /\ [Next]_vars => IInv'
    <2> SUFFICES ASSUME IInv, [Next]_vars PROVE IInv'
      OBVIOUS
    <2>1. CASE ReadClient
      BY <2>1, ReadSound
    <2>2. CASE ClientWrite
      BY <2>2, WriteSound
    <2>3. CASE Leave
      BY <2>3, LeaveSound
    <2>4. CASE Connect
      BY <2>4, ConnectSound
    <2>5. CASE SendRequest
      BY <2>5, SendSound
    <2>6. CASE UNCHANGED vars
      BY <2>6, SoundIs DEF vars
    <2> QED BY <2>1, <2>2, <2>3, <2>4, <2>5, <2>6 DEF Next
  <1> QED BY <1>1, <1>2, PTL DEF Spec

-----------------------------------------------------------------------------
(* The theorems, for requests whose bodies are counted.                    *)

\* The connection keeps its types, and what is left of an upload never wraps
\* below zero (write_body).
THEOREM TypeCorrect == Counted => (Spec => []TypeOK)
  <1> SUFFICES ASSUME Counted PROVE Spec => []TypeOK
    OBVIOUS
  <1>1. IInv => TypeOK
    BY DEF IInv
  <1> QED BY <1>1, InvariantHolds, PTL

\* An upload the client was told is created is on the disk, byte for byte what
\* the client sent, and stays: whatever the cuts of the reads, the faults of
\* the disk and the later requests (startUpload, write_body, uploadComplete).
THEOREM KeepsUploads == Counted => (Spec => []AcknowledgedUploadIsWhole)
  <1> SUFFICES ASSUME Counted PROVE Spec => []AcknowledgedUploadIsWhole
    OBVIOUS
  <1>1. IInv => AcknowledgedUploadIsWhole
    <2>1. \A a \in DOMAIN Asks : a # 0
      BY AskType
    <2> QED BY <2>1 DEF IInv, Keeps, AcknowledgedUploadIsWhole
  <1> QED BY <1>1, InvariantHolds, PTL

\* While an upload runs, what its file holds and what is still to be read make
\* up what was sent (write_body, processBody).
THEOREM ConservesUploads == Counted => (Spec => []UploadConserved)
  <1> SUFFICES ASSUME Counted PROVE Spec => []UploadConserved
    OBVIOUS
  <1>1. ASSUME IInv PROVE UploadConserved
    <2>1. TypeOK /\ Session(conn, req, disk, wire, client.asking)
      BY <1>1 DEF IInv
    <2> SUFFICES ASSUME conn.up, conn.upload_active, conn.upload_file.open,
                        conn.response_out = "none"
                 PROVE  /\ client.asking # 0
                        /\ disk[conn.upload_path] \o SubSeq(wire, 1, conn.upload_bytes_remaining)
                             = Payload(client.asking)
      BY <2>1 DEF UploadConserved
    <2>2. Uploading(conn, req, disk, wire, client.asking)
      BY <2>1 DEF Session, Broken
    <2>3. SubSeq(wire, 1, conn.upload_bytes_remaining) = wire
      <3>1. wire \in Seq(Token) /\ conn.upload_bytes_remaining = Len(wire)
        BY <2>1, <2>2 DEF TypeOK, Uploading
      <3> QED BY <3>1, SubSeqFull
    <2> QED BY <2>2, <2>3 DEF Uploading
  <1> QED BY <1>1, InvariantHolds, PTL

\* A file on the disk is a whole upload or the one being written: what a client
\* abandons or the disk refuses is removed (close_client, write_body).
THEOREM LeavesNoStrayFile == Counted => (Spec => []NoStrayFile)
  <1> SUFFICES ASSUME Counted PROVE Spec => []NoStrayFile
    OBVIOUS
  <1>1. IInv => NoStrayFile
    BY DEF IInv, Files, NoStrayFile
  <1> QED BY <1>1, InvariantHolds, PTL

\* Every answer belongs to the request its client waits for and is the one it
\* deserves, up to a fault of the disk (processRequest, startUpload).
THEOREM AnswersAsDeserved == Counted /\ Fit => (Spec => AnswersFit)
  <1> SUFFICES ASSUME Counted, Fit PROVE Spec => AnswersFit
    OBVIOUS
  <1> DEFINE Deserved ==
        client'.got \notin {client.got, Nothing} /\ conn.upload_file.good =>
          client'.got.ask # 0 /\ client'.got.status = Merit(client'.got.ask)
  <1>1. ASSUME IInv, [Next]_vars PROVE [Deserved]_vars
    <2>1. CASE ClientWrite
      <3>1. Session(conn, req, disk, wire, client.asking) /\ client \in Client
        BY <1>1 DEF IInv
      <3>2. /\ conn.response_out # "none"
            /\ client'.got = [ask |-> client.asking, status |-> conn.response_out]
        BY <2>1, <3>1 DEF ClientWrite, Client
      <3>3. ASSUME conn.upload_file.good
            PROVE  client.asking # 0 /\ conn.response_out = Merit(client.asking)
        <4>1. ~conn.upload_active
          BY <3>1, <3>2, <3>3 DEF Session, Uploading, Broken
        <4> QED BY <3>1, <3>2, <3>3, <4>1 DEF Session, InStep
      <3> QED BY <3>2, <3>3
    <2>2. CASE ReadClient
      BY <2>2 DEF ReadClient
    <2>3. CASE Leave
      <3>1. client \in Client
        BY <1>1 DEF IInv
      <3> QED BY <2>3, <3>1 DEF Leave, Client
    <2>4. CASE Connect
      <3>1. client \in Client
        BY <1>1 DEF IInv
      <3> QED BY <2>4, <3>1 DEF Connect, Client
    <2>5. CASE SendRequest
      BY <2>5 DEF SendRequest
    <2>6. CASE UNCHANGED vars
      BY <2>6
    <2> QED BY <1>1, <2>1, <2>2, <2>3, <2>4, <2>5, <2>6 DEF Next
  <1> QED BY <1>1, InvariantHolds, PTL DEF Spec, AnswersFit

=============================================================================
