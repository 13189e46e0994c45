----------------------------- MODULE Connection -----------------------------
(***************************************************************************)
(* One connection of CatSurf, byte by byte (tools/src/server/server.cpp):  *)
(* requests arrive cut into reads of any length, pages are answered, and   *)
(* the bodies of uploads - counted, chunked, multipart - are decoded and   *)
(* written to a file as they come.  The client waits for an answer before  *)
(* it sends its next request; it may leave and come back at any time, and  *)
(* the disk may fail.                                                      *)
(***************************************************************************)
EXTENDS HttpRequest

CONSTANTS
    MaxBody,       \* client_max_body_size, in units
    DiskFaults,    \* opening and writing a file may fail
    Leaves,        \* clients may leave, or stay idle for too long
    MaxAsks        \* bound: requests sent

ASSUME ConnectionAssumption ==
    MaxBody \in Nat /\ {DiskFaults, Leaves} \subseteq BOOLEAN /\ MaxAsks \in Nat

VARIABLES
    conn,      \* ClientCon
    req,       \* conn.req
    disk,      \* the files uploads have created, by the order of creation
    wire,      \* sent by the client and not read
    client,    \* the client as it sees itself
    kept       \* history: which file holds which acknowledged request

vars == <<conn, req, disk, wire, client, kept>>

Statuses == {"200", "201", "400", "413", "500"}

ClientCon == [up: BOOLEAN, servConf: BOOLEAN, keep_alive: BOOLEAN,
              response_out: Statuses \cup {"none"},  \* res_ready iff not "none"
              location: Nat,                         \* the file a 201 names
              upload_active: BOOLEAN, upload_path: Nat,
              upload_file: [open: BOOLEAN, good: BOOLEAN],
              upload_bytes_remaining: Int,   \* wraps below zero: then never zero
              chunked: BOOLEAN, chunk_buf: Seq(Token),
              MPFlag: BOOLEAN, multipart: Seq(Token),
              multipart_state: {"MP_BOUNDARY", "MP_HEADER", "MP_BODY", "MP_END"}]

NewConn == [up |-> TRUE, servConf |-> FALSE, keep_alive |-> FALSE,
            response_out |-> "none", location |-> 0, upload_active |-> FALSE,
            upload_path |-> 0, upload_file |-> [open |-> FALSE, good |-> TRUE],
            upload_bytes_remaining |-> 0, chunked |-> FALSE, chunk_buf |-> <<>>,
            MPFlag |-> FALSE, multipart |-> <<>>, multipart_state |-> "MP_BOUNDARY"]

Removed == <<T("torn", 0)>>     \* in place of the contents of a removed file

Nothing == [ask |-> 0, status |-> "none"]

Init ==
    /\ conn = NewConn /\ req = NewParser /\ disk = <<>> /\ wire = <<>> /\ kept = {}
    /\ client = [asking |-> 0, asked |-> 0, got |-> Nothing]

-----------------------------------------------------------------------------
(* Decoding and storing a body.  The operators work on a record o of the    *)
(* connection, its parser and the disk; "ok" is what the code returns.      *)

Here == [conn |-> conn, req |-> req, disk |-> disk, ok |-> TRUE,
         state |-> "BODY", to_write |-> 0]

\* Without a servConf the answer closes the connection.
FallbackError(o, status) ==
    [o EXCEPT !.conn.response_out = status, !.ok = FALSE,
              !.conn.keep_alive = @ /\ o.conn.servConf]

\* upload_file.close() and unlink(upload_path).
Discard(o) ==
    [o EXCEPT !.conn.upload_file.open = FALSE,
              !.disk = IF o.conn.upload_path = 0 THEN @
                       ELSE [@ EXCEPT ![o.conn.upload_path] = Removed]]

\* upload_file.write: data at the end of file f.
Stored(d, f, data) == IF data = <<>> THEN d ELSE [d EXCEPT ![f] = @ \o data]

\* Variant: what was written is not deducted.
WriteBodyUncounted(o, data, fails) ==
    IF o.conn.upload_file.good /\ (data = <<>> \/ (o.conn.upload_file.open /\ ~fails))
      THEN [o EXCEPT !.disk = Stored(@, o.conn.upload_path, data)]
      ELSE FallbackError(Discard([o EXCEPT !.conn.upload_file.good = FALSE]), "500")

\* No body here comes near MAX_CONT_LEN.
WriteBody(o, data, fails) ==
    IF o.conn.upload_file.good /\ (data = <<>> \/ (o.conn.upload_file.open /\ ~fails))
      THEN [o EXCEPT !.conn.upload_bytes_remaining = @ - Len(data),
                     !.disk = Stored(@, o.conn.upload_path, data)]
      ELSE FallbackError(Discard([o EXCEPT !.conn.upload_file.good = FALSE]), "500")

\* The name is new: generateFilename counts.
OpenUploadFile(o, fails) ==
    IF fails THEN FallbackError([o EXCEPT !.conn.upload_path = 0,
                                          !.conn.upload_file.good = FALSE], "500")
    ELSE [o EXCEPT !.conn.upload_path = Len(o.disk) + 1, !.disk = Append(@, <<>>),
                   !.conn.upload_file = [open |-> TRUE, good |-> TRUE]]

\* One chunk off the front of the buffer, if it is there whole.
NextChunk(c) ==
    LET crlf == Find(<<CRLF>>, c.buf)
        size == c.buf[1].v
        end == crlf + size + 1
    IN  CASE c.state # "BODY" \/ crlf = 0 -> c
          [] c.state = "BODY" /\ crlf # 0 /\ (crlf # 2 \/ c.buf[1].t # "size") ->
               [c EXCEPT !.state = "ERROR"]
          [] OTHER ->
               CASE Len(c.buf) < end -> c
                 [] Len(c.buf) >= end /\ size = 0 ->
                      [c EXCEPT !.state = "COMPLETE", !.buf = Erase(@, end)]
                 [] Len(c.buf) >= end /\ size > 0 /\ c.buf[end] # CRLF ->
                      [c EXCEPT !.state = "ERROR"]
                 [] OTHER -> [c EXCEPT !.buf = Erase(@, end),
                                       !.decoded = @ \o SubSeq(c.buf, crlf + 1, end - 1)]

ProcessChunkedBody(buf) ==
    FoldLeft(LAMBDA c, t : NextChunk(c),
             [buf |-> buf, decoded |-> <<>>, state |-> "BODY"], buf)

\* A delimiter's length is held back; the first delimiter seen without the
\* final dashes loses two bytes and starts another part.
ParseMultipartBody(o, fails) ==
    LET b == o.conn.multipart
        final == Find(<<CRLF, Dashes, Boundary, Dashes>>, b)
        pos == Find(<<Boundary>>, b)
        next == IF pos = 0 THEN o
                ELSE [WriteBody(o, SubSeq(b, 1, pos - 1), fails) EXCEPT
                        !.conn.multipart = <<T("torn", 0)>> \o Erase(b, pos),
                        !.conn.multipart_state = "MP_BOUNDARY"]
        left == next.conn.multipart
        safe == IF Len(left) > 3 THEN Len(left) - 3 ELSE 0
        last == WriteBody(o, SubSeq(b, 1, final - 1), fails)
    IN  CASE final # 0 ->
               IF ~last.ok THEN last
               ELSE [last EXCEPT !.conn.upload_file.open = FALSE, !.conn.multipart = <<>>,
                                 !.conn.multipart_state = "MP_END"]
          [] final = 0 /\ (~next.ok \/ safe = 0) -> next
          [] OTHER -> [WriteBody(next, SubSeq(left, 1, safe), fails) EXCEPT
                         !.conn.multipart = Erase(left, safe)]

\* The headers of a part, then its body; failures are not passed on.
ParseMultipart(o, data, fails) ==
    LET b == o.conn.multipart \o data
        start == Find(<<Boundary, CRLF>>, b)
        head == IF start = 0 THEN 0 ELSE Find(<<CRLF, CRLF>>, b)
        body == OpenUploadFile([o EXCEPT !.conn.multipart = Erase(b, head + 1),
                                         !.conn.multipart_state = "MP_BODY"], fails)
        p == CASE o.conn.multipart_state = "MP_BODY" ->
                    ParseMultipartBody([o EXCEPT !.conn.multipart = b], fails)
               [] o.conn.multipart_state # "MP_BODY" /\ head = 0 ->
                    [o EXCEPT !.conn.multipart = b, !.conn.multipart_state = "MP_HEADER"]
               [] OTHER -> IF body.ok THEN ParseMultipartBody(body, fails) ELSE body
    IN  [p EXCEPT !.ok = TRUE]

Store(o, data, fails) ==
    IF o.conn.MPFlag THEN ParseMultipart(o, data, fails) ELSE WriteBody(o, data, fails)

ProcessBody(o, data, fails) ==
    LET c == ProcessChunkedBody(o.conn.chunk_buf \o data)
        n == IF Len(data) < o.conn.upload_bytes_remaining THEN Len(data)
             ELSE o.conn.upload_bytes_remaining
    IN  IF o.conn.chunked
          THEN LET p == [o EXCEPT !.conn.chunk_buf = c.buf, !.state = c.state]
               IN  IF c.state = "ERROR" THEN Discard(FallbackError(p, "400"))
                   ELSE Store(p, c.decoded, fails)
          ELSE Store([o EXCEPT !.to_write = n], SubSeq(data, 1, n), fails)

\* Variant: the upload stays active.
UploadCompleteOnly(o) ==
    [o EXCEPT !.conn.response_out = "201", !.conn.location = o.conn.upload_path,
              !.conn.upload_file.open = FALSE]

UploadComplete(o) ==
    [o EXCEPT !.conn = [NewConn EXCEPT !.servConf = @ \/ o.conn.servConf,
                          !.keep_alive = o.conn.keep_alive, !.response_out = "201",
                          !.location = o.conn.upload_path,
                          !.multipart = o.conn.multipart,
                          !.upload_file = [o.conn.upload_file EXCEPT !.open = FALSE]]]

-----------------------------------------------------------------------------
(* Requests.                                                               *)

\* Variant: the part of the body that came with the headers is skipped.
StartUploadHeadOnly(o, fails) ==
    LET p == IF o.req.MPFlag THEN [o EXCEPT !.conn.MPFlag = TRUE]
             ELSE OpenUploadFile(o, fails)
        s == [p EXCEPT !.conn.upload_bytes_remaining = o.req.content_length - Len(o.req.body)]
    IN  IF ~p.ok THEN p
        ELSE IF s.conn.upload_bytes_remaining = 0 THEN UploadComplete(s)
        ELSE [s EXCEPT !.conn.upload_active = TRUE, !.req = Clear(@)]

\* The boundary is taken from the content type, which may be an earlier
\* request's; the body that has come with the headers is processed at once.
StartUpload(o, fails) ==
    LET p == CASE o.req.MPFlag /\ ~o.req.mp_type ->
                    FallbackError([o EXCEPT !.conn.MPFlag = TRUE], "400")
               [] o.req.MPFlag /\ o.req.mp_type ->
                    [o EXCEPT !.conn.MPFlag = TRUE, !.conn.upload_path = 0]
               [] OTHER -> IF o.conn.MPFlag THEN [o EXCEPT !.conn.upload_path = 0]
                           ELSE OpenUploadFile(o, fails)
        r == [p EXCEPT !.conn.upload_bytes_remaining = o.req.content_length]
        body == o.req.body
        s == IF body = <<>> THEN r
             ELSE ProcessBody([r EXCEPT !.conn.chunked = @ \/ o.req.chunked], body, fails)
        t == IF body = <<>> THEN s ELSE [s EXCEPT !.req = Clear(@)]
    IN  IF ~p.ok THEN p
        ELSE IF ~s.ok THEN s
        ELSE IF \/ ~t.conn.chunked /\ t.conn.upload_bytes_remaining = 0
                \/ t.state = "COMPLETE" \/ t.conn.multipart_state = "MP_END"
          THEN UploadComplete(t)
          ELSE [t EXCEPT !.conn.upload_active = TRUE]

\* Page: a request answered at once.
ProcessRequest(o, fails) ==
    LET ask == Asks[o.req.ask]
        p == [o EXCEPT !.conn.keep_alive = ask.keep, !.conn.servConf = TRUE]
    IN  CASE (~p.req.chunked /\ p.req.content_length > MaxBody) \/ Len(p.req.body) > MaxBody ->
               FallbackError(p, "413")
          [] ~ask.upload /\ p.req.content_length <= MaxBody /\ Len(p.req.body) <= MaxBody ->
               [p EXCEPT !.conn.response_out = "200"]
          [] OTHER -> StartUpload(p, fails)

Processed(r, state) ==
    IF r.conn.keep_alive /\ state = "COMPLETE" THEN [r EXCEPT !.req = Clear(@)] ELSE r

Parsed(o, fails) ==
    CASE o.req.state = "ERROR" -> FallbackError(o, "400")
      [] o.req.state \in {"REQUEST_LINE", "HEADERS"} -> o
      [] OTHER -> Processed(ProcessRequest(o, fails), o.req.state)

\* A request is processed once its headers are there, and again with every
\* read for as long as the parser stays in the body.
ReadRequest(o, data, fails) == Parsed([o EXCEPT !.req = ParseRequest(@, data)], fails)

UploadEnds(o) ==
    /\ o.ok
    /\ \/ o.conn.upload_bytes_remaining = 0 \/ o.state = "COMPLETE"
       \/ o.conn.multipart_state = "MP_END"

Ended(o) == IF UploadEnds(o) THEN UploadComplete(o) ELSE o

Beyond(o, data, fails) ==
    IF ~o.ok \/ Len(data) <= o.to_write THEN o
    ELSE ReadRequest(o, Erase(data, o.to_write), fails)

\* What is read while an upload is active is its body; what to_write does not
\* count, which is all of a chunked body, is parsed as a request as well.
Read(data, fails) ==
    Beyond(IF conn.upload_active THEN Ended(ProcessBody(Here, data, fails)) ELSE Here,
           data, fails)

-----------------------------------------------------------------------------
(* The steps of the server and of its client.                              *)

\* The lengths a read may have: any that ends where the network may cut.
Reads == {n \in 1 .. Len(wire) :
            client.asking # 0 =>
              Len(Wire(client.asking)) - Len(wire) + n \notin Asks[client.asking].joined}

\* A read: the socket is watched for reading only when no answer is queued.
ReadClient ==
    /\ conn.up /\ conn.response_out = "none"
    /\ \E n \in Reads, fails \in {FALSE, DiskFaults} :
         /\ wire' = Erase(wire, n)
         /\ \E o \in {Read(SubSeq(wire, 1, n), fails)} :
              conn' = o.conn /\ req' = o.req /\ disk' = o.disk
    /\ UNCHANGED <<client, kept>>

\* Variant: a half-written file is left behind.
CloseClientOnly ==
    /\ conn' = [NewConn EXCEPT !.up = FALSE]
    /\ req' = NewParser /\ wire' = <<>> /\ UNCHANGED disk

CloseClient ==
    /\ disk' = IF conn.upload_active THEN Discard(Here).disk ELSE disk
    /\ conn' = [NewConn EXCEPT !.up = FALSE]
    /\ req' = NewParser /\ wire' = <<>>

\* The answer goes out; finalize_response_write goes on or closes.
ClientWrite ==
    /\ conn.up /\ conn.response_out # "none"
    /\ client' = [client EXCEPT !.asking = 0,
                    !.got = [ask |-> client.asking, status |-> conn.response_out]]
    /\ kept' = IF conn.response_out # "201" THEN kept
               ELSE kept \cup {[ask |-> client.asking, file |-> conn.location]}
    /\ IF conn.keep_alive
         THEN /\ conn' = [conn EXCEPT !.response_out = "none"]
              /\ req' = Clear(req)
              /\ UNCHANGED <<disk, wire>>
         ELSE CloseClient

\* The client leaves or check_timeouts finds the connection idle.
Leave ==
    /\ Leaves /\ conn.up
    /\ CloseClient
    /\ client' = [client EXCEPT !.asking = 0]
    /\ UNCHANGED kept

Connect ==
    /\ ~conn.up
    /\ conn' = NewConn
    /\ client' = [client EXCEPT !.asking = 0, !.got = Nothing]
    /\ UNCHANGED <<req, disk, wire, kept>>

SendRequest ==
    /\ conn.up /\ client.asking = 0 /\ client.asked < MaxAsks
    /\ \E i \in DOMAIN Asks :
         /\ wire' = wire \o Wire(i)
         /\ client' = [asking |-> i, asked |-> client.asked + 1, got |-> Nothing]
    /\ UNCHANGED <<conn, req, disk, kept>>

Next == ReadClient \/ ClientWrite \/ Leave \/ Connect \/ SendRequest

Spec == Init /\ [][Next]_vars

\* What ReadClient does to the socket.
Takes == /\ conn.up /\ conn.response_out = "none"
         /\ \E n \in Reads : wire' = Erase(wire, n)

\* The loop comes back to a socket that is ready.
LiveSpec == Spec /\ WF_wire(Takes) /\ WF_vars(ClientWrite)

-----------------------------------------------------------------------------
(* Properties.                                                             *)

\* The connection keeps its types, and what is left of a counted upload never
\* wraps below zero (write_body).
TypeOK ==
    /\ conn \in ClientCon /\ req \in Parser
    /\ disk \in Seq(Seq(Token)) /\ wire \in Seq(Token)
    /\ conn.chunked \/ conn.upload_bytes_remaining >= 0

\* An upload the client was told is created (201) is on the disk, byte for
\* byte what the client sent, and stays: neither a cut of the reads, nor a
\* fault of the disk, nor any later request takes it away (startUpload,
\* processBody, write_body, uploadComplete).
AcknowledgedUploadIsWhole ==
    \A k \in kept : k.ask # 0 /\ disk[k.file] = Payload(k.ask)

\* While a counted upload runs, what its file holds and what is still to be
\* read make up what was sent: nothing is written twice, skipped or taken from
\* elsewhere (write_body, processBody).
UploadConserved ==
    /\ TypeOK
    /\ conn.up /\ conn.upload_active /\ conn.upload_file.open /\ conn.response_out = "none"
       /\ ~conn.chunked /\ ~conn.MPFlag
       => /\ client.asking # 0
          /\ disk[conn.upload_path] \o SubSeq(wire, 1, conn.upload_bytes_remaining)
               = Payload(client.asking)

\* A file that is on the disk is a whole upload or the one being written: what
\* a client abandons or the disk refuses is removed (close_client, write_body).
NoStrayFile ==
    \A f \in DOMAIN disk :
        \/ disk[f] = Removed
        \/ \E i \in DOMAIN Asks : Asks[i].upload /\ disk[f] = Payload(i)
        \/ conn.up /\ conn.upload_active /\ conn.upload_path = f

Merit(i) ==
    CASE ~Asks[i].valid -> "400"
      [] Asks[i].valid /\ Asks[i].upload -> "201"
      [] OTHER -> "200"

\* Every answer belongs to the request its client waits for and is the one
\* that request deserves, whatever came before on the same connection, up to a
\* fault of the disk: what startUpload and write_body leave behind then puts
\* the connection out of step with its client until one of them ends it.
AnswersFit ==
    [][client'.got \notin {client.got, Nothing} /\ conn.upload_file.good =>
         client'.got.ask # 0 /\ client'.got.status = Merit(client'.got.ask)]_vars

\* A client that waits gets its answer.
RequestsAnswered == (client.asking # 0) ~> (client.asking = 0)
=============================================================================
