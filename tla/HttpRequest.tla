----------------------------- MODULE HttpRequest ----------------------------
(***************************************************************************)
(* The request parser of CatSurf (tools/src/httpRequest/httpRequest.cpp)   *)
(* as operators on its state, and the bytes it is given.                   *)
(*                                                                         *)
(* Bytes come as tokens: the text of a request line, the text of a header  *)
(* block, CRLF, a unit of payload, a chunk size, a multipart boundary and  *)
(* so on, taken to be equally wide; reads may cut between any two of them. *)
(* Validity of a line or a header block is a flag of the request.  Header  *)
(* blocks are shorter than MAX_HEADER_SIZE.                                *)
(***************************************************************************)
EXTENDS Integers, Sequences, SequencesExt, FiniteSetsExt

CONSTANT Asks      \* the requests clients send

Ask == [upload: BOOLEAN,          \* POST to an UPLOAD location, else GET of a page
        coding: {"none", "counted", "chunked"},
        multipart: BOOLEAN, payload: Nat, keep: BOOLEAN, valid: BOOLEAN,
        joined: SUBSET Nat]       \* the places where no read ends

ASSUME AsksAssumption == Asks \in Seq(Ask)

Token == [t: {"line", "head", "crlf", "data", "size", "dashes", "boundary", "part", "torn"},
          v: Nat]

T(t, v) == [t |-> t, v |-> v]
CRLF == T("crlf", 0)
Dashes == T("dashes", 0)
Boundary == T("boundary", 0)

Payload(i) == [n \in 1 .. Asks[i].payload |-> T("data", n)]

Body(i) ==
    CASE Asks[i].coding = "none" -> <<>>
      [] Asks[i].coding = "counted" /\ ~Asks[i].multipart -> Payload(i)
      [] Asks[i].coding = "counted" /\ Asks[i].multipart ->
           <<Dashes, Boundary, CRLF, T("part", 0), CRLF, CRLF>> \o Payload(i)
             \o <<CRLF, Dashes, Boundary, Dashes, CRLF>>
      [] Asks[i].coding = "chunked" ->
           FlattenSeq([n \in 1 .. Asks[i].payload |->
                          <<T("size", 1), CRLF, T("data", n), CRLF>>])
             \o <<T("size", 0), CRLF, CRLF>>

Wire(i) == <<T("line", i), CRLF, T("head", i), CRLF, CRLF>> \o Body(i)

-----------------------------------------------------------------------------
(* The parser.                                                             *)

\* std::string::find: where p first occurs in b, 0 if nowhere.
Find(p, b) ==
    LET at == {i \in 1 .. Len(b) - Len(p) + 1 : SubSeq(b, i, i + Len(p) - 1) = p}
    IN  IF at = {} THEN 0 ELSE Min(at)

Erase(b, n) == SubSeq(b, n + 1, Len(b))

Parser == [state: {"REQUEST_LINE", "HEADERS", "BODY", "COMPLETE", "ERROR"},
           buffer: Seq(Token), ask: 0 .. Len(Asks),  \* method, uri, headers
           body: Seq(Token), content_length: Nat, chunked: BOOLEAN,
           mp_type: BOOLEAN,              \* content_type is multipart/form-data
           MPFlag: BOOLEAN]

NewParser == [state |-> "REQUEST_LINE", buffer |-> <<>>, ask |-> 0, body |-> <<>>,
              content_length |-> 0, chunked |-> FALSE, mp_type |-> FALSE,
              MPFlag |-> FALSE]

\* clear() keeps what was read beyond the request, the content type and its flag.
Clear(q) == [NewParser EXCEPT !.buffer = q.buffer, !.mp_type = q.mp_type,
                              !.MPFlag = q.MPFlag]

\* parseSL: the line is what precedes the first CRLF; a line in error stays in
\* the buffer.
ParseLine(q) ==
    LET pos == Find(<<CRLF>>, q.buffer)
        line == SubSeq(q.buffer, 1, pos - 1)
    IN  IF q.state # "REQUEST_LINE" \/ pos = 0 THEN q
        ELSE IF \E i \in DOMAIN Asks : line = <<T("line", i)>> /\ Asks[i].valid
          THEN [q EXCEPT !.state = "HEADERS", !.buffer = Erase(@, pos), !.ask = line[1].v]
          ELSE [q EXCEPT !.state = "ERROR"]

\* parseHeader: a block that is empty has no Host; the lengths come from it.
ParseHead(q) ==
    LET empty == q.buffer # <<>> /\ Head(q.buffer) = CRLF
        pos == Find(<<CRLF, CRLF>>, q.buffer)
        head == SubSeq(q.buffer, 1, pos - 1)
        ask == Asks[head[1].v]
        length == IF ask.coding = "counted" THEN Len(Body(head[1].v)) ELSE 0
        chunked == ask.coding = "chunked"
    IN  IF q.state # "HEADERS" THEN q
        ELSE IF empty THEN [q EXCEPT !.state = "ERROR"]
        ELSE IF pos = 0 THEN q
        ELSE IF \A i \in DOMAIN Asks : head # <<T("head", i)>>
          THEN [q EXCEPT !.state = "ERROR"]
        ELSE [q EXCEPT !.state = IF length = 0 /\ ~chunked THEN "COMPLETE" ELSE "BODY",
                       !.buffer = Erase(@, pos + 1), !.content_length = length,
                       !.chunked = chunked,
                       !.mp_type = IF ask.coding = "none" THEN @ ELSE ask.multipart]

\* Variant: a counted body stays in the buffer.
ParseBodyKept(q) ==
    IF q.state # "BODY" THEN q
    ELSE [q EXCEPT !.MPFlag = @ \/ q.mp_type,
                   !.body = IF q.chunked \/ Len(q.buffer) < q.content_length THEN q.buffer
                            ELSE SubSeq(q.buffer, 1, q.content_length)]

\* A chunked body is handed over and stays in the buffer as well; a counted
\* one is what has arrived of it.
ParseBody(q) ==
    IF q.state # "BODY" THEN q
    ELSE IF q.chunked THEN [q EXCEPT !.MPFlag = @ \/ q.mp_type, !.body = q.buffer]
    ELSE LET n == IF Len(q.buffer) < q.content_length THEN Len(q.buffer)
                  ELSE q.content_length
         IN  [q EXCEPT !.MPFlag = @ \/ q.mp_type, !.body = SubSeq(q.buffer, 1, n),
                       !.buffer = Erase(@, n)]

ParseRequest(q, data) ==
    ParseBody(ParseHead(ParseLine([q EXCEPT !.buffer = @ \o data])))
=============================================================================
