---------------------------- MODULE CgiExchange -----------------------------
(* CgiManager implements Exchange: where each connection's exchange stands *)
(* is read off its ClientCon and the process that serves it.               *)
EXTENDS CgiManager

PhaseOf(c) ==
    CASE ~conn[c].up -> "closed"
      [] conn[c].up /\ conn[c].cgi_active ->
           IF proc[client_map[c]].headers_complete THEN "relaying" ELSE "waiting"
      [] conn[c].up /\ ~conn[c].cgi_active ->
           IF conn[c].res_ready THEN "sending" ELSE "asking"

LastsOf(c) == PhaseOf(c) = "sending" /\ conn[c].keep_alive /\ ~conn[c].close_after_send

phase == [c \in Fds |-> PhaseOf(c)]
lasts == [c \in Fds |-> LastsOf(c)]

E == INSTANCE Exchange WITH Clients <- Fds

\* Every behaviour of the manager and its caller is one of alternating
\* requests and answers (launch, emitResponse, cleanupProcess, client_write,
\* finalize_response_write and close_client taken together).  The exchange is
\* that of the script while one runs: the answer to a request that comes early,
\* before the script's header block, is sent within it.
ImplementsExchange == E!ExSafety

\* Every exchange ends, however its script behaves.
ExchangeProgress == E!ExProgress
=============================================================================
