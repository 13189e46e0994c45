----------------------------- MODULE CgiManager -----------------------------
(***************************************************************************)
(* The CGI manager of CatSurf (tools/src/cgi/cgiManager.cpp) with the      *)
(* operations of its only caller, the event loop of tools/src/server/      *)
(* server.cpp, that create, feed, drain and drop the connections it        *)
(* serves.  The server is one thread: every handler is one step.  What     *)
(* interleaves with it are the CGI scripts (child processes), the kernel's *)
(* readiness and SIGCHLD, the peers and the clock.                         *)
(*                                                                         *)
(* A process object is identified by its pid: the kernel does not hand out *)
(* a pid again while an object still remembers it (pids are allocated      *)
(* cyclically and an object lives for seconds).  Data is counted in units: *)
(* one header block, or one read's worth of body.                          *)
(***************************************************************************)
EXTENDS Integers, FiniteSets

CONSTANTS
    Fds,          \* the descriptors the process may have open for this
    Pids,         \* process ids the kernel hands to scripts
    NoProc,       \* the null CgiProcess pointer, an absent map entry
    Threshold,    \* kBackpressureThreshold, in units of response data
    HeaderKinds,  \* the header blocks scripts write: malformed, with or
                  \* without a Content-Length
    PipeCap,      \* units of body the script's stdout pipe holds
    MaxBody,      \* bound: units of request body a client sends, 0 for no body
    MaxBacklog,   \* bound: units of response waiting for a client
    MaxClients    \* bound: connections accepted at a time

ASSUME FdsAssumption == Fds \subseteq Nat
ASSUME NoProcAssumption == NoProc \notin Pids
ASSUME HeaderKindsAssumption == HeaderKinds \subseteq {"bad", "length", "nolength"}
ASSUME BoundsAssumption ==
    /\ Threshold \in Nat \ {0} /\ PipeCap \in Nat \ {0} /\ MaxBody \in Nat
    /\ MaxBacklog \in Nat \ {0} /\ MaxClients \in Nat \ {0}

NoFd == -1        \* a descriptor member of CgiProcess that is not open

VARIABLES
    open,         \* descriptors open in the server process
    leaked,       \* the open ones nothing refers to any more
    interest,     \* epoll: "none" is not registered, "off" registered for nothing
    conn,         \* Server::clients, by descriptor
    processes,    \* the four tables by descriptor ...
    stdin_map,
    stderr_map,
    client_map,
    pid_map,      \* ... and the keys of the one by pid
    proc,         \* the CgiProcess objects, by pid
    script,       \* the children: kernel state and what their stdout pipe holds
    sigPipe,      \* the self-pipe of the SIGCHLD handler is readable
    loop          \* "poll", or "reap" inside the waitpid loop

tables == <<processes, stdin_map, stderr_map, client_map, pid_map>>
vars == <<open, leaked, interest, conn, tables, proc, script, sigPipe, loop>>

ClientCon == [up: BOOLEAN, cgi_active: BOOLEAN, keep_alive: BOOLEAN,
              close_after_send: BOOLEAN, res_ready: BOOLEAN,
              unsent: Nat,              \* response_out.size() - sent
              cgi_streaming: BOOLEAN,
              cgi_body_remaining: Nat]

CgiProcess == [client: Fds \cup {NoFd}, stdin: Fds \cup {NoFd},
               stdout: Fds \cup {NoFd}, stderr: Fds \cup {NoFd},
               pending: Nat,            \* stdin_buffer.size() - stdin_offset
               headers_complete: BOOLEAN, force_close: BOOLEAN,
               pause_stdout: BOOLEAN]

Script == [st: {"none", "run", "exited", "failed"},
           head: {"unwritten", "bad", "length", "nolength", "read"},
           body: Nat]

Interest == {"none", "off", "read", "write"}

NoConn == [up |-> FALSE, cgi_active |-> FALSE, keep_alive |-> FALSE,
           close_after_send |-> FALSE, res_ready |-> FALSE, unsent |-> 0,
           cgi_streaming |-> FALSE, cgi_body_remaining |-> 0]

NewConn == [NoConn EXCEPT !.up = TRUE]

NoProcess == [client |-> NoFd, stdin |-> NoFd, stdout |-> NoFd, stderr |-> NoFd,
              pending |-> 0, headers_complete |-> FALSE, force_close |-> FALSE,
              pause_stdout |-> FALSE]

Silent(st) == [st |-> st, head |-> "unwritten", body |-> 0]

Live(p) == proc[p].stdout # NoFd

\* Variant: the stderr pipe is forgotten when the process ends.
HandlesWithoutStderr(p) == {proc[p].stdin, proc[p].stdout} \ {NoFd}

Handles(p) == {proc[p].stdin, proc[p].stdout, proc[p].stderr} \ {NoFd}

FreeFds == Fds \ open

\* The kernel hands out the lowest free descriptor; the k-th one it hands out.
NthLowest(S, k) == {f \in S : Cardinality({g \in S : g < f}) = k - 1}

-----------------------------------------------------------------------------
Init ==
    /\ open = {} /\ leaked = {}
    /\ interest = [f \in Fds |-> "none"]
    /\ conn = [f \in Fds |-> NoConn]
    /\ processes = [f \in Fds |-> NoProc]
    /\ stdin_map = [f \in Fds |-> NoProc]
    /\ stderr_map = [f \in Fds |-> NoProc]
    /\ client_map = [f \in Fds |-> NoProc]
    /\ pid_map = {}
    /\ proc = [p \in Pids |-> NoProcess]
    /\ script = [p \in Pids |-> Silent("none")]
    /\ sigPipe = FALSE /\ loop = "poll"

-----------------------------------------------------------------------------
(* What a CGI process's end does.                                          *)

\* Variants of the next definition: a client left with nothing to send and no
\* keep-alive is not closed; a response cut short is taken for a whole one; a
\* script that fails before its header block leaves the request unanswered.
AfterCgiWithoutClose(k, q, reason) ==
    IF q.headers_complete
      THEN [k EXCEPT !.cgi_active = FALSE,
                     !.keep_alive = @ /\ ~q.force_close /\ reason = "Normal"]
      ELSE [k EXCEPT !.cgi_active = FALSE, !.unsent = 1, !.res_ready = TRUE,
                     !.keep_alive = FALSE, !.close_after_send = TRUE]

AfterCgiWhateverReason(k, q, reason) ==
    IF q.headers_complete
      THEN [k EXCEPT !.cgi_active = FALSE, !.keep_alive = @ /\ ~q.force_close,
                     !.res_ready = @ \/ (k.unsent = 0 /\ ~k.keep_alive)]
      ELSE [k EXCEPT !.cgi_active = FALSE, !.unsent = 1, !.res_ready = TRUE,
                     !.keep_alive = FALSE, !.close_after_send = TRUE]

AfterCgiUnanswered(k, q, reason) ==
    [k EXCEPT !.cgi_active = FALSE,
              !.keep_alive = @ /\ q.headers_complete /\ ~q.force_close]

\* What the client's state becomes when its CGI process ends and the client
\* is still there: a response already started is only completed or cut, one
\* that was not is replaced by an error page.
AfterCgi(k, q, reason) ==
    LET answered ==
          IF q.headers_complete
            THEN [k EXCEPT !.keep_alive = @ /\ ~q.force_close /\ reason = "Normal"]
            ELSE [k EXCEPT !.unsent = 1, !.res_ready = TRUE,
                           !.keep_alive = FALSE, !.close_after_send = TRUE]
    IN  [answered EXCEPT
           !.cgi_active = FALSE,
           !.res_ready = @ \/ (answered.unsent = 0 /\ ~answered.keep_alive)]

\* Variant: polled for writing only if there are bytes to write.
ArmedForBytes(k) == IF k.unsent > 0 THEN "write" ELSE "read"

\* The poller interest of a client that is not waiting for a script.
Armed(k) == IF k.res_ready \/ k.unsent > 0 THEN "write" ELSE "read"

\* SIGTERM and one waitpid(WNOHANG), which reaps a child that had exited or
\* dies that fast; one it does not reap is a zombie until SIGCHLD is served.
Killed(st) == IF st = "run" THEN {"none", "exited"} ELSE {"none"}

\* cleanupProcess up to the client: leave every table, close the pipes, kill
\* the child.  "gone" is also closed, "arm" is the interest of every other
\* descriptor.
Release(p, arm, gone) ==
    /\ processes' = [f \in Fds |-> IF f = proc[p].stdout THEN NoProc ELSE processes[f]]
    /\ stdin_map' = [f \in Fds |-> IF f = proc[p].stdin THEN NoProc ELSE stdin_map[f]]
    /\ stderr_map' = [f \in Fds |-> IF f = proc[p].stderr THEN NoProc ELSE stderr_map[f]]
    /\ client_map' = [f \in Fds |-> IF f = proc[p].client THEN NoProc ELSE client_map[f]]
    /\ pid_map' = pid_map \ {p}
    /\ open' = open \ (Handles(p) \cup gone)
    /\ interest' = [f \in Fds |-> IF f \in Handles(p) \cup gone THEN "none" ELSE arm[f]]
    /\ proc' = [proc EXCEPT ![p] = NoProcess]
    /\ \E st \in Killed(script[p].st) : script' = [script EXCEPT ![p] = Silent(st)]
    /\ sigPipe' = (sigPipe \/ script[p].st = "run")

\* cleanupProcess for every reason but ClientGone; k and q are the client and
\* the process as the handler left them.
CleanupProcess(p, q, k, reason) ==
    LET c == proc[p].client
        after == AfterCgi(k, q, reason)
    IN  /\ Release(p, [interest EXCEPT ![c] = Armed(after)], {})
        /\ conn' = [conn EXCEPT ![c] = after]

\* Variant: the connection goes away without handleClientClose.
CloseClientAlone(c) ==
    /\ conn' = [conn EXCEPT ![c] = NoConn]
    /\ open' = open \ {c}
    /\ interest' = [interest EXCEPT ![c] = "none"]
    /\ UNCHANGED <<tables, proc, script, sigPipe, leaked, loop>>

\* close_client, handleClientClose with ClientGone included.
CloseClient(c) ==
    /\ conn' = [conn EXCEPT ![c] = NoConn]
    /\ \/ /\ client_map[c] # NoProc
          /\ Release(client_map[c], interest, {c})
       \/ /\ client_map[c] = NoProc
          /\ open' = open \ {c}
          /\ interest' = [interest EXCEPT ![c] = "none"]
          /\ UNCHANGED <<tables, proc, script, sigPipe>>
    /\ UNCHANGED <<leaked, loop>>

-----------------------------------------------------------------------------
(* The server's handlers that open connections and launch scripts.         *)

\* One accept() of new_connection; the next one, which finds nobody, needs a
\* free descriptor too, as the kernel reserves it first.
NewConnection ==
    /\ loop = "poll" /\ Cardinality(FreeFds) >= 2
    /\ Cardinality({c \in Fds : conn[c].up}) < MaxClients
    /\ \E c \in NthLowest(FreeFds, 1):
         /\ open' = open \cup {c}
         /\ conn' = [conn EXCEPT ![c] = NewConn]
         /\ interest' = [interest EXCEPT ![c] = "read"]
    /\ UNCHANGED <<leaked, tables, proc, script, sigPipe, loop>>

\* The server process ends, and every descriptor with it; it is started again
\* (docker-compose restarts the container).  What becomes of its children is no
\* longer its business.
ServerEnds ==
    /\ open' = {} /\ leaked' = {}
    /\ interest' = [f \in Fds |-> "none"]
    /\ conn' = [f \in Fds |-> NoConn]
    /\ processes' = [f \in Fds |-> NoProc]
    /\ stdin_map' = [f \in Fds |-> NoProc]
    /\ stderr_map' = [f \in Fds |-> NoProc]
    /\ client_map' = [f \in Fds |-> NoProc]
    /\ pid_map' = {}
    /\ proc' = [p \in Pids |-> NoProcess]
    /\ script' = [p \in Pids |-> Silent("none")]
    /\ sigPipe' = FALSE /\ UNCHANGED loop

\* accept() fails for want of a descriptor: the exception leaves run() and
\* main(), and everything is shut down.
AcceptFails ==
    /\ loop = "poll" /\ Cardinality(FreeFds) < 2
    /\ Cardinality({c \in Fds : conn[c].up}) < MaxClients
    /\ ServerEnds

\* A connection whose next request is parsed when it comes: read_client looks
\* at nothing but whether the bytes belong to the body of a running script, so
\* a peer that does not wait has a request read while its last one is served.
Idle(c) == /\ conn[c].up /\ ~(conn[c].cgi_active /\ conn[c].cgi_streaming)
           /\ ~conn[c].res_ready /\ interest[c] = "read"

\* A client whose answer is ready to be sent.  It takes the place of what was
\* in response_out; one unit also stands for a file and what is left of it.
Answering(k, ka) == [k EXCEPT !.keep_alive = ka, !.res_ready = TRUE, !.unsent = 1]

\* A request answered at once: any handler that is not a CGI script, an error,
\* or a script whose fork failed after its pipes were made.
Respond(c) ==
    /\ loop = "poll" /\ Idle(c)
    /\ \E ka \in BOOLEAN : conn' = [conn EXCEPT ![c] = Answering(@, ka)]
    /\ interest' = [interest EXCEPT ![c] = "write"]
    /\ UNCHANGED <<open, leaked, tables, proc, script, sigPipe, loop>>

\* The request of an upload: whether the connection lasts is decided here, the
\* answer follows with its last byte.
BeginUpload(c) ==
    /\ loop = "poll" /\ Idle(c)
    /\ \E ka \in BOOLEAN : conn' = [conn EXCEPT ![c].keep_alive = ka]
    /\ UNCHANGED <<open, leaked, interest, tables, proc, script, sigPipe, loop>>

\* The ends of the pipes that fit under the descriptor limit.
MadePipes == UNION {NthLowest(FreeFds, k) : k \in 1 .. 2 * (Cardinality(FreeFds) \div 2)}

\* launch() when one of its three pipe() calls fails: the ends of the pipes
\* made before it are never closed.  The caller answers 502.
PipesFail(c) ==
    /\ loop = "poll" /\ Idle(c)
    /\ Cardinality(FreeFds) < 6
    /\ open' = open \cup MadePipes /\ leaked' = leaked \cup MadePipes
    /\ \E ka \in BOOLEAN : conn' = [conn EXCEPT ![c] = Answering(@, ka)]
    /\ interest' = [interest EXCEPT ![c] = "write"]
    /\ UNCHANGED <<tables, proc, script, sigPipe, loop>>

\* A client whose script has just been launched; a request without a body does
\* not touch the streaming state.
Running(k, ka, body, chunked, rest) ==
    [k EXCEPT !.cgi_active = TRUE, !.keep_alive = ka,
              !.cgi_streaming = IF body THEN chunked \/ rest > 0 ELSE @,
              !.cgi_body_remaining = IF body THEN rest ELSE @]

\* The process object of a script launched with "first" units of body at hand;
\* its stdin is closed at once if there is no body.
Started(c, in, out, err, body, first) ==
    [NoProcess EXCEPT !.client = c, !.stdin = IF body THEN in ELSE NoFd,
                      !.stdout = out, !.stderr = err, !.pending = first]

\* The tables, descriptors and child of a launched process.
LaunchAs(c, p, in, out, err, body) ==
    /\ stdin_map' = IF body THEN [stdin_map EXCEPT ![in] = p] ELSE stdin_map
    /\ processes' = [processes EXCEPT ![out] = p]
    /\ stderr_map' = [stderr_map EXCEPT ![err] = p]
    /\ client_map' = [client_map EXCEPT ![c] = p]
    /\ pid_map' = pid_map \cup {p}
    /\ open' = open \cup {out, err} \cup (IF body THEN {in} ELSE {})
    /\ interest' = [f \in Fds |-> IF f = in /\ body THEN "write"
                                  ELSE IF f \in {out, err} THEN "read"
                                  ELSE interest[f]]
    /\ script' = [script EXCEPT ![p] = Silent("run")]

\* A launch that succeeds, of process p with the parent's pipe ends.
LaunchWith(c, p, in, out, err, first, rest, chunked, ka) ==
    LET body == chunked \/ first > 0 \/ rest > 0
    IN  /\ ~Live(p) /\ script[p].st = "none"
        /\ LaunchAs(c, p, in, out, err, body)
        /\ proc' = [proc EXCEPT ![p] = Started(c, in, out, err, body, first)]
        /\ conn' = [conn EXCEPT ![c] = Running(@, ka, body, chunked, rest)]

\* Environment: a peer asks for a second script only when it has the answer of
\* the first.  (The code would let the second launch overwrite client_map.)
WaitsForScript(c) == ~conn[c].cgi_active

\* handleCgiRequest and launch().  Of the request's body, "first" units came
\* with the headers and "rest" are still to come (for a chunked body, which has
\* no known length, cgi_body_remaining stands for what the client will send).
\* The child's ends of the three pipes are closed again by the parent, so it
\* keeps the second, third and fifth of the six descriptors.  The client stays
\* registered for reading.  The finishStdin calls of handleCgiRequest find
\* stdin closed or its buffer not drained.
Launch(c) ==
    /\ loop = "poll" /\ Idle(c) /\ WaitsForScript(c)
    /\ Cardinality(FreeFds) >= 6
    /\ \E p \in Pids, in \in NthLowest(FreeFds, 2), out \in NthLowest(FreeFds, 3),
          err \in NthLowest(FreeFds, 5), first \in 0 .. MaxBody, rest \in 0 .. MaxBody,
          chunked \in BOOLEAN, ka \in BOOLEAN :
         /\ first + rest <= MaxBody /\ (chunked => MaxBody > 0)
         /\ LaunchWith(c, p, in, out, err, first, rest, chunked, ka)
    /\ UNCHANGED <<leaked, sigPipe, loop>>

-----------------------------------------------------------------------------
(* Request body on its way to the script.                                  *)

\* Variant: the table entry outlives the descriptor.
CloseStdinKeepsEntry(p) ==
    /\ UNCHANGED stdin_map
    /\ open' = open \ {proc[p].stdin}
    /\ interest' = [interest EXCEPT ![proc[p].stdin] = "none"]
    /\ proc' = [proc EXCEPT ![p] = [@ EXCEPT !.stdin = NoFd, !.pending = 0]]

\* Remove, close and forget the stdin of p.
CloseStdin(p) ==
    /\ stdin_map' = [stdin_map EXCEPT ![proc[p].stdin] = NoProc]
    /\ open' = open \ {proc[p].stdin}
    /\ interest' = [interest EXCEPT ![proc[p].stdin] = "none"]
    /\ proc' = [proc EXCEPT ![p] = [@ EXCEPT !.stdin = NoFd, !.pending = 0]]

\* The part of one read that belongs to the body.
Feedable(c) == 0 .. conn[c].cgi_body_remaining

Receiving(k, n, done) == [k EXCEPT !.cgi_streaming = ~done, !.cgi_body_remaining = @ - n]

\* The streaming branch of read_client: feedStdin, which drops the data when
\* stdin is closed, then finishStdin when the body is complete.  A chunked
\* body's terminator may come with its last data or alone.
FeedBody(c) ==
    /\ loop = "poll"
    /\ conn[c].up /\ conn[c].cgi_active /\ conn[c].cgi_streaming
    /\ interest[c] = "read"
    /\ \E n \in Feedable(c), done \in BOOLEAN:
         LET p == client_map[c]
         IN  /\ done => n = conn[c].cgi_body_remaining
             /\ conn' = [conn EXCEPT ![c] = Receiving(@, n, done)]
             /\ IF p = NoProc \/ proc[p].stdin = NoFd
                  THEN UNCHANGED <<stdin_map, open, interest, proc>>
                  ELSE IF done /\ proc[p].pending + n = 0
                  THEN CloseStdin(p)
                  ELSE /\ proc' = [proc EXCEPT ![p].pending = @ + n]
                       /\ interest' = IF n > 0
                                        THEN [interest EXCEPT ![proc[p].stdin] = "write"]
                                        ELSE interest
                       /\ UNCHANGED <<stdin_map, open>>
    /\ UNCHANGED <<leaked, processes, stderr_map, client_map, pid_map, script,
                   sigPipe, loop>>

\* handleEvent on a writable stdin: an empty buffer closes it, and so does a
\* write that empties the buffer.  A write whose reader is gone raises SIGPIPE,
\* which nothing in the program ignores: it ends the server, or, where the
\* kernel spares it as the first process of its container, fails and closes
\* stdin.
HandleStdin(f) ==
    /\ loop = "poll"
    /\ stdin_map[f] # NoProc /\ interest[f] = "write"
    /\ LET p == stdin_map[f]
           gone == script[p].st # "run"
       IN  \/ /\ proc[p].pending > 0 /\ gone
              /\ ServerEnds
           \/ /\ \/ /\ proc[p].pending = 0 \/ gone
                    /\ CloseStdin(p)
                 \/ /\ ~gone
                    /\ \E n \in 1 .. proc[p].pending:
                         IF n = proc[p].pending
                           THEN CloseStdin(p)
                           ELSE /\ proc' = [proc EXCEPT ![p].pending = @ - n]
                                /\ UNCHANGED <<stdin_map, open, interest>>
              /\ UNCHANGED <<leaked, conn, processes, stderr_map, client_map,
                             pid_map, script, sigPipe, loop>>

-----------------------------------------------------------------------------
(* Response data on its way from the script to the client.                 *)

AtEof(p) == script[p].st # "run"

HasOutput(p) == script[p].head \notin {"unwritten", "read"} \/ script[p].body > 0

\* Variant: what the script left in its pipe when it ended is not read.
ForwardedUntilExit(k, p) ==
    IF ~HasOutput(p) \/ (AtEof(p) /\ script[p].head = "read") THEN k
    ELSE [k EXCEPT !.unsent = @ + 1, !.res_ready = TRUE]

\* The read loop of handleEvent on stdout, up to its last read(): emitResponse
\* once the header block is there, forwardBody for the rest.  A response
\* without a Content-Length can only be ended by closing the connection.
Forwarded(k, p) ==
    LET header == IF script[p].head = "read" THEN 0 ELSE 1
        bare == script[p].head = "nolength"
    IN  IF ~HasOutput(p) THEN k
        ELSE [k EXCEPT !.unsent = @ + header + script[p].body,
                       !.res_ready = TRUE,
                       !.close_after_send = @ \/ bare,
                       !.keep_alive = @ /\ ~bare]

HandleStdout(f) ==
    /\ loop = "poll"
    /\ processes[f] # NoProc
    /\ LET p == processes[f]
           c == proc[p].client
           bad == script[p].head = "bad" \/ (AtEof(p) /\ script[p].head = "unwritten")
           q == [proc[p] EXCEPT !.headers_complete = @ \/ ~bad,
                                !.force_close = @ \/ script[p].head = "nolength"]
           k == Forwarded(conn[c], p)
           stalled == q.pause_stdout \/ k.unsent > Threshold
       IN  /\ AtEof(p) \/ (interest[f] = "read" /\ HasOutput(p))
           /\ \/ /\ bad
                 /\ CleanupProcess(p, proc[p], conn[c], "InvalidHeaders")
              \/ /\ ~bad /\ AtEof(p)
                 /\ CleanupProcess(p, q, k, "Normal")
              \/ /\ ~bad /\ ~AtEof(p)
                 /\ proc' = [proc EXCEPT ![p] = [q EXCEPT !.pause_stdout = stalled]]
                 /\ conn' = [conn EXCEPT ![c] = k]
                 /\ interest' = [interest EXCEPT ![c] = "write",
                                                 ![f] = IF stalled THEN "off" ELSE @]
                 /\ script' = [script EXCEPT ![p] = [@ EXCEPT !.head = "read", !.body = 0]]
                 /\ UNCHANGED <<open, tables, sigPipe>>
    /\ UNCHANGED <<leaked, loop>>

\* End of file on stderr, which a script's exit brings.  Data on it is logged.
HandleStderr(f) ==
    /\ loop = "poll"
    /\ stderr_map[f] # NoProc /\ AtEof(stderr_map[f])
    /\ stderr_map' = [stderr_map EXCEPT ![f] = NoProc]
    /\ open' = open \ {f}
    /\ interest' = [interest EXCEPT ![f] = "none"]
    /\ proc' = [proc EXCEPT ![stderr_map[f]].stderr = NoFd]
    /\ UNCHANGED <<leaked, conn, processes, stdin_map, client_map, pid_map, script,
                   sigPipe, loop>>

-----------------------------------------------------------------------------
(* The client side of the response.                                        *)

\* The interest and the processes after notifyClientWritable(c): a script
\* paused for this client is read again, whatever is still unsent.
Resumes(c) == client_map[c] # NoProc /\ proc[client_map[c]].pause_stdout

Unpaused(c) == IF Resumes(c)
                 THEN [proc EXCEPT ![client_map[c]].pause_stdout = FALSE]
                 ELSE proc

\* Variant: the pause is lifted without telling the poller.
NotReopened(c) == interest

Reopened(c) == IF Resumes(c)
                 THEN [interest EXCEPT ![proc[client_map[c]].stdout] = "read"]
                 ELSE interest

\* Variant: a client with nothing left to send is read again, its script or not.
ReadWhenDrained(c) == "read"

\* What a client with nothing left to send is polled for (finalize_response_write).
DrainedInterest(c) == IF conn[c].cgi_active THEN "off" ELSE "read"

\* client_write sends n units of what is waiting, or finds nothing to send.
\* When nothing is left, finalize_response_write closes the connection, puts
\* it back to reading, or, with the script still running, waits for that.
ClientWrite(c) ==
    /\ loop = "poll"
    /\ conn[c].up /\ conn[c].res_ready /\ interest[c] = "write"
    /\ \E n \in 0 .. conn[c].unsent:
         LET done == n = conn[c].unsent
             lasting == conn[c].keep_alive /\ ~conn[c].close_after_send
             sent == [conn[c] EXCEPT !.unsent = @ - n, !.res_ready = ~done]
             wakes == IF n > 0 /\ conn[c].cgi_active THEN Reopened(c) ELSE interest
         IN  /\ conn[c].unsent > 0 => n > 0
             /\ IF done /\ ~conn[c].cgi_active /\ ~lasting
                  THEN CloseClient(c)
                  ELSE /\ conn' = [conn EXCEPT ![c] = sent]
                       /\ proc' = IF n > 0 /\ conn[c].cgi_active THEN Unpaused(c) ELSE proc
                       /\ interest' = IF ~done THEN wakes
                                      ELSE [wakes EXCEPT ![c] = DrainedInterest(c)]
                       /\ UNCHANGED <<open, leaked, tables, script, sigPipe, loop>>

\* The peer closes or breaks the connection (read_client, client_write), sends
\* a malformed chunk, or is silent for too long (check_timeouts).
ClientLeaves(c) == loop = "poll" /\ conn[c].up /\ CloseClient(c)

-----------------------------------------------------------------------------
(* The end of scripts.                                                     *)

\* checkTimeouts, for one of the processes that are idle or too old: every
\* one it finds is cleaned up in turn.  Both limits are positive, so every
\* process gets there.
Expire(p) ==
    /\ loop = "poll" /\ Live(p)
    /\ CleanupProcess(p, proc[p], conn[proc[p].client], "Timeout")
    /\ UNCHANGED <<leaked, loop>>

\* handle_signal_pipe: empty the pipe first, then collect every dead child.
HandleSignalPipe ==
    /\ loop = "poll" /\ sigPipe
    /\ sigPipe' = FALSE /\ loop' = "reap"
    /\ UNCHANGED <<open, leaked, interest, conn, tables, proc, script>>

\* One waitpid() of reap_children and handleChildExit for what it returned.
ReapChild(p) ==
    /\ loop = "reap" /\ script[p].st \in {"exited", "failed"}
    /\ IF p \in pid_map /\ script[p].st = "failed" /\ ~proc[p].headers_complete
         THEN CleanupProcess(p, proc[p], conn[proc[p].client], "ExecFailure")
         ELSE /\ pid_map' = pid_map \ {p}
              /\ script' = [script EXCEPT ![p].st = "none"]
              /\ UNCHANGED <<open, interest, conn, processes, stdin_map, stderr_map,
                             client_map, proc, sigPipe>>
    /\ UNCHANGED <<leaked, loop>>

\* Variant: one waitpid() per SIGCHLD.
ReapOnce ==
    /\ loop = "reap" /\ loop' = "poll"
    /\ UNCHANGED <<open, leaked, interest, conn, tables, proc, script, sigPipe>>

\* waitpid() finds no dead child.
ReapDone ==
    /\ loop = "reap" /\ \A p \in Pids : script[p].st \notin {"exited", "failed"}
    /\ loop' = "poll"
    /\ UNCHANGED <<open, leaked, interest, conn, tables, proc, script, sigPipe>>

-----------------------------------------------------------------------------
(* The scripts: arbitrary programs under the kernel's pipes and signals.   *)

ScriptWrites(p) ==
    /\ script[p].st = "run"
    /\ IF script[p].head = "unwritten"
         THEN \E h \in HeaderKinds : script' = [script EXCEPT ![p].head = h]
         ELSE /\ script[p].head # "bad" /\ script[p].body < PipeCap
              /\ Live(p) => conn[proc[p].client].unsent + script[p].body < MaxBacklog
              /\ script' = [script EXCEPT ![p].body = @ + 1]
    /\ UNCHANGED <<open, leaked, interest, conn, tables, proc, sigPipe, loop>>

ScriptExits(p) ==
    /\ script[p].st = "run"
    /\ \E st \in {"exited", "failed"} : script' = [script EXCEPT ![p].st = st]
    /\ sigPipe' = TRUE
    /\ UNCHANGED <<open, leaked, interest, conn, tables, proc, loop>>

-----------------------------------------------------------------------------
Next ==
    \/ NewConnection \/ AcceptFails
    \/ \E c \in Fds : Respond(c) \/ BeginUpload(c) \/ PipesFail(c) \/ Launch(c)
                      \/ FeedBody(c) \/ ClientWrite(c) \/ ClientLeaves(c)
    \/ \E f \in Fds : HandleStdin(f) \/ HandleStdout(f) \/ HandleStderr(f)
    \/ \E p \in Pids : Expire(p) \/ ReapChild(p) \/ ScriptWrites(p) \/ ScriptExits(p)
    \/ HandleSignalPipe \/ ReapDone

Spec == Init /\ [][Next]_vars

\* What the event loop and the kernel give.  A client keeps reading (the client
\* timeout closes one that does not) and is written to again and again, as a
\* round of the loop serves every ready descriptor; the timeout pass that ends
\* every round finds every process too old some day; a readable self-pipe and
\* the waitpid loop are always served.  Nothing is assumed of scripts.
Fairness ==
    /\ \A c \in Fds : SF_vars(ClientWrite(c))
    /\ \A p \in Pids : SF_vars(Expire(p)) /\ WF_vars(ReapChild(p))
    /\ WF_vars(HandleSignalPipe) /\ WF_vars(ReapDone)

FairSpec == Spec /\ Fairness

-----------------------------------------------------------------------------
(* Properties.                                                             *)

\* Types of the tables, the objects and the kernel's part.
TypeOK ==
    /\ open \subseteq Fds /\ leaked \subseteq Fds
    /\ interest \in [Fds -> Interest]
    /\ conn \in [Fds -> ClientCon]
    /\ processes \in [Fds -> Pids \cup {NoProc}]
    /\ stdin_map \in [Fds -> Pids \cup {NoProc}]
    /\ stderr_map \in [Fds -> Pids \cup {NoProc}]
    /\ client_map \in [Fds -> Pids \cup {NoProc}]
    /\ pid_map \subseteq Pids
    /\ proc \in [Pids -> CgiProcess]
    /\ script \in [Pids -> Script]
    /\ sigPipe \in BOOLEAN /\ loop \in {"poll", "reap"}

\* The five tables hold raw pointers into the objects that "processes" owns:
\* at no point between two handlers does one of them name a process that is
\* gone, or miss or misplace one that is there.
TablesAgree ==
    /\ \A p \in Pids, f \in Fds :
         /\ processes[f] = p <=> proc[p].stdout = f
         /\ stdin_map[f] = p <=> proc[p].stdin = f
         /\ stderr_map[f] = p <=> proc[p].stderr = f
         /\ client_map[f] = p <=> proc[p].client = f
    /\ \A p \in pid_map : Live(p)

\* The ClientCon a live process points to exists and is waiting for this very
\* process; a connection waits for a script only while there is one.
ClientsAgree ==
    /\ \A p \in Pids : Live(p) =>
         /\ proc[p].client \in Fds
         /\ conn[proc[p].client].up /\ conn[proc[p].client].cgi_active
    /\ \A c \in Fds : conn[c].cgi_active => client_map[c] # NoProc

\* Every open descriptor has exactly one owner that will close it, except the
\* ones a half-failed launch lost; what is closed or lost is not polled.
Owners(f) == {r \in {"client", "in", "out", "err", "lost"} :
                \/ r = "client" /\ conn[f].up
                \/ r = "in" /\ stdin_map[f] # NoProc
                \/ r = "out" /\ processes[f] # NoProc
                \/ r = "err" /\ stderr_map[f] # NoProc
                \/ r = "lost" /\ f \in leaked}

OneOwner == \A f \in Fds :
    /\ f \in open <=> Owners(f) # {}
    /\ \A r, s \in Owners(f) : r = s
    /\ interest[f] # "none" <=> f \in open \ leaked

\* A script's output is not read only while more than the threshold waits for
\* its client, whose next progress will have it read again.
PausedHasBacklog == \A p \in Pids : Live(p) =>
    /\ proc[p].pause_stdout <=> interest[proc[p].stdout] = "off"
    /\ proc[p].pause_stdout => /\ conn[proc[p].client].unsent > Threshold
                               /\ interest[proc[p].client] = "write"

\* From the first byte of a script's response to the end of its process its
\* client is not polled for reading, whatever is sent, drained, paused and
\* resumed in between: a request of a peer that does not wait would be answered
\* in place of the response's bytes in response_out.
\* (finalize_response_write: "Keep reads disabled until the CGI manager
\* finishes the process".)
RelayUndisturbed == \A p \in Pids :
    Live(p) /\ proc[p].headers_complete => interest[proc[p].client] # "read"

\* What the proofs add about it: bytes to send are always announced, and the
\* process knows how much of the header block has been read.
RelayBookkeeping == \A p \in Pids : Live(p) =>
    /\ conn[proc[p].client].unsent > 0 => conn[proc[p].client].res_ready
    /\ proc[p].headers_complete <=> script[p].head = "read"
    /\ proc[p].force_close <=> conn[proc[p].client].close_after_send

\* A connection is never wedged: with data to send or a close to perform it
\* polls for writing, with neither for reading, and with nothing polled there
\* is a script whose end re-arms it.
ClientArmed == \A c \in Fds : conn[c].up =>
    /\ conn[c].res_ready => interest[c] = "write"
    /\ ~conn[c].cgi_active /\ ~conn[c].res_ready =>
         interest[c] = "read" /\ conn[c].unsent = 0 /\ ~conn[c].close_after_send
    /\ interest[c] = "off" => conn[c].cgi_active

\* No script runs that no process object watches, and no dead child is
\* forgotten: while one is uncollected the self-pipe is readable or the
\* waitpid loop is under way.
ChildrenWatched == \A p \in Pids :
    /\ script[p].st = "run" => Live(p) /\ p \in pid_map
    /\ p \in pid_map => script[p].st # "none"
    /\ script[p].st \in {"exited", "failed"} => sigPipe \/ loop = "reap"

\* What the proofs add: objects and connections that are gone keep nothing, and
\* each pipe is polled for what its direction allows.
NothingStale == /\ \A p \in Pids : ~Live(p) => proc[p] = NoProcess
                /\ \A c \in Fds : ~conn[c].up => conn[c] = NoConn

PipesPolled == \A f \in Fds :
    /\ stdin_map[f] # NoProc => interest[f] = "write"
    /\ processes[f] # NoProc => interest[f] \in {"read", "off"}
    /\ stderr_map[f] # NoProc => interest[f] = "read"

Structure == TablesAgree /\ ClientsAgree /\ OneOwner /\ NothingStale

\* The inductive invariant: no conjunct above is preserved by every action on
\* its own.
IInv == /\ TypeOK /\ Structure /\ PipesPolled
        /\ PausedHasBacklog /\ RelayUndisturbed /\ RelayBookkeeping
        /\ ClientArmed /\ ChildrenWatched

\* A connection goes from a script's response to reading its next request only
\* if the response has a length of its own, the script is over, and all it ever
\* wrote, what was still in its pipe at the end included, is in the response.
\* (cleanupProcess: force_close and the reason decide keep_alive.)  Nothing is
\* said of a script that wrote less than it announced, as one that fails after
\* its header block does: the code does not compare the two.
Reuse(c) ==
    conn[c].cgi_active /\ conn'[c].up /\ ~conn'[c].cgi_active /\ conn'[c].keep_alive
    => LET p == client_map[c]
           header == IF script[p].head = "read" THEN 0 ELSE 1
       IN  /\ proc[p].headers_complete \/ script[p].head = "length"
           /\ ~proc[p].force_close
           /\ AtEof(p)
           /\ conn'[c].unsent = conn[c].unsent + header + script[p].body

ReuseAfterWholeOutput == [][\A c \in Fds : Reuse(c)]_vars

\* A script is given its whole request body: its stdin stays open while it
\* runs and its client has yet to send some of it (feedStdin, finishStdin).
BodyReachesScript == \A p \in Pids :
    (Live(p) /\ script[p].st = "run") =>
      (conn[proc[p].client].cgi_streaming /\ conn[proc[p].client].cgi_body_remaining > 0
         => proc[p].stdin # NoFd)

\* No dead child stays a zombie.
EveryChildCollected == \A p \in Pids :
    (script[p].st \in {"exited", "failed"}) ~> (script[p].st = "none")
=============================================================================
