----------------------------- MODULE EventLoop ------------------------------
(***************************************************************************)
(* The event loop of CatSurf (Server::run in tools/src/server/server.cpp): *)
(* a batch of ready descriptors is taken from epoll and its events are     *)
(* handled one after the other, then two sweeps drop the connections that  *)
(* have drained and those that have been idle.  The handlers accept,       *)
(* read a request, stream a static file, drain an answer, serve the pipes  *)
(* of a CGI script and reap it.  What a handler closes goes back to the    *)
(* kernel at once, so that a number a later event of the same batch names  *)
(* may belong to somebody else by then.                                    *)
(*                                                                         *)
(* A peer sends a request whole and waits for its answer; how requests are *)
(* cut into reads is the subject of Connection, how scripts are streamed   *)
(* that of CgiManager.  Here a script writes one unit of response, or      *)
(* fails.  Data is counted in units.                                       *)
(***************************************************************************)
EXTENDS Integers, Sequences, FiniteSets, SequencesExt, FiniteSetsExt

CONSTANTS
    Fds,          \* the descriptors the process may have open
    Peers,        \* TCP clients
    NoPeer,
    Kinds,        \* what peers ask for, among "answer", "file" and "script"
    FileLens,     \* the lengths of the files they ask for, in units
    FileBuf,      \* file_buf.size(), in units
    MaxEvents,    \* what one epoll_wait returns at most: 64 in the code
    Expiry,       \* connections and scripts may run into their timeouts
    Resets,       \* peers may reset their connections
    MaxRequests   \* bound: requests of a peer

ASSUME LoopAssumption ==
    /\ Fds \subseteq Nat /\ IsFiniteSet(Fds)
    /\ IsFiniteSet(Peers) /\ NoPeer \notin Peers
    /\ Kinds \subseteq {"answer", "file", "script"}
    /\ FileLens \subseteq Nat /\ FileBuf \in Nat \ {0}
    /\ MaxEvents \in Nat \ {0}
    /\ {Expiry, Resets} \subseteq BOOLEAN /\ MaxRequests \in Nat

NoFd == -1
Listen == -2      \* the listening socket, open for as long as the server is
Signal == -3      \* signal_pipe[0], likewise

VARIABLES
    srv,          \* the server process: descriptors, epoll, connections, scripts
    peer,         \* the clients as they see themselves
    sigchld,      \* the self-pipe of the SIGCHLD handler is readable
    batch,        \* the events poller->wait returned and nobody has handled
    phase         \* "wait" or "dispatch"

vars == <<srv, peer, sigchld, batch, phase>>

ClientCon == [peer: Peers \cup {NoPeer}, keep_alive: BOOLEAN, cgi_active: BOOLEAN,
              res_ready: BOOLEAN, close_after_send: BOOLEAN,
              out: Nat,                   \* response_out.size() - sent
              file_fd: Fds \cup {NoFd},   \* file_stream_active iff not NoFd
              file_bytes_remaining: Nat,
              file_buf: Nat]              \* file_buf_len - file_buf_off

NoConn == [peer |-> NoPeer, keep_alive |-> FALSE, cgi_active |-> FALSE,
           res_ready |-> FALSE, close_after_send |-> FALSE, out |-> 0,
           file_fd |-> NoFd, file_bytes_remaining |-> 0, file_buf |-> 0]

Script == [st: {"none", "run", "exited", "failed"}, stdout: Fds \cup {NoFd},
           stderr: Fds \cup {NoFd}, wrote: {0, 1},   \* units in the stdout pipe
           headers_complete: BOOLEAN]

NoScript == [st |-> "none", stdout |-> NoFd, stderr |-> NoFd, wrote |-> 0,
             headers_complete |-> FALSE]

Peer == [st: {"away", "knocking", "there", "reset"}, asked: 0 .. MaxRequests,
         sent: Kinds \cup {"none"},       \* the request in the server's socket
         waiting: BOOLEAN,                \* sent a request, answer not all here
         due: Nat]                        \* announced to it and not received

Server == [desc: [Fds -> {"free", "client", "file", "pipe", "lost"}],
           interest: [Fds -> {"none", "off", "read", "write"}],
           conn: [Fds -> ClientCon],
           script: [Fds -> Script]]       \* by the client's descriptor

PollEvent == [fd: Fds \cup {Listen, Signal}, readable: BOOLEAN, writable: BOOLEAN]

Up(f) == srv.conn[f].peer # NoPeer
Conns == {f \in Fds : Up(f)}

NewServer == [desc |-> [f \in Fds |-> "free"], interest |-> [f \in Fds |-> "none"],
              conn |-> [f \in Fds |-> NoConn], script |-> [f \in Fds |-> NoScript]]

Init ==
    /\ srv = NewServer
    /\ peer = [p \in Peers |-> [st |-> "away", asked |-> 0, sent |-> "none",
                                waiting |-> FALSE, due |-> 0]]
    /\ sigchld = FALSE /\ batch = <<>> /\ phase = "wait"

-----------------------------------------------------------------------------
(* The operations handlers are made of; s is the server they act on.  One  *)
(* that takes a set F of connections does to each of them what the code    *)
(* does to one: they share no descriptor, so their order is of no account. *)

Free(s) == {f \in Fds : s.desc[f] = "free"}
Below(s, f) == Cardinality({g \in Free(s) : g < f})

\* The kernel hands out the lowest free descriptor: the n it hands out next,
\* or as many as it has; and the k-th of them alone, if there are so many.
Lowest(s, n) == {f \in Free(s) : Below(s, f) < n}
NthLowest(s, k) == {f \in Free(s) : Below(s, f) = k - 1}

Open(s, f, kind) == [s EXCEPT !.desc[f] = kind]

\* poller.remove() and close() of the descriptors in D.
Close(s, D) == [s EXCEPT
    !.desc = [f \in Fds |-> IF f \in D THEN "free" ELSE @[f]],
    !.interest = [f \in Fds |-> IF f \in D THEN "none" ELSE @[f]]]

Arm(s, f, how) == [s EXCEPT !.interest[f] = how]

Pipes(s, f) == {s.script[f].stdout, s.script[f].stderr} \ {NoFd}

\* A script's end as its connection k sees it: a response that has begun is
\* completed or cut, any other end is answered by an error page.
AfterScript(k, q, reason) ==
    CASE reason = "ClientGone" -> [k EXCEPT !.cgi_active = FALSE]
      [] q.headers_complete /\ reason # "ClientGone" ->
           LET lasts == k.keep_alive /\ reason = "Normal"
           IN  [k EXCEPT !.cgi_active = FALSE, !.keep_alive = lasts,
                         !.res_ready = @ \/ (k.out = 0 /\ ~lasts)]
      [] OTHER -> [k EXCEPT !.cgi_active = FALSE, !.out = 1, !.res_ready = TRUE,
                            !.keep_alive = FALSE, !.close_after_send = TRUE]

\* The scripts of the connections in F are over: their pipes are closed.
EndScripts(s, F, reason) ==
    [Close(s, UNION {Pipes(s, f) : f \in F}) EXCEPT
        !.conn = [f \in Fds |-> IF f \in F THEN AfterScript(@[f], s.script[f], reason)
                                ELSE @[f]],
        !.script = [f \in Fds |-> IF f \in F THEN NoScript ELSE @[f]]]

\* Variant: the connection is armed again only if something is left to send.
CleanupProcessUnarmed(s, F, reason) ==
    LET t == EndScripts(s, F, reason)
    IN  IF reason = "ClientGone" THEN t
        ELSE [t EXCEPT !.interest = [f \in Fds |->
                 IF f \in F /\ (t.conn[f].res_ready \/ t.conn[f].out > 0) THEN "write"
                 ELSE @[f]]]

CleanupProcess(s, F, reason) ==
    LET t == EndScripts(s, F, reason)
    IN  IF reason = "ClientGone" THEN t
        ELSE [t EXCEPT !.interest = [f \in Fds |->
                 IF f \notin F THEN @[f]
                 ELSE IF t.conn[f].res_ready \/ t.conn[f].out > 0 THEN "write"
                 ELSE "read"]]

NoStream(k) == [k EXCEPT !.file_fd = NoFd, !.file_bytes_remaining = 0, !.file_buf = 0]

\* Variant: the descriptor of the file is forgotten.
ResetStaticFileStreamOnly(s, F) ==
    [s EXCEPT !.conn = [f \in Fds |-> IF f \in F THEN NoStream(@[f]) ELSE @[f]]]

ResetStaticFileStream(s, F) ==
    [Close(s, {s.conn[f].file_fd : f \in F} \ {NoFd}) EXCEPT
        !.conn = [f \in Fds |-> IF f \in F THEN NoStream(@[f]) ELSE @[f]]]

\* Variant: the clients' scripts are left running.
CloseClientOnly(s, F) ==
    [Close(ResetStaticFileStream(s, F), F) EXCEPT
        !.conn = [f \in Fds |-> IF f \in F THEN NoConn ELSE @[f]]]

CloseClient(s, F) ==
    LET scripts == {f \in F : s.script[f].st # "none"}
        t == CleanupProcess(ResetStaticFileStream(s, F), scripts, "ClientGone")
    IN  [Close(t, F) EXCEPT !.conn = [f \in Fds |-> IF f \in F THEN NoConn ELSE @[f]]]

\* Variant: a drained connection stays armed for writing.
FinalizeStillWriting(s, f) ==
    LET k == s.conn[f]
        t == [s EXCEPT !.conn[f].res_ready = FALSE]
    IN  IF k.cgi_active THEN t
        ELSE IF k.close_after_send \/ ~k.keep_alive THEN CloseClient(t, {f})
        ELSE Arm(t, f, "read")

\* Variant: the test of keep_alive is the wrong way round.
FinalizeHangingUp(s, f) ==
    LET k == s.conn[f]
        t == [s EXCEPT !.conn[f].res_ready = FALSE]
    IN  IF k.cgi_active THEN Arm(t, f, "off")
        ELSE IF k.close_after_send \/ k.keep_alive THEN CloseClient(t, {f})
        ELSE Arm(t, f, "read")

\* Everything queued has been sent: wait for the script, close, or go on to
\* the next request.
FinalizeResponseWrite(s, f) ==
    LET k == s.conn[f]
        t == [s EXCEPT !.conn[f].res_ready = FALSE]
    IN  IF k.cgi_active THEN Arm(t, f, "off")
        ELSE IF k.close_after_send \/ ~k.keep_alive THEN CloseClient(t, {f})
        ELSE Arm(t, f, "read")

-----------------------------------------------------------------------------
(* A request: what process_request makes of it, as the set of outcomes, and *)
(* the units of answer its peer now waits for.                              *)

Queue(s, f) == [s EXCEPT !.conn[f].out = 1, !.conn[f].res_ready = TRUE]

\* The n units of the file that was opened as fd follow what is queued for f.
Streaming(s, f, fd, n) ==
    [srv |-> [Open(s, fd, "file") EXCEPT
                !.conn[f] = [@ EXCEPT !.file_fd = fd, !.file_bytes_remaining = n]],
     due |-> 1 + n]

\* The file cannot be opened or is not a regular one; or its header is queued
\* and the rest follows from the descriptor.
StartStaticFileStream(s, f) ==
    LET t == Queue(ResetStaticFileStream(s, {f}), f)
    IN  {[srv |-> t, due |-> 1]}
        \cup {Streaming(t, f, fd, n) : fd \in NthLowest(t, 1), n \in FileLens}

\* The script of f runs, its output read from out and err.
Running(s, f, out, err) ==
    [Arm(Arm(Open(Open(s, out, "pipe"), err, "pipe"), out, "read"), err, "read") EXCEPT
        !.conn[f].cgi_active = TRUE,
        !.script[f] = [NoScript EXCEPT !.st = "run", !.stdout = out, !.stderr = err]]

\* An answer, or an error page for what cannot be answered.
Respond(s, f) == [srv |-> Arm(Queue(s, f), f, "write"), due |-> 1]

\* Three pipes take six descriptors; the child's three ends are closed, and
\* stdin at once as there is no body: the ends read from stdout and stderr
\* remain.
Launch(s, f) ==
    {[srv |-> Running(s, f, out, err), due |-> 0] :
        out \in NthLowest(s, 3), err \in {g \in NthLowest(s, 5) : Cardinality(Free(s)) >= 6}}

\* With fewer, the ends of the pipes made before the one that fails stay open.
PipesFail(s, f) ==
    LET made == Lowest(s, 2 * (Cardinality(Free(s)) \div 2))
        lost == [s EXCEPT !.desc = [g \in Fds |-> IF g \in made THEN "lost" ELSE @[g]]]
    IN  IF Cardinality(Free(s)) < 6 THEN {Respond(lost, f)} ELSE {}

\* Variant: a file is answered without asking epoll for the socket.
ProcessRequestUnarmed(s, f, kind) ==
    CASE kind = "file" -> StartStaticFileStream(s, f)
      [] kind = "script" -> {Respond(s, f)} \cup Launch(s, f) \cup PipesFail(s, f)
      [] OTHER -> {Respond(s, f)}

ProcessRequest(s, f, kind) ==
    CASE kind = "file" ->
           {[o EXCEPT !.srv = Arm(@, f, "write")] : o \in StartStaticFileStream(s, f)}
      [] kind = "script" -> {Respond(s, f)} \cup Launch(s, f) \cup PipesFail(s, f)
      [] OTHER -> {Respond(s, f)}

-----------------------------------------------------------------------------
(* The peers.                                                              *)

\* What the peers in pr see once the server is s: a connection that is gone.
PeersAfter(s, pr) ==
    [p \in Peers |->
        IF pr[p].st \in {"there", "reset"} /\ \A f \in Fds : s.conn[f].peer # p
          THEN [pr[p] EXCEPT !.st = "away", !.sent = "none", !.waiting = FALSE, !.due = 0]
          ELSE pr[p]]

\* p receives n units of what was announced to it.
Received(p, n) ==
    [peer EXCEPT ![p].due = @ - n, ![p].waiting = @ /\ peer[p].due > n]

PeerConnects(p) ==
    /\ peer[p].st = "away"
    /\ peer' = [peer EXCEPT ![p].st = "knocking"]
    /\ UNCHANGED <<srv, sigchld, batch, phase>>

PeerAsks(p) ==
    /\ peer[p].st = "there" /\ ~peer[p].waiting /\ peer[p].asked < MaxRequests
    /\ \E k \in Kinds : peer' = [peer EXCEPT ![p].sent = k, ![p].waiting = TRUE,
                                             ![p].asked = @ + 1]
    /\ UNCHANGED <<srv, sigchld, batch, phase>>

PeerResets(p) ==
    /\ Resets /\ peer[p].st = "there"
    /\ peer' = [peer EXCEPT ![p].st = "reset"]
    /\ UNCHANGED <<srv, sigchld, batch, phase>>

ScriptWrites(f) ==
    /\ srv.script[f].st = "run" /\ ~srv.script[f].headers_complete
    /\ srv.script[f].wrote = 0
    /\ srv' = [srv EXCEPT !.script[f].wrote = 1]
    /\ UNCHANGED <<peer, sigchld, batch, phase>>

ScriptExits(f) ==
    /\ srv.script[f].st = "run"
    /\ \E st \in {"exited", "failed"} : srv' = [srv EXCEPT !.script[f].st = st]
    /\ sigchld' = TRUE
    /\ UNCHANGED <<peer, batch, phase>>

-----------------------------------------------------------------------------
(* Server::run: take a batch, handle its events in order, sweep.           *)

Event(fd, r, w) == [fd |-> fd, readable |-> r, writable |-> w]

\* What epoll reports: level-triggered, an error whatever the interest.
Ready ==
    LET gone == {f \in Conns : peer[srv.conn[f].peer].st = "reset"}
        asked == {f \in Conns \ gone : /\ srv.interest[f] = "read"
                                       /\ peer[srv.conn[f].peer].sent # "none"}
        ended == {f \in Fds : srv.script[f].st \in {"exited", "failed"}}
    IN  {Event(f, TRUE, TRUE) : f \in gone} \cup {Event(f, TRUE, FALSE) : f \in asked}
        \cup {Event(srv.script[f].stdout, TRUE, FALSE) :
                 f \in {g \in Fds \ ended : srv.script[g].wrote > 0}}
        \cup {Event(fd, TRUE, TRUE) : fd \in UNION {Pipes(srv, f) : f \in ended}}
        \cup {Event(Listen, TRUE, FALSE) :
                 p \in {q \in Peers : peer[q].st = "knocking"}}
        \cup (IF sigchld THEN {Event(Signal, TRUE, FALSE)} ELSE {})

\* Connections armed for writing: reported when the socket has room.
Writable == {Event(f, FALSE, TRUE) : f \in
    {g \in Conns : srv.interest[g] = "write" /\ peer[srv.conn[g].peer].st = "there"}}

\* What is ready, as much as the array holds, in any order, within the second
\* wait() sleeps.
Wait ==
    /\ phase = "wait" /\ phase' = "dispatch"
    /\ LET ready == Ready
       IN  \E room \in SUBSET Writable :
             LET all == ready \cup room
             IN  \E E \in kSubset(Min({MaxEvents, Cardinality(all)}), all) :
                   batch' \in SetToSeqs(E)
    /\ UNCHANGED <<srv, peer, sigchld>>

Dispatch(fd) ==
    /\ phase = "dispatch" /\ batch # <<>> /\ Head(batch).fd = fd
    /\ batch' = Tail(batch)
    /\ UNCHANGED phase

\* The script pipe a number names in CgiManager's tables.
Handles(fd) == {f \in Fds : fd \in Pipes(srv, f)}

\* A batch that was handled does not change what it was collected from.
Becomes(s, pr) == srv' = s /\ peer' = PeersAfter(s, pr)

HandleSignalPipe ==
    /\ Dispatch(Signal)
    /\ sigchld' = FALSE
    /\ LET failed == {f \in Fds : srv.script[f].st = "failed"
                                  /\ ~srv.script[f].headers_complete}
       IN  /\ srv' = CleanupProcess(srv, failed, "ExecFailure")
           /\ peer' = [p \in Peers |-> IF \E f \in failed : srv.conn[f].peer = p
                                         THEN [peer[p] EXCEPT !.due = 1] ELSE peer[p]]

\* The unit that stdout holds is appended to the answer.
Forward(s, f) ==
    LET q == [s.script[f] EXCEPT !.wrote = 0, !.headers_complete = TRUE]
        k == [s.conn[f] EXCEPT !.out = @ + 1, !.res_ready = TRUE]
    IN  Arm([s EXCEPT !.script[f] = q, !.conn[f] = k], f, "write")

\* A script's stdout: forward what it holds and, at its end, clean up.
HandleStdout(f) ==
    /\ Dispatch(srv.script[f].stdout) /\ srv.script[f].stdout # NoFd
    /\ LET q == srv.script[f]
           p == srv.conn[f].peer
           s == IF q.wrote = 0 THEN srv
                ELSE Forward(srv, f)
           answered == s.script[f].headers_complete
           t == IF q.st = "run" THEN s
                ELSE CleanupProcess(s, {f}, IF answered THEN "Normal" ELSE "InvalidHeaders")
           due == q.wrote + IF q.st # "run" /\ ~answered THEN 1 ELSE 0
       IN  srv' = t /\ peer' = [peer EXCEPT ![p].due = @ + due]
    /\ UNCHANGED sigchld

\* A script's stderr: it is only closed at its end.
HandleStderr(f) ==
    /\ Dispatch(srv.script[f].stderr) /\ srv.script[f].stderr # NoFd
    /\ srv' = IF srv.script[f].st = "run" THEN srv
              ELSE [Close(srv, {srv.script[f].stderr}) EXCEPT !.script[f].stderr = NoFd]
    /\ UNCHANGED <<peer, sigchld>>

Knocking == {p \in Peers : peer[p].st = "knocking"}

\* accept() until nobody waits: every waiting peer, in any order.  The call that
\* finds nobody needs a descriptor too, which the kernel reserves first.
NewConnection ==
    /\ Dispatch(Listen)
    /\ Cardinality(Knocking) < Cardinality(Free(srv))
    /\ LET fds == Lowest(srv, Cardinality(Knocking))
       IN  \E who \in Injection(fds, Knocking) :
             /\ srv' = [srv EXCEPT
                   !.desc = [f \in Fds |-> IF f \in fds THEN "client" ELSE @[f]],
                   !.interest = [f \in Fds |-> IF f \in fds THEN "read" ELSE @[f]],
                   !.conn = [f \in Fds |-> IF f \in fds THEN [NoConn EXCEPT !.peer = who[f]]
                                           ELSE @[f]]]
             /\ peer' = [p \in Peers |-> IF \E f \in fds : who[f] = p
                                           THEN [peer[p] EXCEPT !.st = "there"] ELSE peer[p]]
    /\ UNCHANGED sigchld

\* For want of a descriptor accept() throws out of new_connection, run() and
\* main(): the server ends with all its connections, and is started again.
AcceptFails ==
    /\ phase = "dispatch" /\ batch # <<>> /\ Head(batch).fd = Listen
    /\ Cardinality(Knocking) >= Cardinality(Free(srv))
    /\ srv' = NewServer
    /\ peer' = [p \in Peers |-> [peer[p] EXCEPT !.st = "away", !.sent = "none",
                                                !.waiting = FALSE, !.due = 0]]
    /\ sigchld' = FALSE /\ batch' = <<>> /\ phase' = "wait"

\* What neither the signal pipe, nor a script, nor the listening socket
\* claims is taken for a client.
ForClient(f) == Dispatch(f) /\ f \in Fds /\ Handles(f) = {}

\* Nothing to read is taken for a peer that has gone.
ReadClient(f) ==
    /\ ForClient(f) /\ Head(batch).readable /\ Up(f)
    /\ LET p == srv.conn[f].peer
       IN  IF peer[p].sent = "none" \/ peer[p].st = "reset"
             THEN Becomes(CloseClient(srv, {f}), peer)
             ELSE \E ka \in BOOLEAN :
                    \E o \in ProcessRequest([srv EXCEPT !.conn[f].keep_alive = ka], f,
                                            peer[p].sent) :
                       Becomes(o.srv, [peer EXCEPT ![p].sent = "none", ![p].due = o.due])
    /\ UNCHANGED sigchld

ToRead(k) == IF FileBuf > k.file_bytes_remaining THEN k.file_bytes_remaining ELSE FileBuf

\* Variant: the stream ends once everything has been read from the file.
DrainedIfRead(k) == k.file_bytes_remaining = 0

Drained(k) == k.file_buf = 0 /\ k.file_bytes_remaining = 0

\* One chunk: refill the buffer when it is empty (the file may end early or
\* fail), then send what the socket takes: epoll said it takes some.
WriteStaticFileChunk(f) ==
    LET k == srv.conn[f]
        p == k.peer
        fills == IF k.file_buf > 0 THEN {0} ELSE 0 .. ToRead(k)
    IN  IF Drained(k)
          THEN Becomes(FinalizeResponseWrite(ResetStaticFileStream(srv, {f}), f), peer)
          ELSE \E n \in fills :
                 IF k.file_buf + n = 0
                   THEN Becomes(CloseClient(srv, {f}), peer)
                   ELSE \E w \in 1 .. k.file_buf + n :
                          LET s == [srv EXCEPT !.conn[f].file_bytes_remaining = @ - n,
                                               !.conn[f].file_buf = @ + n - w]
                          IN  IF Drained(s.conn[f])
                                THEN Becomes(FinalizeResponseWrite(
                                               ResetStaticFileStream(s, {f}), f),
                                             Received(p, w))
                                ELSE Becomes(s, Received(p, w))

ClientWrite(f) ==
    /\ ForClient(f) /\ ~Head(batch).readable /\ Head(batch).writable /\ Up(f)
    /\ LET k == srv.conn[f]
           p == k.peer
       IN  CASE ~k.res_ready /\ k.file_fd = NoFd -> UNCHANGED <<srv, peer>>
             [] (k.res_ready \/ k.file_fd # NoFd) /\ k.out > 0 ->
                  IF peer[p].st = "reset" THEN Becomes(CloseClient(srv, {f}), peer)
                  ELSE LET s == [srv EXCEPT !.conn[f].out = 0]
                       IN  Becomes(IF k.file_fd = NoFd THEN FinalizeResponseWrite(s, f)
                                   ELSE s,
                                   Received(p, k.out))
             [] k.file_fd # NoFd /\ k.out = 0 ->
                  IF peer[p].st = "reset" THEN Becomes(CloseClient(srv, {f}), peer)
                  ELSE WriteStaticFileChunk(f)
             [] OTHER -> Becomes(FinalizeResponseWrite(srv, f), peer)
    /\ UNCHANGED sigchld

\* The number belongs to no connection any more.
Ignore(f) == ForClient(f) /\ ~Up(f) /\ UNCHANGED <<srv, peer, sigchld>>

\* close_drained_clients: who has got all of a last answer.
DrainedClients ==
    {f \in Conns : LET k == srv.conn[f] IN
        k.close_after_send /\ ~k.cgi_active /\ ~k.res_ready /\ k.out = 0 /\ k.file_fd = NoFd}

\* What has drained and (check_timeouts) any connection, then any script that
\* has been idle for too long.
Sweep ==
    /\ phase = "dispatch" /\ batch = <<>> /\ phase' = "wait"
    /\ \E idle \in IF Expiry THEN SUBSET (Conns \ DrainedClients) ELSE {{}} :
         LET gone == DrainedClients \cup idle
             running == {f \in Fds \ gone : srv.script[f].st # "none"}
         IN  \E late \in IF Expiry THEN SUBSET running ELSE {{}} :
               Becomes(CleanupProcess(CloseClient(srv, gone), late, "Timeout"),
                       [p \in Peers |->
                          IF \E f \in late : /\ srv.conn[f].peer = p
                                             /\ ~srv.script[f].headers_complete
                            THEN [peer[p] EXCEPT !.due = 1] ELSE peer[p]])
    /\ UNCHANGED <<sigchld, batch>>

HandleEvent(f) == HandleStdout(f) \/ HandleStderr(f) \/ ReadClient(f) \/ ClientWrite(f) \/ Ignore(f)

Run == \/ Wait \/ HandleSignalPipe \/ NewConnection \/ AcceptFails \/ Sweep
       \/ \E f \in Fds : HandleEvent(f)

Environment == \/ \E p \in Peers : PeerConnects(p) \/ PeerAsks(p) \/ PeerResets(p)
               \/ \E f \in Fds : ScriptWrites(f) \/ ScriptExits(f)

Next == Run \/ Environment

Spec == Init /\ [][Next]_vars

\* The loop runs, a script ends, and a peer that is there takes what is sent.
Fairness ==
    /\ WF_vars(Run)
    /\ \A f \in Fds : /\ WF_vars(ScriptExits(f))
                      /\ SF_vars(Wait /\ \E i \in DOMAIN batch' : batch'[i].fd = f)

LiveSpec == Spec /\ Fairness

-----------------------------------------------------------------------------
(* Properties.                                                             *)

\* Every table, connection and count of the server keeps its type; no count of
\* bytes left of a file goes below zero (write_static_file_chunk).
TypeOK ==
    /\ srv \in Server /\ peer \in [Peers -> Peer] /\ sigchld \in BOOLEAN
    /\ batch \in Seq(PollEvent) /\ phase \in {"wait", "dispatch"}

\* Every open descriptor has exactly one owner in the server's tables, or is
\* one of the pipe ends a half-failed launch lost, and every descriptor those
\* tables name is open, whatever numbers have been reused since: nothing else
\* leaks, nothing is closed twice, no lost end is taken for somebody's, and
\* epoll watches no number that is closed or lost (close_client,
\* reset_static_file_stream, cleanupProcess, launch).
DescriptorsOwned ==
    LET files == {f \in Conns : srv.conn[f].file_fd # NoFd}
        scripts == {f \in Fds : srv.script[f].st # "none"}
    IN  /\ {f \in Fds : srv.desc[f] = "client"} = Conns
        /\ {f \in Fds : srv.desc[f] = "file"} = {srv.conn[f].file_fd : f \in files}
        /\ \A f, g \in files : srv.conn[f].file_fd = srv.conn[g].file_fd => f = g
        /\ {f \in Fds : srv.desc[f] = "pipe"} = UNION {Pipes(srv, f) : f \in scripts}
        /\ \A f, g \in scripts : Pipes(srv, f) \cap Pipes(srv, g) # {} => f = g
        /\ \A f \in scripts : Up(f) /\ srv.conn[f].cgi_active
        /\ \A f \in Fds : srv.interest[f] = "none" <=> srv.desc[f] \in {"free", "file", "lost"}

\* The server listens for a peer's next request only when nothing of the last
\* answer is missing: a kept connection never owes the rest of a file or of a
\* response (write_static_file_chunk, finalize_response_write).
NextRequestAfterWholeAnswer ==
    /\ TypeOK
    /\ \A f \in Conns : LET k == srv.conn[f] IN
         srv.interest[f] = "read" /\ ~k.cgi_active =>
             /\ peer[k.peer].due = 0
             /\ ~k.res_ready /\ k.out = 0 /\ k.file_fd = NoFd

\* No socket is watched for room while there is nothing to send: level
\* triggered, it would wake the loop up without end and client_write would
\* return at once each time. And a connection is watched for nothing at all
\* only while its script runs: nobody else would ever re-arm it (client_write,
\* finalize_response_write, cleanupProcess).
WatchedWithReason ==
    \A f \in Conns :
        /\ srv.interest[f] = "write" =>
              srv.conn[f].res_ready \/ srv.conn[f].file_fd # NoFd
        /\ srv.interest[f] = "off" =>
              srv.conn[f].cgi_active /\ srv.script[f].st # "none"

\* Outside the sweeps the server, while it runs, hangs up on a peer that is there only while
\* it finishes answering it: when the connection is not to be kept, or when a
\* file ends before its announced length (read_client, client_write,
\* write_static_file_chunk).
HangsUpAfterAnswer ==
    [][\A f \in Conns :
         LET k == srv.conn[f] IN
         peer[k.peer].st = "there" /\ phase = "dispatch" /\ batch # <<>>
             /\ srv'.conn[f].peer = NoPeer /\ ~AcceptFails
           => k.res_ready /\ (~k.keep_alive \/ k.file_fd # NoFd)]_vars

\* Every request comes to its end: the answer has arrived whole or the
\* connection is gone, without the help of a timeout.
RequestsEnd == \A p \in Peers : peer[p].waiting ~> ~peer[p].waiting
=============================================================================
