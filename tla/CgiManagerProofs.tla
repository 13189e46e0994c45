-------------------------- MODULE CgiManagerProofs --------------------------
(* Theorems about CgiManager, in three parts: the structure of its tables;  *)
(* the inductive invariant and what it gives, the request-answer protocol   *)
(* of a connection, back-pressure, the watch on children and the reuse of   *)
(* connections; and that the manager with its caller implements Exchange,   *)
(* all for every number of connections, descriptors and scripts.            *)
EXTENDS CgiExchange, TLAPS

LEMMA FdNotNoFd == NoFd \notin Fds
BY FdsAssumption DEF NoFd

LEMMA AfterCgiType ==
    ASSUME NEW k \in ClientCon, NEW q \in CgiProcess, NEW reason
    PROVE  AfterCgi(k, q, reason) \in ClientCon
BY ZenonT(40) DEF AfterCgi, ClientCon, CgiProcess

LEMMA ForwardedType ==
    ASSUME TypeOK, NEW p \in Pids, NEW k \in ClientCon
    PROVE  Forwarded(k, p) \in ClientCon
<1> DEFINE header == IF script[p].head = "read" THEN 0 ELSE 1
           bare == script[p].head = "nolength"
<1>1. k.unsent + header + script[p].body \in Nat
  BY DEF ClientCon, TypeOK, Script
<1>2. bare \in BOOLEAN OBVIOUS
<1>3. Forwarded(k, p) = IF ~HasOutput(p) THEN k
        ELSE [k EXCEPT !.unsent = k.unsent + header + script[p].body,
                       !.res_ready = TRUE,
                       !.close_after_send = k.close_after_send \/ bare,
                       !.keep_alive = k.keep_alive /\ ~bare]
  BY DEF Forwarded
<1> HIDE DEF header, bare
<1>4. QED BY <1>1, <1>2, <1>3 DEF ClientCon

LEMMA SilentType ==
    ASSUME NEW st \in {"none", "run", "exited", "failed"}
    PROVE  Silent(st) \in Script
BY DEF Silent, Script

LEMMA NoProcessType == NoProcess \in CgiProcess
BY DEF NoProcess, CgiProcess

LEMMA NoConnType == NoConn \in ClientCon /\ NewConn \in ClientCon
BY DEF NoConn, NewConn, ClientCon

LEMMA ReleaseType ==
    ASSUME TypeOK, NEW p \in Pids, NEW arm \in [Fds -> Interest], NEW gone,
           Release(p, arm, gone)
    PROVE  /\ open' \subseteq Fds
           /\ interest' \in [Fds -> Interest]
           /\ processes' \in [Fds -> Pids \cup {NoProc}]
           /\ stdin_map' \in [Fds -> Pids \cup {NoProc}]
           /\ stderr_map' \in [Fds -> Pids \cup {NoProc}]
           /\ client_map' \in [Fds -> Pids \cup {NoProc}]
           /\ pid_map' \subseteq Pids
           /\ proc' \in [Pids -> CgiProcess]
           /\ script' \in [Pids -> Script]
           /\ sigPipe' \in BOOLEAN
<1>1. script' \in [Pids -> Script]
  <2>1. PICK st \in Killed(script[p].st) : script' = [script EXCEPT ![p] = Silent(st)]
    BY DEF Release
  <2>2. Silent(st) \in Script BY SilentType DEF Killed
  <2>3. QED BY <2>1, <2>2 DEF TypeOK
<1>2. proc' \in [Pids -> CgiProcess]
  BY NoProcessType DEF Release, TypeOK
<1>3. QED
  BY <1>1, <1>2 DEF Release, TypeOK, Interest

LEMMA CleanupType ==
    ASSUME TypeOK, NEW p \in Pids, NEW q \in CgiProcess,
           NEW k, proc[p].client \in Fds => k \in ClientCon, NEW reason,
           CleanupProcess(p, q, k, reason), UNCHANGED <<leaked, loop>>
    PROVE  TypeOK'
<1> DEFINE c == proc[p].client
           after == AfterCgi(k, q, reason)
           arm == [interest EXCEPT ![c] = Armed(after)]
<1>1. arm \in [Fds -> Interest]
  BY DEF TypeOK, Armed, Interest
<1>2. Release(p, arm, {}) BY DEF CleanupProcess
<1>3. conn' \in [Fds -> ClientCon]
  <2>1. c \in Fds => after \in ClientCon BY AfterCgiType
  <2> HIDE DEF after, c
  <2>2. conn' = [conn EXCEPT ![c] = after] BY DEF CleanupProcess, after, c
  <2>3. QED BY <2>1, <2>2 DEF TypeOK
<1> HIDE DEF arm
<1>4. QED BY <1>1, <1>2, <1>3, ReleaseType DEF TypeOK

LEMMA AnsweringType ==
    ASSUME NEW k \in ClientCon, NEW ka \in BOOLEAN
    PROVE  Answering(k, ka) \in ClientCon
BY DEF ClientCon, Answering

LEMMA RunningType ==
    ASSUME NEW k \in ClientCon, NEW ka \in BOOLEAN, NEW body \in BOOLEAN,
           NEW chunked \in BOOLEAN, NEW rest \in Nat
    PROVE  Running(k, ka, body, chunked, rest) \in ClientCon
<1> DEFINE more == chunked \/ rest > 0
<1>1. more \in BOOLEAN OBVIOUS
<1>2. Running(k, ka, body, chunked, rest) =
        [k EXCEPT !.cgi_active = TRUE, !.keep_alive = ka,
                  !.cgi_streaming = IF body THEN more ELSE k.cgi_streaming,
                  !.cgi_body_remaining = IF body THEN rest ELSE k.cgi_body_remaining]
  BY DEF Running
<1> HIDE DEF more
<1>3. QED BY <1>1, <1>2 DEF ClientCon

LEMMA PendingType ==
    ASSUME NEW q \in CgiProcess, NEW n \in Nat
    PROVE  [q EXCEPT !.pending = n] \in CgiProcess
BY DEF CgiProcess

LEMMA CloseStdinType ==
    ASSUME TypeOK, NEW p \in Pids, CloseStdin(p)
    PROVE  /\ open' \subseteq Fds
           /\ interest' \in [Fds -> Interest]
           /\ stdin_map' \in [Fds -> Pids \cup {NoProc}]
           /\ proc' \in [Pids -> CgiProcess]
<1>1. [proc[p] EXCEPT !.stdin = NoFd, !.pending = 0] \in CgiProcess
  BY ZenonT(40) DEF TypeOK, CgiProcess
<1>2. proc' = [proc EXCEPT ![p] = [proc[p] EXCEPT !.stdin = NoFd, !.pending = 0]]
  BY DEF CloseStdin, TypeOK, CgiProcess
<1>3. QED BY <1>1, <1>2 DEF CloseStdin, TypeOK, Interest

LEMMA CloseClientType ==
    ASSUME TypeOK, NEW c \in Fds, CloseClient(c)
    PROVE  TypeOK'
<1>1. conn' \in [Fds -> ClientCon] /\ leaked' \subseteq Fds /\ loop' \in {"poll", "reap"}
  BY NoConnType DEF CloseClient, TypeOK
<1>2. CASE client_map[c] # NoProc /\ Release(client_map[c], interest, {c})
  <2>1. client_map[c] \in Pids BY <1>2 DEF TypeOK
  <2>2. interest \in [Fds -> Interest] BY DEF TypeOK
  <2>3. QED BY <1>1, <1>2, <2>1, <2>2, ReleaseType DEF TypeOK
<1>3. CASE /\ open' = open \ {c}
           /\ interest' = [interest EXCEPT ![c] = "none"]
           /\ UNCHANGED <<tables, proc, script, sigPipe>>
  BY <1>1, <1>3 DEF TypeOK, tables, Interest
<1>4. QED BY <1>2, <1>3 DEF CloseClient

\* Type correctness: every action of the manager, its caller and the scripts
\* keeps every table, object and buffer count in its type; in particular no
\* count of bytes owed or unsent ever wraps below zero.
THEOREM TypeCorrect == Spec => []TypeOK
<1>1. Init => TypeOK
  <2>1. Silent("none") \in Script BY SilentType
  <2>2. QED BY ZenonT(40), <2>1, NoConnType, NoProcessType DEF Init, TypeOK, Interest
<1>2. TypeOK /\ [Next]_vars => TypeOK'
  <2> SUFFICES ASSUME TypeOK, [Next]_vars PROVE TypeOK'
    OBVIOUS
  <2>1. CASE NewConnection
    BY <2>1, NoConnType DEF NewConnection, TypeOK, tables, Interest, FreeFds, NthLowest
  <2>2. CASE AcceptFails
    <3>1. Silent("none") \in Script BY SilentType
    <3>2. QED
      BY <2>2, <3>1, NoConnType, NoProcessType
         DEF AcceptFails, ServerEnds, TypeOK, Interest
  <2>3. ASSUME NEW c \in Fds, Respond(c) PROVE TypeOK'
    <3>1. conn' \in [Fds -> ClientCon]
      BY <2>3, AnsweringType DEF Respond, TypeOK
    <3>2. QED BY <2>3, <3>1 DEF Respond, TypeOK, tables, Interest
  <2>20. ASSUME NEW c \in Fds, BeginUpload(c) PROVE TypeOK'
    <3>1. PICK ka \in BOOLEAN : conn' = [conn EXCEPT ![c].keep_alive = ka]
      BY <2>20 DEF BeginUpload
    <3>2. [conn[c] EXCEPT !.keep_alive = ka] \in ClientCon BY DEF TypeOK, ClientCon
    <3>3. conn' \in [Fds -> ClientCon] BY <3>1, <3>2 DEF TypeOK
    <3>4. QED BY <2>20, <3>3 DEF BeginUpload, TypeOK, tables
  <2>4. ASSUME NEW c \in Fds, PipesFail(c) PROVE TypeOK'
    <3>1. conn' \in [Fds -> ClientCon]
      BY <2>4, AnsweringType DEF PipesFail, TypeOK
    <3>2. MadePipes \subseteq FreeFds BY DEF MadePipes, NthLowest
    <3>3. open' \subseteq Fds /\ leaked' \subseteq Fds
      BY <2>4, <3>2 DEF PipesFail, TypeOK, FreeFds
    <3>4. QED BY <2>4, <3>1, <3>3 DEF PipesFail, TypeOK, tables, Interest
  <2>5. ASSUME NEW c \in Fds, Launch(c) PROVE TypeOK'
    <3>1. PICK p \in Pids, in \in NthLowest(FreeFds, 2), out \in NthLowest(FreeFds, 3),
               err \in NthLowest(FreeFds, 5), first \in 0 .. MaxBody, rest \in 0 .. MaxBody,
               chunked \in BOOLEAN, ka \in BOOLEAN :
            LaunchWith(c, p, in, out, err, first, rest, chunked, ka)
      BY <2>5 DEF Launch
    <3> DEFINE body == chunked \/ first > 0 \/ rest > 0
    <3>2. /\ in \in FreeFds /\ out \in FreeFds /\ err \in FreeFds
          /\ first \in Nat /\ rest \in Nat /\ body \in BOOLEAN
      BY BoundsAssumption DEF NthLowest
    <3>3. conn' \in [Fds -> ClientCon]
      <4> HIDE DEF body
      <4>1. conn[c] \in ClientCon BY DEF TypeOK
      <4>2. Running(conn[c], ka, body, chunked, rest) \in ClientCon
        BY <3>2, <4>1, RunningType
      <4>3. QED BY <3>1, <4>2 DEF TypeOK, body, LaunchWith
    <3>4. proc' \in [Pids -> CgiProcess]
      <4> HIDE DEF body
      <4>1. Started(c, in, out, err, body, first) \in CgiProcess
        BY <3>2 DEF Started, NoProcess, CgiProcess, FreeFds
      <4>2. QED BY <3>1, <4>1 DEF TypeOK, body, LaunchWith
    <3>5. script' \in [Pids -> Script]
      BY <3>1, SilentType DEF LaunchWith, LaunchAs, TypeOK
    <3>6. /\ open' \subseteq Fds /\ pid_map' \subseteq Pids
          /\ interest' \in [Fds -> Interest]
          /\ processes' \in [Fds -> Pids \cup {NoProc}]
          /\ stdin_map' \in [Fds -> Pids \cup {NoProc}]
          /\ stderr_map' \in [Fds -> Pids \cup {NoProc}]
          /\ client_map' \in [Fds -> Pids \cup {NoProc}]
      BY <3>1, <3>2 DEF LaunchWith, LaunchAs, TypeOK, FreeFds, Interest
    <3>7. QED BY <2>5, <3>3, <3>4, <3>5, <3>6 DEF Launch, TypeOK
  <2>6. ASSUME NEW c \in Fds, FeedBody(c) PROVE TypeOK'
    <3> DEFINE p == client_map[c]
    <3>1. PICK n \in Feedable(c), done \in BOOLEAN :
            /\ conn' = [conn EXCEPT ![c] = Receiving(@, n, done)]
            /\ IF p = NoProc \/ proc[p].stdin = NoFd
                 THEN UNCHANGED <<stdin_map, open, interest, proc>>
                 ELSE IF done /\ proc[p].pending + n = 0
                 THEN CloseStdin(p)
                 ELSE /\ proc' = [proc EXCEPT ![p].pending = @ + n]
                      /\ interest' = IF n > 0
                                       THEN [interest EXCEPT ![proc[p].stdin] = "write"]
                                       ELSE interest
                      /\ UNCHANGED <<stdin_map, open>>
      BY <2>6 DEF FeedBody
    <3>2. n \in Nat /\ conn[c].cgi_body_remaining - n \in Nat
      BY <3>1 DEF Feedable, TypeOK, ClientCon
    <3>3. conn' \in [Fds -> ClientCon]
      <4>1. conn[c] \in ClientCon BY DEF TypeOK
      <4>2. Receiving(conn[c], n, done) \in ClientCon
        BY <3>2, <4>1 DEF ClientCon, Receiving
      <4>3. QED BY <3>1, <4>2 DEF TypeOK
    <3>4. p \in Pids \cup {NoProc} BY DEF TypeOK
    <3>5. /\ open' \subseteq Fds
          /\ interest' \in [Fds -> Interest]
          /\ stdin_map' \in [Fds -> Pids \cup {NoProc}]
          /\ proc' \in [Pids -> CgiProcess]
      <4>1. CASE p = NoProc \/ proc[p].stdin = NoFd
        BY <3>1, <4>1 DEF TypeOK
      <4>2. CASE p # NoProc /\ CloseStdin(p)
        BY <3>4, <4>2, CloseStdinType
      <4>3. CASE p # NoProc /\ proc' = [proc EXCEPT ![p].pending = @ + n]
                 /\ interest' = (IF n > 0
                                   THEN [interest EXCEPT ![proc[p].stdin] = "write"]
                                   ELSE interest)
                 /\ UNCHANGED <<stdin_map, open>>
        <5>1. p \in Pids /\ proc[p] \in CgiProcess BY <3>4, <4>3 DEF TypeOK
        <5>2. proc[p].pending + n \in Nat BY <3>2, <5>1 DEF CgiProcess
        <5>3. proc' \in [Pids -> CgiProcess]
          BY <4>3, <5>1, <5>2, PendingType DEF TypeOK
        <5>4. QED BY <4>3, <5>3 DEF TypeOK, Interest
      <4>4. QED BY <3>1, <4>1, <4>2, <4>3
    <3>6. QED BY <2>6, <3>3, <3>5 DEF FeedBody, TypeOK
  <2>7. ASSUME NEW c \in Fds, ClientWrite(c) PROVE TypeOK'
    <3>1. CASE CloseClient(c) BY <3>1, CloseClientType
    <3>2. CASE ~CloseClient(c)
      <4>1. PICK n \in 0 .. conn[c].unsent :
              LET done == n = conn[c].unsent
                  sent == [conn[c] EXCEPT !.unsent = @ - n, !.res_ready = ~done]
                  wakes == IF n > 0 /\ conn[c].cgi_active THEN Reopened(c) ELSE interest
              IN  /\ conn' = [conn EXCEPT ![c] = sent]
                  /\ proc' = IF n > 0 /\ conn[c].cgi_active THEN Unpaused(c) ELSE proc
                  /\ interest' = IF ~done THEN wakes
                                 ELSE [wakes EXCEPT ![c] =
                                   IF conn[c].cgi_active THEN "off" ELSE "read"]
                  /\ UNCHANGED <<open, leaked, tables, script, sigPipe, loop>>
        BY <2>7, <3>2 DEF ClientWrite, DrainedInterest
      <4>2. conn' \in [Fds -> ClientCon]
        <5>1. conn[c] \in ClientCon BY DEF TypeOK
        <5>2. conn[c].unsent - n \in Nat BY <4>1, <5>1 DEF ClientCon
        <5>3. [conn[c] EXCEPT !.unsent = conn[c].unsent - n,
                 !.res_ready = ~(n = conn[c].unsent)] \in ClientCon
          BY <5>1, <5>2 DEF ClientCon
        <5>4. QED BY <4>1, <5>3 DEF TypeOK
      <4>3. proc' \in [Pids -> CgiProcess]
        <5>1. Unpaused(c) \in [Pids -> CgiProcess]
          <6>1. ASSUME NEW p \in Pids
                PROVE  [proc[p] EXCEPT !.pause_stdout = FALSE] \in CgiProcess
            <7>1. proc[p] \in CgiProcess BY DEF TypeOK
            <7>2. QED BY <7>1 DEF CgiProcess
          <6>2. QED BY <6>1 DEF Unpaused, Resumes, TypeOK
        <5>2. QED BY <4>1, <5>1 DEF TypeOK
      <4>4. interest' \in [Fds -> Interest]
        <5>1. Reopened(c) \in [Fds -> Interest] BY DEF Reopened, TypeOK, Interest
        <5>2. QED BY <4>1, <5>1 DEF TypeOK, Interest
      <4>5. QED BY <4>1, <4>2, <4>3, <4>4 DEF TypeOK, tables
    <3>3. QED BY <3>1, <3>2
  <2>8. ASSUME NEW c \in Fds, ClientLeaves(c) PROVE TypeOK'
    BY <2>8, CloseClientType DEF ClientLeaves
  <2>9. ASSUME NEW f \in Fds, HandleStdin(f) PROVE TypeOK'
    <3> DEFINE p == stdin_map[f]
    <3>1. p \in Pids BY <2>9 DEF HandleStdin, TypeOK
    <3>2. CASE CloseStdin(p) /\ ~ServerEnds
      BY <2>9, <3>1, <3>2, CloseStdinType DEF HandleStdin, TypeOK
    <3>5. CASE ServerEnds
      <4>1. Silent("none") \in Script BY SilentType
      <4>2. QED
        BY <3>5, <4>1, NoConnType, NoProcessType DEF ServerEnds, TypeOK, Interest
    <3>3. CASE ~CloseStdin(p) /\ ~ServerEnds
      <4>1. PICK n \in 1 .. proc[p].pending :
              /\ proc' = [proc EXCEPT ![p].pending = @ - n]
              /\ UNCHANGED <<stdin_map, open, interest>>
        BY <2>9, <3>3 DEF HandleStdin
      <4>2. proc' \in [Pids -> CgiProcess]
        <5>1. proc[p] \in CgiProcess BY <3>1 DEF TypeOK
        <5>2. proc[p].pending - n \in Nat BY <4>1, <5>1 DEF CgiProcess
        <5>3. QED BY <3>1, <4>1, <5>1, <5>2, PendingType DEF TypeOK
      <4>3. QED BY <2>9, <3>3, <4>1, <4>2 DEF HandleStdin, TypeOK
    <3>4. QED BY <3>2, <3>3, <3>5
  <2>10. ASSUME NEW f \in Fds, HandleStdout(f) PROVE TypeOK'
    <3> DEFINE p == processes[f]
               c == proc[p].client
               bad == script[p].head = "bad" \/ (AtEof(p) /\ script[p].head = "unwritten")
               q == [proc[p] EXCEPT !.headers_complete = @ \/ ~bad,
                                    !.force_close = @ \/ script[p].head = "nolength"]
               k == Forwarded(conn[c], p)
               stalled == q.pause_stdout \/ k.unsent > Threshold
    <3>1. p \in Pids BY <2>10 DEF HandleStdout, TypeOK
    <3>2. q \in CgiProcess /\ proc[p] \in CgiProcess
      <4>1. proc[p] \in CgiProcess BY <3>1 DEF TypeOK
      <4> HIDE DEF p
      <4>2. bad \in BOOLEAN BY DEF AtEof
      <4>3. QED BY <4>1, <4>2 DEF CgiProcess
    <3>3. c \in Fds => conn[c] \in ClientCon /\ k \in ClientCon
      BY <3>1, ForwardedType DEF TypeOK
    <3>4. CASE CleanupProcess(p, proc[p], conn[c], "InvalidHeaders")
      BY <2>10, <3>1, <3>2, <3>3, <3>4, CleanupType DEF HandleStdout
    <3>5. CASE CleanupProcess(p, q, k, "Normal")
      BY <2>10, <3>1, <3>2, <3>3, <3>5, CleanupType DEF HandleStdout
    <3>6. CASE /\ proc' = [proc EXCEPT ![p] = [q EXCEPT !.pause_stdout = stalled]]
               /\ conn' = [conn EXCEPT ![c] = k]
               /\ interest' = [interest EXCEPT ![c] = "write",
                                               ![f] = IF stalled THEN "off" ELSE @]
               /\ script' = [script EXCEPT ![p] = [@ EXCEPT !.head = "read", !.body = 0]]
               /\ UNCHANGED <<open, tables, sigPipe>>
      <4>1. conn' \in [Fds -> ClientCon]
        <5> HIDE DEF k, c
        <5>1. QED BY <3>3, <3>6 DEF TypeOK
      <4>2. stalled \in BOOLEAN
        BY <3>2 DEF CgiProcess
      <4>3. [q EXCEPT !.pause_stdout = stalled] \in CgiProcess
        <5> HIDE DEF q, stalled
        <5>1. QED BY <3>2, <4>2 DEF CgiProcess
      <4>4. proc' \in [Pids -> CgiProcess]
        <5> HIDE DEF q, stalled
        <5>1. QED BY <3>6, <4>3 DEF TypeOK
      <4>5. interest' \in [Fds -> Interest] /\ script' \in [Pids -> Script]
        BY ZenonT(40), <3>6 DEF TypeOK, Interest, Script
      <4>6. QED BY <2>10, <3>6, <4>1, <4>4, <4>5 DEF HandleStdout, TypeOK, tables
    <3>7. QED BY <2>10, <3>4, <3>5, <3>6 DEF HandleStdout
  <2>11. ASSUME NEW f \in Fds, HandleStderr(f) PROVE TypeOK'
    BY SMTT(30), <2>11 DEF HandleStderr, TypeOK, CgiProcess, Interest
  <2>12. ASSUME NEW p \in Pids, Expire(p) PROVE TypeOK'
    <3>1. proc[p] \in CgiProcess BY DEF TypeOK
    <3>2. proc[p].client \in Fds => conn[proc[p].client] \in ClientCon BY DEF TypeOK
    <3>3. QED BY <2>12, <3>1, <3>2, CleanupType DEF Expire
  <2>13. ASSUME NEW p \in Pids, ReapChild(p) PROVE TypeOK'
    <3>1. CASE CleanupProcess(p, proc[p], conn[proc[p].client], "ExecFailure")
      <4>1. proc[p] \in CgiProcess BY DEF TypeOK
      <4>2. proc[p].client \in Fds => conn[proc[p].client] \in ClientCon BY DEF TypeOK
      <4>3. QED BY <2>13, <3>1, <4>1, <4>2, CleanupType DEF ReapChild
    <3>2. CASE /\ pid_map' = pid_map \ {p}
               /\ script' = [script EXCEPT ![p].st = "none"]
               /\ UNCHANGED <<open, interest, conn, processes, stdin_map, stderr_map,
                              client_map, proc, sigPipe>>
      BY <2>13, <3>2 DEF ReapChild, TypeOK, Script
    <3>3. QED BY <2>13, <3>1, <3>2 DEF ReapChild
  <2>14. ASSUME NEW p \in Pids, ScriptWrites(p) PROVE TypeOK'
    BY <2>14, HeaderKindsAssumption DEF ScriptWrites, TypeOK, tables, Script
  <2>15. ASSUME NEW p \in Pids, ScriptExits(p) PROVE TypeOK'
    BY <2>15 DEF ScriptExits, TypeOK, tables, Script
  <2>16. CASE HandleSignalPipe
    BY <2>16 DEF HandleSignalPipe, TypeOK, tables
  <2>17. CASE ReapDone
    BY <2>17 DEF ReapDone, TypeOK, tables
  <2>18. CASE UNCHANGED vars
    BY <2>18 DEF vars, TypeOK, tables
  <2>19. QED
    BY <2>1, <2>2, <2>3, <2>4, <2>5, <2>6, <2>7, <2>8, <2>9, <2>10, <2>11, <2>12,
       <2>13, <2>14, <2>15, <2>16, <2>17, <2>18, <2>20 DEF Next
<1>3. QED BY <1>1, <1>2, PTL DEF Spec

-----------------------------------------------------------------------------
(* Ownership: the tables, the objects, the connections and the descriptors. *)

\* OneOwner without sets of roles.
Exclusive == \A f \in Fds :
    /\ f \in open <=> \/ conn[f].up \/ stdin_map[f] # NoProc
                      \/ processes[f] # NoProc \/ stderr_map[f] # NoProc
                      \/ f \in leaked
    /\ conn[f].up => /\ stdin_map[f] = NoProc /\ processes[f] = NoProc
                     /\ stderr_map[f] = NoProc /\ f \notin leaked
    /\ stdin_map[f] # NoProc => /\ processes[f] = NoProc /\ stderr_map[f] = NoProc
                                /\ f \notin leaked
    /\ processes[f] # NoProc => stderr_map[f] = NoProc /\ f \notin leaked
    /\ stderr_map[f] # NoProc => f \notin leaked
    /\ interest[f] # "none" <=> f \in open \ leaked

LEMMA OneOwnerExclusive == OneOwner <=> Exclusive
<1> SUFFICES ASSUME NEW f \in Fds
             PROVE  /\ Owners(f) # {} <=>
                         \/ conn[f].up \/ stdin_map[f] # NoProc
                         \/ processes[f] # NoProc \/ stderr_map[f] # NoProc
                         \/ f \in leaked
                    /\ (\A r, s \in Owners(f) : r = s) <=>
                         /\ conn[f].up =>
                              /\ stdin_map[f] = NoProc /\ processes[f] = NoProc
                              /\ stderr_map[f] = NoProc /\ f \notin leaked
                         /\ stdin_map[f] # NoProc =>
                              /\ processes[f] = NoProc /\ stderr_map[f] = NoProc
                              /\ f \notin leaked
                         /\ processes[f] # NoProc =>
                              stderr_map[f] = NoProc /\ f \notin leaked
                         /\ stderr_map[f] # NoProc => f \notin leaked
  BY DEF OneOwner, Exclusive
<1>1. /\ "client" \in Owners(f) <=> conn[f].up
      /\ "in" \in Owners(f) <=> stdin_map[f] # NoProc
      /\ "out" \in Owners(f) <=> processes[f] # NoProc
      /\ "err" \in Owners(f) <=> stderr_map[f] # NoProc
      /\ "lost" \in Owners(f) <=> f \in leaked
      /\ Owners(f) \subseteq {"client", "in", "out", "err", "lost"}
  BY DEF Owners
<1> HIDE DEF Owners
<1>2. QED BY <1>1

LEMMA OneOwnerExclusiveNext == OneOwner' <=> Exclusive'
BY OneOwnerExclusive, PTL

\* What the ownership invariant says of one live process.
LEMMA LiveProcess ==
    ASSUME TypeOK, Structure, NEW p \in Pids, Live(p)
    PROVE  /\ proc[p].client \in Fds /\ proc[p].stdout \in Fds
           /\ processes[proc[p].stdout] = p
           /\ client_map[proc[p].client] = p
           /\ conn[proc[p].client].up /\ conn[proc[p].client].cgi_active
           /\ proc[p].stdin \in Fds \cup {NoFd} /\ proc[p].stderr \in Fds \cup {NoFd}
           /\ proc[p].stdin # NoFd => stdin_map[proc[p].stdin] = p
           /\ proc[p].stderr # NoFd => stderr_map[proc[p].stderr] = p
           /\ proc[p].client \in open \ leaked
           /\ Handles(p) \subseteq open \ leaked
           /\ proc[p].client \notin Handles(p)
           /\ p # NoProc
<1>1. Exclusive BY OneOwnerExclusive DEF Structure
<1>2. proc[p] \in CgiProcess BY DEF TypeOK
<1>3. /\ proc[p].client \in Fds /\ proc[p].stdout \in Fds
      /\ proc[p].stdin \in Fds \cup {NoFd} /\ proc[p].stderr \in Fds \cup {NoFd}
      /\ conn[proc[p].client].up /\ conn[proc[p].client].cgi_active
  BY <1>2 DEF Structure, ClientsAgree, Live, CgiProcess
<1>4. /\ processes[proc[p].stdout] = p
      /\ client_map[proc[p].client] = p
      /\ proc[p].stdin # NoFd => stdin_map[proc[p].stdin] = p
      /\ proc[p].stderr # NoFd => stderr_map[proc[p].stderr] = p
  BY <1>3 DEF Structure, TablesAgree
<1>5. p # NoProc BY NoProcAssumption
<1>6. QED BY <1>1, <1>3, <1>4, <1>5 DEF Handles, Exclusive

LEMMA ReleaseTables ==
    ASSUME TypeOK, Structure, NEW p \in Pids, Live(p), NEW arm, NEW gone,
           Release(p, arm, gone)
    PROVE  TablesAgree' /\ (\A r \in Pids : ~Live(r)' => proc'[r] = NoProcess)
<1>1. proc'[p] = NoProcess /\ \A r \in Pids : r # p => proc'[r] = proc[r]
  BY DEF Release, TypeOK
<1>2. \A r \in Pids, f \in Fds : proc'[p].stdout # f /\ proc'[p].stdin # f
                       /\ proc'[p].stderr # f /\ proc'[p].client # f
  BY <1>1, FdNotNoFd DEF NoProcess
<1>3. p # NoProc BY NoProcAssumption
<1>4. \A r \in Pids, f \in Fds : processes'[f] = r <=> proc'[r].stdout = f
  BY <1>1, <1>2, <1>3, NoProcAssumption DEF Structure, TablesAgree, Release
<1>5. \A r \in Pids, f \in Fds : stdin_map'[f] = r <=> proc'[r].stdin = f
  BY <1>1, <1>2, <1>3, NoProcAssumption DEF Structure, TablesAgree, Release
<1>6. \A r \in Pids, f \in Fds : stderr_map'[f] = r <=> proc'[r].stderr = f
  BY <1>1, <1>2, <1>3, NoProcAssumption DEF Structure, TablesAgree, Release
<1>7. \A r \in Pids, f \in Fds : client_map'[f] = r <=> proc'[r].client = f
  BY <1>1, <1>2, <1>3, NoProcAssumption DEF Structure, TablesAgree, Release
<1>8. pid_map' = pid_map \ {p} /\ \A r \in pid_map' : r # p /\ r \in Pids
  BY DEF Release, TypeOK
<1>9. \A r \in pid_map' : Live(r)'
  BY <1>1, <1>8 DEF Structure, TablesAgree, Live
<1>10. \A r \in Pids : ~Live(r)' => proc'[r] = NoProcess
  BY <1>1 DEF Structure, NothingStale, Live
<1>11. QED BY <1>4, <1>5, <1>6, <1>7, <1>9, <1>10 DEF TablesAgree

LEMMA ReleaseOwners ==
    ASSUME TypeOK, Structure, NEW p \in Pids, Live(p),
           NEW arm, \A f \in Fds : arm[f] = "none" <=> interest[f] = "none",
           NEW gone, gone = {} \/ gone = {proc[p].client},
           Release(p, arm, gone), leaked' = leaked,
           \A f \in Fds : conn'[f].up <=> conn[f].up /\ f \notin gone
    PROVE  OneOwner'
<1>1. Exclusive BY OneOwnerExclusive DEF Structure
<1>2. proc[p].client \in Fds /\ conn[proc[p].client].up /\ proc[p].client \notin Handles(p)
  BY LiveProcess
<1>3. \A f \in Fds : f \in Handles(p) <=> \/ processes[f] = p \/ stdin_map[f] = p
                                          \/ stderr_map[f] = p
  BY FdNotNoFd DEF Structure, TablesAgree, Handles
<1>4. p # NoProc BY NoProcAssumption
<1>5. \A f \in Fds :
        /\ processes'[f] = IF processes[f] = p THEN NoProc ELSE processes[f]
        /\ stdin_map'[f] = IF stdin_map[f] = p THEN NoProc ELSE stdin_map[f]
        /\ stderr_map'[f] = IF stderr_map[f] = p THEN NoProc ELSE stderr_map[f]
  BY DEF Release, Structure, TablesAgree
<1>6. /\ open' = open \ (Handles(p) \cup gone)
      /\ \A f \in Fds : interest'[f] = IF f \in Handles(p) \cup gone THEN "none" ELSE arm[f]
  BY DEF Release
<1>7. Exclusive'
  <2> SUFFICES ASSUME NEW f \in Fds
      PROVE (/\ f \in open <=> \/ conn[f].up \/ stdin_map[f] # NoProc
                               \/ processes[f] # NoProc \/ stderr_map[f] # NoProc
                               \/ f \in leaked
             /\ conn[f].up => /\ stdin_map[f] = NoProc /\ processes[f] = NoProc
                              /\ stderr_map[f] = NoProc /\ f \notin leaked
             /\ stdin_map[f] # NoProc => /\ processes[f] = NoProc /\ stderr_map[f] = NoProc
                                         /\ f \notin leaked
             /\ processes[f] # NoProc => stderr_map[f] = NoProc /\ f \notin leaked
             /\ stderr_map[f] # NoProc => f \notin leaked
             /\ interest[f] # "none" <=> f \in open \ leaked)'
    BY DEF Exclusive
  <2>1. CASE f \in Handles(p)
    BY <1>1, <1>2, <1>3, <1>4, <1>5, <1>6, <2>1 DEF Exclusive
  <2>2. CASE f \notin Handles(p) /\ f \in gone
    BY <1>1, <1>2, <1>3, <1>4, <1>5, <1>6, <2>2 DEF Exclusive
  <2>3. CASE f \notin Handles(p) /\ f \notin gone
    BY <1>1, <1>2, <1>3, <1>4, <1>5, <1>6, <2>3 DEF Exclusive
  <2>4. QED BY <2>1, <2>2, <2>3
<1>8. QED BY <1>7, OneOwnerExclusiveNext

LEMMA ClientsProcess ==
    ASSUME TypeOK, Structure, NEW c \in Fds, client_map[c] # NoProc
    PROVE  /\ client_map[c] \in Pids /\ Live(client_map[c])
           /\ proc[client_map[c]].client = c
<1>1. client_map[c] \in Pids BY DEF TypeOK
<1>2. proc[client_map[c]].client = c BY <1>1 DEF Structure, TablesAgree
<1>3. proc[client_map[c]] # NoProcess BY <1>2, FdNotNoFd DEF NoProcess
<1>4. QED BY <1>1, <1>2, <1>3 DEF Structure, NothingStale

LEMMA NoOtherClient ==
    ASSUME TypeOK, Structure, NEW p \in Pids, Live(p), NEW r \in Pids, Live(r), r # p
    PROVE  proc[r].client # proc[p].client
BY LiveProcess DEF Structure, TablesAgree

LEMMA AfterCgiShape ==
    ASSUME NEW k \in ClientCon, NEW q, NEW reason
    PROVE  /\ AfterCgi(k, q, reason).up = k.up
           /\ AfterCgi(k, q, reason).cgi_active = FALSE
BY DEF AfterCgi, ClientCon

LEMMA CleanupStructure ==
    ASSUME TypeOK, Structure, NEW p \in Pids, Live(p), NEW q,
           NEW k \in ClientCon, k.up, NEW reason,
           CleanupProcess(p, q, k, reason), leaked' = leaked
    PROVE  Structure'
<1> DEFINE c == proc[p].client
           after == AfterCgi(k, q, reason)
           arm == [interest EXCEPT ![c] = Armed(after)]
<1>1. /\ c \in Fds /\ conn[c].up /\ c \in open \ leaked
  BY LiveProcess
<1>2. Release(p, arm, {}) BY DEF CleanupProcess
<1>3. /\ conn'[c].up /\ ~conn'[c].cgi_active
      /\ \A f \in Fds : f # c => conn'[f] = conn[f]
  <2>1. after.up = TRUE /\ after.cgi_active = FALSE BY AfterCgiShape
  <2>2. conn' = [conn EXCEPT ![c] = after] BY DEF CleanupProcess
  <2> HIDE DEF after, c
  <2>3. QED BY <1>1, <2>1, <2>2 DEF TypeOK
<1>4. \A f \in Fds : arm[f] = "none" <=> interest[f] = "none"
  <2>1. interest[c] # "none" BY <1>1 DEF Structure, OneOwner
  <2>2. Armed(after) # "none" BY DEF Armed
  <2> HIDE DEF after, c
  <2>3. QED BY <1>1, <2>1, <2>2 DEF TypeOK
<1> HIDE DEF arm, after
<1>5. TablesAgree' /\ (\A r \in Pids : ~Live(r)' => proc'[r] = NoProcess)
  BY <1>2, ReleaseTables
<1>6. OneOwner'
  BY <1>1, <1>2, <1>3, <1>4, ReleaseOwners
<1>7. NothingStale'
  BY <1>1, <1>3, <1>5 DEF Structure, NothingStale
<1>8. ClientsAgree'
  <2>1. proc'[p] = NoProcess /\ \A r \in Pids : r # p => proc'[r] = proc[r]
    BY <1>2 DEF Release, TypeOK
  <2>2. ASSUME NEW r \in Pids, Live(r)'
        PROVE  /\ proc'[r].client \in Fds
               /\ conn'[proc'[r].client].up /\ conn'[proc'[r].client].cgi_active
    <3>1. r # p /\ proc'[r] = proc[r] BY <2>1, <2>2 DEF Live, NoProcess
    <3>2. Live(r) BY <2>2, <3>1 DEF Live
    <3>3. proc[r].client # c BY <3>1, <3>2, NoOtherClient
    <3>4. QED BY <1>3, <3>1, <3>2, <3>3 DEF Structure, ClientsAgree
  <2>3. ASSUME NEW f \in Fds, conn'[f].cgi_active PROVE client_map'[f] # NoProc
    BY <1>2, <1>3, <2>3 DEF Release, Structure, ClientsAgree
  <2>4. QED BY <2>2, <2>3 DEF ClientsAgree
<1>9. QED BY <1>5, <1>6, <1>7, <1>8 DEF Structure

LEMMA CloseClientStructure ==
    ASSUME TypeOK, Structure, NEW c \in Fds, conn[c].up, CloseClient(c)
    PROVE  Structure'
<1>1. /\ conn'[c] = NoConn /\ \A f \in Fds : f # c => conn'[f] = conn[f]
      /\ leaked' = leaked
  BY DEF CloseClient, TypeOK
<1>2. ~NoConn.up /\ ~NoConn.cgi_active BY DEF NoConn
<1>3. CASE client_map[c] # NoProc /\ Release(client_map[c], interest, {c})
  <2> DEFINE p == client_map[c]
  <2>1. p \in Pids /\ Live(p) /\ proc[p].client = c BY <1>3, ClientsProcess
  <2> HIDE DEF p
  <2>2. Release(p, interest, {c}) BY <1>3 DEF p
  <2>3. TablesAgree' /\ (\A r \in Pids : ~Live(r)' => proc'[r] = NoProcess)
    BY <2>1, <2>2, ReleaseTables
  <2>4. OneOwner'
    BY <1>1, <1>2, <2>1, <2>2, ReleaseOwners
  <2>5. NothingStale' BY <1>1, <2>3 DEF Structure, NothingStale
  <2>6. proc'[p] = NoProcess /\ \A r \in Pids : r # p => proc'[r] = proc[r]
    BY <2>1, <2>2 DEF Release, TypeOK
  <2>7. ASSUME NEW r \in Pids, Live(r)'
        PROVE  /\ proc'[r].client \in Fds
               /\ conn'[proc'[r].client].up /\ conn'[proc'[r].client].cgi_active
    <3>1. r # p /\ proc'[r] = proc[r] BY <2>6, <2>7 DEF Live, NoProcess
    <3>2. Live(r) BY <2>7, <3>1 DEF Live
    <3>3. proc[r].client # c BY <2>1, <3>1, <3>2, NoOtherClient
    <3>4. QED BY <1>1, <3>1, <3>2, <3>3 DEF Structure, ClientsAgree
  <2>8. ASSUME NEW f \in Fds, conn'[f].cgi_active PROVE client_map'[f] # NoProc
    BY <1>1, <1>2, <2>1, <2>2, <2>8 DEF Release, Structure, ClientsAgree
  <2>9. QED BY <2>3, <2>4, <2>5, <2>7, <2>8 DEF Structure, ClientsAgree
<1>4. CASE /\ client_map[c] = NoProc
           /\ open' = open \ {c}
           /\ interest' = [interest EXCEPT ![c] = "none"]
           /\ UNCHANGED <<tables, proc, script, sigPipe>>
  <2>1. TablesAgree' BY <1>4 DEF Structure, TablesAgree, tables, Live
  <2>2. NothingStale' BY <1>1, <1>4 DEF Structure, NothingStale, Live
  <2>3. ClientsAgree'
    <3>1. \A r \in Pids : Live(r) => proc[r].client # c
      BY <1>4, LiveProcess
    <3>2. QED BY <1>1, <1>2, <1>4, <3>1 DEF Structure, ClientsAgree, tables, Live
  <2>4. OneOwner'
    <3>1. Exclusive BY OneOwnerExclusive DEF Structure
    <3>2. \A f \in Fds : interest'[f] = IF f = c THEN "none" ELSE interest[f]
      BY <1>4 DEF TypeOK
    <3>3. Exclusive' BY <1>1, <1>2, <1>4, <3>1, <3>2 DEF Exclusive, tables
    <3>4. QED BY <3>3, OneOwnerExclusiveNext
  <2>5. QED BY <2>1, <2>2, <2>3, <2>4 DEF Structure
<1>5. QED BY <1>3, <1>4 DEF CloseClient

LEMMA CloseStdinStructure ==
    ASSUME TypeOK, Structure, NEW p \in Pids, proc[p].stdin # NoFd, CloseStdin(p),
           NEW n \in [Fds -> ClientCon], conn' = n,
           \A c \in Fds : /\ n[c].up = conn[c].up /\ n[c].cgi_active = conn[c].cgi_active
                          /\ ~conn[c].up => n[c] = conn[c],
           UNCHANGED <<leaked, processes, stderr_map, client_map, pid_map>>
    PROVE  Structure'
<1> DEFINE f == proc[p].stdin
           closed == [proc[p] EXCEPT !.stdin = NoFd, !.pending = 0]
<1>1. f \in Fds /\ stdin_map[f] = p /\ p # NoProc /\ proc[p] \in CgiProcess
  <2>1. f \in Fds /\ proc[p] \in CgiProcess BY DEF TypeOK, CgiProcess
  <2>2. QED BY <2>1, NoProcAssumption DEF Structure, TablesAgree
<1>2. /\ closed.stdin = NoFd /\ closed.stdout = proc[p].stdout
      /\ closed.stderr = proc[p].stderr /\ closed.client = proc[p].client
  BY <1>1 DEF CgiProcess
<1>3. proc'[p] = closed /\ \A r \in Pids : r # p => proc'[r] = proc[r]
  BY <1>1 DEF CloseStdin, TypeOK, CgiProcess
<1> HIDE DEF closed
<1>4. /\ stdin_map'[f] = NoProc
      /\ \A g \in Fds : g # f => stdin_map'[g] = stdin_map[g]
      /\ interest'[f] = "none"
      /\ \A g \in Fds : g # f => interest'[g] = interest[g]
      /\ open' = open \ {f}
  BY <1>1 DEF CloseStdin, TypeOK
<1>5. Live(p)
  BY <1>1, FdNotNoFd DEF Structure, NothingStale, NoProcess
<1>6. TablesAgree'
  <2>1. \A r \in Pids, g \in Fds : stdin_map'[g] = r <=> proc'[r].stdin = g
    BY <1>1, <1>2, <1>3, <1>4, NoProcAssumption, FdNotNoFd DEF Structure, TablesAgree
  <2>2. \A r \in Pids : /\ proc'[r].stdout = proc[r].stdout
                        /\ proc'[r].stderr = proc[r].stderr
                        /\ proc'[r].client = proc[r].client
    BY <1>2, <1>3
  <2>3. \A r \in pid_map' : Live(r)'
    BY <2>2 DEF Structure, TablesAgree, Live, TypeOK
  <2>4. QED BY <2>1, <2>2, <2>3 DEF Structure, TablesAgree
<1>7. ClientsAgree'
  BY <1>2, <1>3 DEF Structure, ClientsAgree, Live
<1>8. NothingStale'
  <2>1. \A r \in Pids : ~Live(r)' => proc'[r] = NoProcess
    BY <1>2, <1>3, <1>5 DEF Structure, NothingStale, Live
  <2>2. QED BY <2>1 DEF Structure, NothingStale
<1>9. OneOwner'
  <2>1. Exclusive BY OneOwnerExclusive DEF Structure
  <2>2. Exclusive' BY <1>1, <1>4, <2>1 DEF Exclusive
  <2>3. QED BY <2>2, OneOwnerExclusiveNext
<1>10. QED BY <1>6, <1>7, <1>8, <1>9 DEF Structure

\* A step that opens, closes and hands over nothing.
LEMMA StructureFrame ==
    ASSUME TypeOK, Structure,
           UNCHANGED <<open, leaked, processes, stdin_map, stderr_map, client_map>>,
           pid_map' \subseteq pid_map,
           \A f \in Fds : /\ interest'[f] = "none" <=> interest[f] = "none"
                          /\ conn'[f].up = conn[f].up
                          /\ conn'[f].cgi_active = conn[f].cgi_active
                          /\ ~conn[f].up => conn'[f] = conn[f],
           \A p \in Pids : /\ proc'[p].client = proc[p].client
                           /\ proc'[p].stdin = proc[p].stdin
                           /\ proc'[p].stdout = proc[p].stdout
                           /\ proc'[p].stderr = proc[p].stderr
                           /\ ~Live(p) => proc'[p] = proc[p]
    PROVE  Structure'
<1>1. \A p \in Pids : Live(p)' <=> Live(p) BY DEF Live
<1>2. TablesAgree' BY <1>1 DEF Structure, TablesAgree, TypeOK
<1>3. ClientsAgree' BY <1>1 DEF Structure, ClientsAgree
<1>4. NothingStale' BY <1>1 DEF Structure, NothingStale
<1>5. OneOwner'
  <2>1. Exclusive BY OneOwnerExclusive DEF Structure
  <2>2. Exclusive' BY <2>1 DEF Exclusive
  <2>3. QED BY <2>2, OneOwnerExclusiveNext
<1>6. QED BY <1>2, <1>3, <1>4, <1>5 DEF Structure

LEMMA FreeFdsUnused ==
    ASSUME TypeOK, Structure, NEW f \in FreeFds
    PROVE  /\ f \in Fds /\ f \notin open /\ f \notin leaked /\ interest[f] = "none"
           /\ ~conn[f].up /\ stdin_map[f] = NoProc /\ processes[f] = NoProc
           /\ stderr_map[f] = NoProc /\ client_map[f] = NoProc
<1>1. Exclusive BY OneOwnerExclusive DEF Structure
<1>2. f \in Fds /\ f \notin open BY DEF FreeFds
<1>3. ~conn[f].up BY <1>1, <1>2 DEF Exclusive
<1>4. client_map[f] = NoProc
  <2>1. SUFFICES ASSUME client_map[f] # NoProc PROVE FALSE OBVIOUS
  <2>2. QED BY <1>2, <1>3, <2>1, ClientsProcess, LiveProcess
<1>5. QED BY <1>1, <1>2, <1>3, <1>4 DEF Exclusive

LEMMA DeadProcess ==
    ASSUME TypeOK, Structure, NEW p \in Pids, ~Live(p)
    PROVE  /\ proc[p] = NoProcess
           /\ \A f \in Fds : /\ processes[f] # p /\ stdin_map[f] # p
                            /\ stderr_map[f] # p /\ client_map[f] # p
<1>1. proc[p] = NoProcess BY DEF Structure, NothingStale
<1>2. QED BY <1>1, FdNotNoFd DEF Structure, TablesAgree, NoProcess

\* The descriptor of a connection is polled and is no pipe.
LEMMA UpDescriptor ==
    ASSUME TypeOK, Structure, NEW c \in Fds, conn[c].up
    PROVE  /\ c \in open \ leaked /\ interest[c] # "none"
           /\ processes[c] = NoProc /\ stdin_map[c] = NoProc /\ stderr_map[c] = NoProc
BY OneOwnerExclusive DEF Structure, Exclusive

LEMMA IdleStructure ==
    ASSUME TypeOK, Structure, NEW c \in Fds, conn[c].up, ~conn[c].cgi_active
    PROVE  client_map[c] = NoProc /\ c \in open \ leaked /\ interest[c] # "none"
<1>1. Exclusive BY OneOwnerExclusive DEF Structure
<1>2. c \in open \ leaked /\ interest[c] # "none" BY <1>1 DEF Exclusive
<1>3. client_map[c] = NoProc
  <2>1. SUFFICES ASSUME client_map[c] # NoProc PROVE FALSE OBVIOUS
  <2>2. QED BY <2>1, ClientsProcess, LiveProcess
<1>4. QED BY <1>2, <1>3

LEMMA InitStructure == Init => Structure
<1> SUFFICES ASSUME Init PROVE Structure OBVIOUS
<1>1. TablesAgree
  BY NoProcAssumption, FdNotNoFd DEF Init, TablesAgree, NoProcess
<1>2. ClientsAgree BY DEF Init, ClientsAgree, Live, NoProcess, NoConn
<1>3. NothingStale BY DEF Init, NothingStale
<1>4. Exclusive BY DEF Init, Exclusive, NoConn
<1>5. QED BY <1>1, <1>2, <1>3, <1>4, OneOwnerExclusive DEF Structure

\* The next server starts from nothing.
LEMMA ServerEndsInit == loop = "poll" /\ ServerEnds => Init'
BY DEF ServerEnds, Init

\* Both ends of the server come from its event loop: accept() failing, and a
\* write to a script that is gone.
LEMMA Crashes == (AcceptFails \/ \E f \in Fds : HandleStdin(f)) /\ ServerEnds => Init'
BY ServerEndsInit DEF AcceptFails, HandleStdin

LEMMA AcceptFailsInit == AcceptFails => Init'
BY Crashes DEF AcceptFails

LEMMA NewConnectionStructure ==
    ASSUME TypeOK, Structure, NewConnection
    PROVE  Structure'
<1>1. PICK c \in FreeFds : /\ open' = open \cup {c}
                          /\ conn' = [conn EXCEPT ![c] = NewConn]
                          /\ interest' = [interest EXCEPT ![c] = "read"]
  BY DEF NewConnection, NthLowest
<1>2. /\ c \in Fds /\ c \notin open /\ c \notin leaked /\ ~conn[c].up
      /\ stdin_map[c] = NoProc /\ processes[c] = NoProc /\ stderr_map[c] = NoProc
  BY FreeFdsUnused
<1>3. /\ conn'[c].up /\ ~conn'[c].cgi_active
      /\ \A f \in Fds : f # c => conn'[f] = conn[f] /\ interest'[f] = interest[f]
      /\ interest'[c] = "read"
  BY <1>1, <1>2 DEF NewConn, NoConn, TypeOK
<1>4. UNCHANGED <<leaked, tables, proc>> BY DEF NewConnection
<1>5. TablesAgree' BY <1>4 DEF Structure, TablesAgree, tables, Live
<1>6. ClientsAgree' BY <1>2, <1>3, <1>4 DEF Structure, ClientsAgree, tables, Live
<1>7. NothingStale' BY <1>3, <1>4 DEF Structure, NothingStale, Live
<1>8. OneOwner'
  <2>1. Exclusive BY OneOwnerExclusive DEF Structure
  <2>2. Exclusive' BY <1>1, <1>2, <1>3, <1>4, <2>1 DEF Exclusive, tables
  <2>3. QED BY <2>2, OneOwnerExclusiveNext
<1>9. QED BY <1>5, <1>6, <1>7, <1>8 DEF Structure

LEMMA AnsweringShape ==
    ASSUME NEW k \in ClientCon, NEW ka
    PROVE  Answering(k, ka).up = k.up /\ Answering(k, ka).cgi_active = k.cgi_active
BY DEF Answering, ClientCon

LEMMA RespondStructure ==
    ASSUME TypeOK, Structure, NEW c \in Fds, Respond(c)
    PROVE  Structure'
<1>1. PICK ka \in BOOLEAN : conn' = [conn EXCEPT ![c] = Answering(conn[c], ka)]
  BY DEF Respond
<1>2. conn[c].up /\ interest[c] # "none" BY UpDescriptor DEF Respond, Idle
<1>3. \A f \in Fds : /\ conn'[f].up = conn[f].up
                     /\ conn'[f].cgi_active = conn[f].cgi_active
                     /\ ~conn[f].up => conn'[f] = conn[f]
                     /\ interest'[f] = "none" <=> interest[f] = "none"
  BY <1>1, <1>2, AnsweringShape DEF Respond, TypeOK
<1>4. QED BY <1>3, StructureFrame DEF Respond, tables

LEMMA BeginUploadStructure ==
    ASSUME TypeOK, Structure, NEW c \in Fds, BeginUpload(c)
    PROVE  Structure'
<1>1. PICK ka \in BOOLEAN : conn' = [conn EXCEPT ![c].keep_alive = ka]
  BY DEF BeginUpload
<1>2. conn[c].up BY DEF BeginUpload, Idle
<1>3. \A f \in Fds : /\ conn'[f].up = conn[f].up
                     /\ conn'[f].cgi_active = conn[f].cgi_active
                     /\ ~conn[f].up => conn'[f] = conn[f]
  BY <1>1, <1>2 DEF TypeOK, ClientCon
<1>4. QED BY <1>3, StructureFrame DEF BeginUpload, tables

LEMMA PipesFailStructure ==
    ASSUME TypeOK, Structure, NEW c \in Fds, PipesFail(c)
    PROVE  Structure'
<1>1. PICK ka \in BOOLEAN : conn' = [conn EXCEPT ![c] = Answering(conn[c], ka)]
  BY DEF PipesFail
<1>2. conn[c].up /\ interest[c] # "none" /\ c \in open \ leaked
  BY UpDescriptor DEF PipesFail, Idle
<1>3. \A f \in Fds : /\ conn'[f].up = conn[f].up
                     /\ conn'[f].cgi_active = conn[f].cgi_active
                     /\ ~conn[f].up => conn'[f] = conn[f]
                     /\ interest'[f] = "none" <=> interest[f] = "none"
  BY <1>1, <1>2, AnsweringShape DEF PipesFail, TypeOK
<1>4. UNCHANGED <<tables, proc>> BY DEF PipesFail
<1>5. TablesAgree' BY <1>4 DEF Structure, TablesAgree, tables, Live
<1>6. ClientsAgree' BY <1>3, <1>4 DEF Structure, ClientsAgree, tables, Live
<1>7. NothingStale' BY <1>3, <1>4 DEF Structure, NothingStale, Live
<1>8. OneOwner'
  <2>1. Exclusive BY OneOwnerExclusive DEF Structure
  <2>2. MadePipes \subseteq FreeFds BY DEF MadePipes, NthLowest
  <2>3. open' = open \cup MadePipes /\ leaked' = leaked \cup MadePipes
    BY DEF PipesFail
  <2>4. \A f \in MadePipes : /\ interest[f] = "none" /\ ~conn[f].up /\ f \notin open
                             /\ stdin_map[f] = NoProc /\ processes[f] = NoProc
                             /\ stderr_map[f] = NoProc
    BY <2>2, FreeFdsUnused
  <2>5. Exclusive' BY <1>3, <1>4, <2>1, <2>3, <2>4 DEF Exclusive, tables
  <2>6. QED BY <2>5, OneOwnerExclusiveNext
<1>9. QED BY <1>5, <1>6, <1>7, <1>8 DEF Structure

\* What a step of Launch(c) chooses.
LEMMA LaunchPick ==
    ASSUME NEW c \in Fds, Launch(c)
    PROVE  \E p \in Pids, in \in FreeFds, out \in FreeFds, err \in FreeFds,
              first \in Nat, rest \in Nat, chunked \in BOOLEAN, ka \in BOOLEAN :
             /\ in # out /\ in # err /\ out # err
             /\ LaunchWith(c, p, in, out, err, first, rest, chunked, ka)
<1>1. PICK p \in Pids, in \in NthLowest(FreeFds, 2), out \in NthLowest(FreeFds, 3),
           err \in NthLowest(FreeFds, 5), first \in 0 .. MaxBody, rest \in 0 .. MaxBody,
           chunked \in BOOLEAN, ka \in BOOLEAN :
        LaunchWith(c, p, in, out, err, first, rest, chunked, ka)
  BY DEF Launch
<1>2. in # out /\ in # err /\ out # err BY DEF NthLowest
<1>3. in \in FreeFds /\ out \in FreeFds /\ err \in FreeFds BY DEF NthLowest
<1>4. first \in Nat /\ rest \in Nat BY BoundsAssumption
<1>5. QED BY <1>1, <1>2, <1>3, <1>4

LEMMA RunningShape ==
    ASSUME NEW k \in ClientCon, NEW ka, NEW body, NEW chunked, NEW rest
    PROVE  /\ Running(k, ka, body, chunked, rest).up = k.up
           /\ Running(k, ka, body, chunked, rest).cgi_active = TRUE
           /\ Running(k, ka, body, chunked, rest).unsent = k.unsent
           /\ Running(k, ka, body, chunked, rest).res_ready = k.res_ready
           /\ Running(k, ka, body, chunked, rest).close_after_send = k.close_after_send
BY DEF Running, ClientCon

LEMMA StartedShape ==
    ASSUME NEW c, NEW in, NEW out, NEW err, NEW body \in BOOLEAN, NEW first
    PROVE  /\ Started(c, in, out, err, body, first).client = c
           /\ Started(c, in, out, err, body, first).stdin = IF body THEN in ELSE NoFd
           /\ Started(c, in, out, err, body, first).stdout = out
           /\ Started(c, in, out, err, body, first).stderr = err
           /\ ~Started(c, in, out, err, body, first).headers_complete
           /\ ~Started(c, in, out, err, body, first).force_close
           /\ ~Started(c, in, out, err, body, first).pause_stdout
BY DEF Started, NoProcess

LEMMA LaunchStructure ==
    ASSUME TypeOK, Structure, NEW c \in Fds, Launch(c)
    PROVE  Structure'
<1>1. PICK p \in Pids, in \in FreeFds, out \in FreeFds, err \in FreeFds,
           first \in Nat, rest \in Nat, chunked \in BOOLEAN, ka \in BOOLEAN :
             /\ in # out /\ in # err /\ out # err
             /\ LaunchWith(c, p, in, out, err, first, rest, chunked, ka)
  BY LaunchPick
<1> DEFINE body == chunked \/ first > 0 \/ rest > 0
           q == Started(c, in, out, err, body, first)
<1>2. /\ LaunchAs(c, p, in, out, err, body)
      /\ proc' = [proc EXCEPT ![p] = q]
      /\ conn' = [conn EXCEPT ![c] = Running(conn[c], ka, body, chunked, rest)]
      /\ ~Live(p)
  BY <1>1 DEF LaunchWith
<1>3. body \in BOOLEAN OBVIOUS
<1> HIDE DEF body
<1>4. q.client = c /\ q.stdin = (IF body THEN in ELSE NoFd) /\ q.stdout = out /\ q.stderr = err
  BY <1>3, StartedShape
<1> HIDE DEF q
<1>5. conn[c].up /\ client_map[c] = NoProc /\ c \in open
  BY IdleStructure DEF Launch, Idle, WaitsForScript
<1>6. \A f \in {in, out, err} :
         /\ f \in Fds /\ f \notin open /\ f \notin leaked /\ interest[f] = "none"
         /\ ~conn[f].up /\ stdin_map[f] = NoProc /\ processes[f] = NoProc
         /\ stderr_map[f] = NoProc /\ client_map[f] = NoProc
  BY FreeFdsUnused
<1>7. /\ proc[p] = NoProcess
      /\ \A f \in Fds : /\ processes[f] # p /\ stdin_map[f] # p
                       /\ stderr_map[f] # p /\ client_map[f] # p
  BY <1>2, DeadProcess
<1>8. proc'[p] = q /\ \A r \in Pids : r # p => proc'[r] = proc[r]
  BY <1>2 DEF TypeOK
<1>9. /\ conn'[c].up /\ conn'[c].cgi_active
      /\ \A f \in Fds : f # c => conn'[f] = conn[f]
  BY <1>2, <1>5, RunningShape DEF TypeOK
<1>10. p # NoProc /\ leaked' = leaked BY NoProcAssumption DEF Launch
<1>11. /\ \A f \in Fds : processes'[f] = IF f = out THEN p ELSE processes[f]
       /\ \A f \in Fds : stdin_map'[f] = IF body /\ f = in THEN p ELSE stdin_map[f]
       /\ \A f \in Fds : stderr_map'[f] = IF f = err THEN p ELSE stderr_map[f]
       /\ \A f \in Fds : client_map'[f] = IF f = c THEN p ELSE client_map[f]
  BY <1>2 DEF LaunchAs, TypeOK
<1>12. TablesAgree'
  <2>1. \A r \in Pids, f \in Fds : processes'[f] = r <=> proc'[r].stdout = f
    BY <1>4, <1>6, <1>7, <1>8, <1>11, NoProcAssumption DEF Structure, TablesAgree
  <2>2. \A r \in Pids, f \in Fds : stdin_map'[f] = r <=> proc'[r].stdin = f
    BY <1>3, <1>4, <1>6, <1>7, <1>8, <1>11, NoProcAssumption, FdNotNoFd
       DEF Structure, TablesAgree
  <2>3. \A r \in Pids, f \in Fds : stderr_map'[f] = r <=> proc'[r].stderr = f
    BY <1>4, <1>6, <1>7, <1>8, <1>11, NoProcAssumption DEF Structure, TablesAgree
  <2>4. \A r \in Pids, f \in Fds : client_map'[f] = r <=> proc'[r].client = f
    BY <1>4, <1>5, <1>7, <1>8, <1>11, NoProcAssumption DEF Structure, TablesAgree
  <2>5. \A r \in pid_map' : Live(r)'
    <3>1. q.stdout # NoFd BY <1>4, <1>6, FdNotNoFd
    <3>2. pid_map' = pid_map \cup {p} BY <1>2 DEF LaunchAs
    <3>3. QED BY <1>8, <3>1, <3>2 DEF Structure, TablesAgree, Live, TypeOK
  <2>6. QED BY <2>1, <2>2, <2>3, <2>4, <2>5 DEF TablesAgree
<1>13. ClientsAgree'
  <2>1. \A r \in Pids : r # p /\ Live(r) => proc[r].client # c
    BY <1>5, <1>10, LiveProcess, NoProcAssumption
  <2>2. \A r \in Pids : Live(r)' =>
          /\ proc'[r].client \in Fds
          /\ conn'[proc'[r].client].up /\ conn'[proc'[r].client].cgi_active
    BY <1>4, <1>8, <1>9, <2>1 DEF Structure, ClientsAgree, Live
  <2>3. \A f \in Fds : conn'[f].cgi_active => client_map'[f] # NoProc
    BY <1>9, <1>10, <1>11 DEF Structure, ClientsAgree
  <2>4. QED BY <2>2, <2>3 DEF ClientsAgree
<1>14. NothingStale'
  <2>1. q.stdout # NoFd BY <1>4, <1>6, FdNotNoFd
  <2>2. QED BY <1>8, <1>9, <2>1 DEF Structure, NothingStale, Live
<1>15. OneOwner'
  <2>1. Exclusive BY OneOwnerExclusive DEF Structure
  <2>2. /\ open' = open \cup {out, err} \cup (IF body THEN {in} ELSE {})
        /\ \A f \in Fds : interest'[f] = IF f = in /\ body THEN "write"
                                        ELSE IF f \in {out, err} THEN "read"
                                        ELSE interest[f]
    BY <1>2 DEF LaunchAs
  <2>3. \A f \in Fds : conn'[f].up <=> conn[f].up BY <1>5, <1>9
  <2>4. Exclusive'
    <3> SUFFICES ASSUME NEW f \in Fds
        PROVE (/\ f \in open <=> \/ conn[f].up \/ stdin_map[f] # NoProc
                                 \/ processes[f] # NoProc \/ stderr_map[f] # NoProc
                                 \/ f \in leaked
               /\ conn[f].up => /\ stdin_map[f] = NoProc /\ processes[f] = NoProc
                                /\ stderr_map[f] = NoProc /\ f \notin leaked
               /\ stdin_map[f] # NoProc => /\ processes[f] = NoProc /\ stderr_map[f] = NoProc
                                           /\ f \notin leaked
               /\ processes[f] # NoProc => stderr_map[f] = NoProc /\ f \notin leaked
               /\ stderr_map[f] # NoProc => f \notin leaked
               /\ interest[f] # "none" <=> f \in open \ leaked)'
      BY DEF Exclusive
    <3>1. CASE f \in {in, out, err}
      BY <1>1, <1>3, <1>6, <1>10, <1>11, <2>2, <2>3, <3>1
    <3>2. CASE f \notin {in, out, err}
      BY <1>3, <1>10, <1>11, <2>1, <2>2, <2>3, <3>2 DEF Exclusive
    <3>3. QED BY <3>1, <3>2
  <2>5. QED BY <2>4, OneOwnerExclusiveNext
<1>16. QED BY <1>12, <1>13, <1>14, <1>15 DEF Structure

LEMMA ReceivingShape ==
    ASSUME NEW k \in ClientCon, NEW n, NEW done
    PROVE  /\ Receiving(k, n, done).up = k.up
           /\ Receiving(k, n, done).cgi_active = k.cgi_active
           /\ Receiving(k, n, done).unsent = k.unsent
           /\ Receiving(k, n, done).res_ready = k.res_ready
           /\ Receiving(k, n, done).keep_alive = k.keep_alive
           /\ Receiving(k, n, done).close_after_send = k.close_after_send
BY DEF Receiving, ClientCon

\* A step that changes only what p still has to write keeps p's descriptors.
LEMMA PendingShape ==
    ASSUME TypeOK, NEW p \in Pids, NEW n, proc' = [proc EXCEPT ![p].pending = n]
    PROVE  \A r \in Pids : /\ proc'[r].client = proc[r].client
                           /\ proc'[r].stdin = proc[r].stdin
                           /\ proc'[r].stdout = proc[r].stdout
                           /\ proc'[r].stderr = proc[r].stderr
                           /\ proc'[r].headers_complete = proc[r].headers_complete
                           /\ proc'[r].force_close = proc[r].force_close
                           /\ proc'[r].pause_stdout = proc[r].pause_stdout
                           /\ r # p => proc'[r] = proc[r]
BY DEF TypeOK, CgiProcess

LEMMA FeedBodyStructure ==
    ASSUME TypeOK, Structure, NEW c \in Fds, FeedBody(c)
    PROVE  Structure'
<1> DEFINE p == client_map[c]
<1>1. PICK n \in Feedable(c), done \in BOOLEAN :
        /\ conn' = [conn EXCEPT ![c] = Receiving(@, n, done)]
        /\ IF p = NoProc \/ proc[p].stdin = NoFd
             THEN UNCHANGED <<stdin_map, open, interest, proc>>
             ELSE IF done /\ proc[p].pending + n = 0
             THEN CloseStdin(p)
             ELSE /\ proc' = [proc EXCEPT ![p].pending = @ + n]
                  /\ interest' = IF n > 0
                                   THEN [interest EXCEPT ![proc[p].stdin] = "write"]
                                   ELSE interest
                  /\ UNCHANGED <<stdin_map, open>>
  BY DEF FeedBody
<1>2. conn[c].up /\ conn[c].cgi_active BY DEF FeedBody
<1>3. /\ UNCHANGED <<leaked, processes, stderr_map, client_map, pid_map>>
      /\ conn' \in [Fds -> ClientCon]
      /\ \A f \in Fds : /\ conn'[f].up = conn[f].up
                        /\ conn'[f].cgi_active = conn[f].cgi_active
                        /\ ~conn[f].up => conn'[f] = conn[f]
  <2>1. conn[c] \in ClientCon BY DEF TypeOK
  <2>2. n \in Nat /\ conn[c].cgi_body_remaining - n \in Nat
    BY <1>1, <2>1 DEF Feedable, ClientCon
  <2>3. Receiving(conn[c], n, done) \in ClientCon
    BY <2>1, <2>2 DEF ClientCon, Receiving
  <2>4. QED BY <1>1, <1>2, <2>1, <2>3, ReceivingShape DEF FeedBody, TypeOK
<1>4. p \in Pids /\ Live(p)
  BY <1>2, ClientsProcess DEF Structure, ClientsAgree
<1>5. p # NoProc BY <1>4, NoProcAssumption
<1>6. CASE proc[p].stdin = NoFd
  BY <1>1, <1>3, <1>6, StructureFrame
<1>7. CASE proc[p].stdin # NoFd /\ CloseStdin(p)
  BY <1>3, <1>4, <1>7, CloseStdinStructure
<1>8. CASE /\ proc[p].stdin # NoFd
           /\ proc' = [proc EXCEPT ![p].pending = @ + n]
           /\ interest' = (IF n > 0
                             THEN [interest EXCEPT ![proc[p].stdin] = "write"]
                             ELSE interest)
           /\ UNCHANGED <<stdin_map, open>>
  <2> HIDE DEF p
  <2>1. \A r \in Pids : /\ proc'[r].client = proc[r].client
                        /\ proc'[r].stdin = proc[r].stdin
                        /\ proc'[r].stdout = proc[r].stdout
                        /\ proc'[r].stderr = proc[r].stderr
                        /\ ~Live(r) => proc'[r] = proc[r]
    BY <1>4, <1>8, PendingShape DEF TypeOK
  <2>2. proc[p].stdin \in open \ leaked /\ proc[p].stdin \in Fds
    BY <1>4, <1>8, LiveProcess DEF Handles
  <2>3. interest[proc[p].stdin] # "none" BY <2>2 DEF Structure, OneOwner
  <2>4. \A f \in Fds : interest'[f] = "none" <=> interest[f] = "none"
    BY <1>8, <2>2, <2>3 DEF TypeOK
  <2>5. QED BY <1>3, <1>8, <2>1, <2>4, StructureFrame
<1>9. QED BY <1>1, <1>5, <1>6, <1>7, <1>8

LEMMA HandleStdinStructure ==
    ASSUME TypeOK, Structure, NEW f \in Fds, HandleStdin(f), ~ServerEnds
    PROVE  Structure'
<1> DEFINE p == stdin_map[f]
<1>1. p \in Pids BY DEF HandleStdin, TypeOK
<1>2. proc[p].stdin # NoFd BY <1>1, FdNotNoFd DEF Structure, TablesAgree
<1>3. UNCHANGED <<leaked, conn, processes, stderr_map, client_map, pid_map>>
  BY DEF HandleStdin
<1>4. CASE CloseStdin(p)
  <2>1. conn \in [Fds -> ClientCon] BY DEF TypeOK
  <2>2. QED BY <1>1, <1>2, <1>3, <1>4, <2>1, CloseStdinStructure
<1>5. CASE ~CloseStdin(p)
  <2>1. PICK n \in 1 .. proc[p].pending :
          /\ proc' = [proc EXCEPT ![p].pending = @ - n]
          /\ UNCHANGED <<stdin_map, open, interest>>
    BY <1>5 DEF HandleStdin
  <2>2. Live(p)
    BY <1>1, <1>2, FdNotNoFd DEF Structure, NothingStale, NoProcess
  <2> HIDE DEF p
  <2>3. \A r \in Pids : /\ proc'[r].client = proc[r].client
                        /\ proc'[r].stdin = proc[r].stdin
                        /\ proc'[r].stdout = proc[r].stdout
                        /\ proc'[r].stderr = proc[r].stderr
                        /\ ~Live(r) => proc'[r] = proc[r]
    BY <1>1, <2>1, <2>2, PendingShape DEF TypeOK
  <2>4. QED BY <1>3, <2>1, <2>3, StructureFrame
<1>6. QED BY <1>4, <1>5

LEMMA ForwardedShape ==
    ASSUME NEW k \in ClientCon, NEW p
    PROVE  /\ Forwarded(k, p).up = k.up
           /\ Forwarded(k, p).cgi_active = k.cgi_active
BY DEF Forwarded, ClientCon

\* The cases of HandleStdout.
LEMMA HandleStdoutCases ==
    ASSUME TypeOK, Structure, NEW f \in Fds, HandleStdout(f)
    PROVE  LET p == processes[f]
               c == proc[p].client
               bad == script[p].head = "bad" \/ (AtEof(p) /\ script[p].head = "unwritten")
               q == [proc[p] EXCEPT !.headers_complete = @ \/ ~bad,
                                    !.force_close = @ \/ script[p].head = "nolength"]
               k == Forwarded(conn[c], p)
               stalled == q.pause_stdout \/ k.unsent > Threshold
           IN  /\ p \in Pids /\ Live(p) /\ proc[p].stdout = f
               /\ leaked' = leaked /\ loop' = loop
               /\ \/ bad /\ CleanupProcess(p, proc[p], conn[c], "InvalidHeaders")
                  \/ ~bad /\ AtEof(p) /\ CleanupProcess(p, q, k, "Normal")
                  \/ /\ ~bad /\ ~AtEof(p) /\ HasOutput(p) /\ interest[f] = "read"
                     /\ proc' = [proc EXCEPT ![p] = [q EXCEPT !.pause_stdout = stalled]]
                     /\ conn' = [conn EXCEPT ![c] = k]
                     /\ interest' = [interest EXCEPT ![c] = "write",
                                                     ![f] = IF stalled THEN "off" ELSE @]
                     /\ script' = [script EXCEPT ![p] = [@ EXCEPT !.head = "read", !.body = 0]]
                     /\ UNCHANGED <<open, tables, sigPipe>>
<1>1. processes[f] \in Pids BY DEF HandleStdout, TypeOK
<1>2. proc[processes[f]].stdout = f BY <1>1 DEF Structure, TablesAgree
<1>3. Live(processes[f]) BY <1>2, FdNotNoFd DEF Live
<1>4. QED BY <1>1, <1>2, <1>3 DEF HandleStdout

LEMMA HandleStdoutStructure ==
    ASSUME TypeOK, Structure, NEW f \in Fds, HandleStdout(f)
    PROVE  Structure'
<1> DEFINE p == processes[f]
           c == proc[p].client
           bad == script[p].head = "bad" \/ (AtEof(p) /\ script[p].head = "unwritten")
           q == [proc[p] EXCEPT !.headers_complete = @ \/ ~bad,
                                !.force_close = @ \/ script[p].head = "nolength"]
           k == Forwarded(conn[c], p)
           stalled == q.pause_stdout \/ k.unsent > Threshold
           r == [q EXCEPT !.pause_stdout = stalled]
<1>1. p \in Pids /\ Live(p) /\ proc[p].stdout = f /\ leaked' = leaked
  BY HandleStdoutCases
<1>2. /\ c \in Fds /\ conn[c].up /\ conn[c] \in ClientCon /\ k \in ClientCon /\ k.up
      /\ k.cgi_active = conn[c].cgi_active
      /\ f # c /\ f \in open \ leaked /\ c \in open \ leaked
  <2>1. c \in Fds /\ conn[c].up /\ c \notin Handles(p) /\ c \in open \ leaked
        /\ Handles(p) \subseteq open \ leaked
    BY <1>1, LiveProcess
  <2>2. f \in Handles(p) BY <1>1 DEF Handles, Live
  <2>3. conn[c] \in ClientCon BY <2>1 DEF TypeOK
  <2> HIDE DEF p, c
  <2>4. QED BY <1>1, <2>1, <2>2, <2>3, ForwardedShape, ForwardedType DEF p, c
<1>3. CASE CleanupProcess(p, proc[p], conn[c], "InvalidHeaders")
  BY <1>1, <1>2, <1>3, CleanupStructure
<1>4. CASE CleanupProcess(p, q, k, "Normal")
  BY <1>1, <1>2, <1>4, CleanupStructure
<1>5. CASE /\ proc' = [proc EXCEPT ![p] = r]
           /\ conn' = [conn EXCEPT ![c] = k]
           /\ interest' = [interest EXCEPT ![c] = "write",
                                           ![f] = IF stalled THEN "off" ELSE @]
           /\ UNCHANGED <<open, tables, sigPipe>>
  <2>1. /\ r.client = proc[p].client /\ r.stdin = proc[p].stdin
        /\ r.stdout = proc[p].stdout /\ r.stderr = proc[p].stderr
    BY <1>1 DEF TypeOK, CgiProcess
  <2> HIDE DEF r, k, stalled, c
  <2>2. \A s \in Pids : /\ proc'[s].client = proc[s].client
                        /\ proc'[s].stdin = proc[s].stdin
                        /\ proc'[s].stdout = proc[s].stdout
                        /\ proc'[s].stderr = proc[s].stderr
                        /\ ~Live(s) => proc'[s] = proc[s]
    BY <1>1, <1>5, <2>1 DEF TypeOK
  <2>3. interest[f] # "none" /\ interest[c] # "none"
    BY <1>2 DEF Structure, OneOwner
  <2>4. \A g \in Fds : interest'[g] = "none" <=> interest[g] = "none"
    BY <1>2, <1>5, <2>3 DEF TypeOK
  <2>5. \A g \in Fds : /\ conn'[g].up = conn[g].up
                       /\ conn'[g].cgi_active = conn[g].cgi_active
                       /\ ~conn[g].up => conn'[g] = conn[g]
    BY <1>2, <1>5 DEF TypeOK
  <2>6. QED BY <1>1, <1>5, <2>2, <2>4, <2>5, StructureFrame DEF tables
<1>6. QED BY <1>3, <1>4, <1>5, HandleStdoutCases

LEMMA HandleStderrStructure ==
    ASSUME TypeOK, Structure, NEW f \in Fds, HandleStderr(f)
    PROVE  Structure'
<1> DEFINE p == stderr_map[f]
           q == [proc[p] EXCEPT !.stderr = NoFd]
<1>1. p \in Pids /\ p # NoProc BY DEF HandleStderr, TypeOK
<1>2. proc[p].stderr = f BY <1>1 DEF Structure, TablesAgree
<1>3. Live(p) BY <1>1, <1>2, FdNotNoFd DEF Structure, NothingStale, NoProcess
<1>4. /\ q.stderr = NoFd /\ q.stdout = proc[p].stdout
      /\ q.stdin = proc[p].stdin /\ q.client = proc[p].client
  BY <1>1 DEF TypeOK, CgiProcess
<1>5. proc' = [proc EXCEPT ![p] = q] BY DEF HandleStderr
<1> HIDE DEF q
<1>6. proc'[p] = q /\ \A r \in Pids : r # p => proc'[r] = proc[r]
  BY <1>1, <1>5 DEF TypeOK
<1>7. /\ stderr_map'[f] = NoProc /\ interest'[f] = "none" /\ open' = open \ {f}
      /\ \A g \in Fds : g # f => stderr_map'[g] = stderr_map[g] /\ interest'[g] = interest[g]
      /\ UNCHANGED <<leaked, conn, processes, stdin_map, client_map, pid_map>>
  BY DEF HandleStderr, TypeOK
<1>8. TablesAgree'
  <2>1. \A r \in Pids, g \in Fds : stderr_map'[g] = r <=> proc'[r].stderr = g
    BY <1>1, <1>2, <1>4, <1>6, <1>7, NoProcAssumption, FdNotNoFd DEF Structure, TablesAgree
  <2>2. \A r \in Pids : /\ proc'[r].stdout = proc[r].stdout
                        /\ proc'[r].stdin = proc[r].stdin
                        /\ proc'[r].client = proc[r].client
    BY <1>4, <1>6
  <2>3. \A r \in pid_map' : Live(r)'
    BY <1>7, <2>2 DEF Structure, TablesAgree, Live, TypeOK
  <2>4. QED BY <1>7, <2>1, <2>2, <2>3 DEF Structure, TablesAgree
<1>9. ClientsAgree' BY <1>4, <1>6, <1>7 DEF Structure, ClientsAgree, Live
<1>10. NothingStale'
  BY <1>3, <1>4, <1>6, <1>7 DEF Structure, NothingStale, Live
<1>11. OneOwner'
  <2>1. Exclusive BY OneOwnerExclusive DEF Structure
  <2>2. Exclusive' BY <1>1, <1>7, <2>1 DEF Exclusive
  <2>3. QED BY <2>2, OneOwnerExclusiveNext
<1>12. QED BY <1>8, <1>9, <1>10, <1>11 DEF Structure

\* What lifting the pause changes of the processes.
LEMMA UnpausedShape ==
    ASSUME TypeOK, Structure, NEW c \in Fds
    PROVE  /\ Unpaused(c) \in [Pids -> CgiProcess]
           /\ \A r \in Pids : /\ Unpaused(c)[r].client = proc[r].client
                              /\ Unpaused(c)[r].stdin = proc[r].stdin
                              /\ Unpaused(c)[r].stdout = proc[r].stdout
                              /\ Unpaused(c)[r].stderr = proc[r].stderr
                              /\ Unpaused(c)[r].headers_complete = proc[r].headers_complete
                              /\ Unpaused(c)[r].force_close = proc[r].force_close
                              /\ r # client_map[c] => Unpaused(c)[r] = proc[r]
                              /\ ~Live(r) => Unpaused(c)[r] = proc[r]
<1>1. CASE ~Resumes(c)
  BY <1>1 DEF Unpaused, TypeOK
<1>2. CASE Resumes(c)
  <2> DEFINE p == client_map[c]
             q == [proc[p] EXCEPT !.pause_stdout = FALSE]
  <2>1. p \in Pids /\ Live(p) BY <1>2, ClientsProcess DEF Resumes
  <2>2. proc[p] \in CgiProcess BY <2>1 DEF TypeOK
  <2> HIDE DEF p
  <2>3. /\ q \in CgiProcess
        /\ q.client = proc[p].client /\ q.stdin = proc[p].stdin
        /\ q.stdout = proc[p].stdout /\ q.stderr = proc[p].stderr
        /\ q.headers_complete = proc[p].headers_complete
        /\ q.force_close = proc[p].force_close
    BY <2>2 DEF CgiProcess
  <2>4. Unpaused(c) = [proc EXCEPT ![p] = q] BY <1>2 DEF Unpaused, p
  <2> HIDE DEF q
  <2>5. QED BY <2>1, <2>3, <2>4 DEF TypeOK, p
<1>3. QED BY <1>1, <1>2

LEMMA ReopenedShape ==
    ASSUME TypeOK, Structure, NEW c \in Fds
    PROVE  /\ Reopened(c) \in [Fds -> Interest]
           /\ \A f \in Fds : Reopened(c)[f] = IF Resumes(c) /\ f = proc[client_map[c]].stdout
                                           THEN "read" ELSE interest[f]
           /\ \A f \in Fds : Reopened(c)[f] = "none" <=> interest[f] = "none"
<1>1. CASE ~Resumes(c) BY <1>1 DEF Reopened, TypeOK
<1>2. CASE Resumes(c)
  <2> DEFINE p == client_map[c]
  <2>1. p \in Pids /\ Live(p) BY <1>2, ClientsProcess DEF Resumes
  <2> HIDE DEF p
  <2>2. proc[p].stdout \in Fds /\ proc[p].stdout \in open \ leaked
    BY <2>1, LiveProcess DEF Handles, Live
  <2>3. interest[proc[p].stdout] # "none" BY <2>2 DEF Structure, OneOwner
  <2>4. Reopened(c) = [interest EXCEPT ![proc[p].stdout] = "read"]
    BY <1>2 DEF Reopened, p
  <2>5. QED BY <1>2, <2>2, <2>3, <2>4 DEF TypeOK, Interest, p
<1>3. QED BY <1>1, <1>2

\* What a step of ClientWrite(c) does that does not close the connection.
WriteKeeps(c, n) ==
    LET done == n = conn[c].unsent
        sent == [conn[c] EXCEPT !.unsent = @ - n, !.res_ready = ~done]
        wakes == IF n > 0 /\ conn[c].cgi_active THEN Reopened(c) ELSE interest
    IN  /\ conn[c].unsent > 0 => n > 0
        /\ ~(done /\ ~conn[c].cgi_active
               /\ ~(conn[c].keep_alive /\ ~conn[c].close_after_send))
        /\ conn' = [conn EXCEPT ![c] = sent]
        /\ proc' = IF n > 0 /\ conn[c].cgi_active THEN Unpaused(c) ELSE proc
        /\ interest' = IF ~done THEN wakes
                       ELSE [wakes EXCEPT ![c] = IF conn[c].cgi_active THEN "off" ELSE "read"]
        /\ UNCHANGED <<open, leaked, tables, script, sigPipe, loop>>

LEMMA ClientWriteCases ==
    ASSUME NEW c \in Fds, ClientWrite(c)
    PROVE  /\ conn[c].up /\ conn[c].res_ready /\ interest[c] = "write"
           /\ \/ CloseClient(c) /\ ~conn[c].cgi_active
              \/ \E n \in 0 .. conn[c].unsent : WriteKeeps(c, n)
<1>1. PICK n \in 0 .. conn[c].unsent :
         LET done == n = conn[c].unsent
             lasting == conn[c].keep_alive /\ ~conn[c].close_after_send
             sent == [conn[c] EXCEPT !.unsent = @ - n, !.res_ready = ~done]
             wakes == IF n > 0 /\ conn[c].cgi_active THEN Reopened(c) ELSE interest
         IN  /\ conn[c].unsent > 0 => n > 0
             /\ IF done /\ ~conn[c].cgi_active /\ ~lasting
                  THEN CloseClient(c)
                  ELSE /\ conn' = [conn EXCEPT ![c] = sent]
                       /\ proc' = IF n > 0 /\ conn[c].cgi_active THEN Unpaused(c) ELSE proc
                       /\ interest' = IF ~done THEN wakes
                                      ELSE [wakes EXCEPT ![c] =
                                        IF conn[c].cgi_active THEN "off" ELSE "read"]
                       /\ UNCHANGED <<open, leaked, tables, script, sigPipe, loop>>
  BY DEF ClientWrite, DrainedInterest
<1>2. CASE /\ n = conn[c].unsent /\ ~conn[c].cgi_active
           /\ ~(conn[c].keep_alive /\ ~conn[c].close_after_send)
  BY <1>1, <1>2 DEF ClientWrite, DrainedInterest
<1>3. CASE ~(/\ n = conn[c].unsent /\ ~conn[c].cgi_active
             /\ ~(conn[c].keep_alive /\ ~conn[c].close_after_send))
  <2>1. WriteKeeps(c, n) BY <1>1, <1>3 DEF WriteKeeps
  <2>2. QED BY <2>1 DEF ClientWrite, DrainedInterest
<1>4. QED BY <1>2, <1>3

\* The connection after a write that does not close it.
LEMMA WriteKeepsShape ==
    ASSUME TypeOK, NEW c \in Fds, NEW n \in 0 .. conn[c].unsent, WriteKeeps(c, n)
    PROVE  /\ conn'[c].up = conn[c].up /\ conn'[c].cgi_active = conn[c].cgi_active
           /\ conn'[c].unsent = conn[c].unsent - n
           /\ conn'[c].res_ready <=> n # conn[c].unsent
           /\ conn'[c].keep_alive = conn[c].keep_alive
           /\ conn'[c].close_after_send = conn[c].close_after_send
           /\ \A f \in Fds : f # c => conn'[f] = conn[f]
<1> DEFINE k == [conn[c] EXCEPT !.unsent = conn[c].unsent - n,
                                !.res_ready = ~(n = conn[c].unsent)]
<1>1. conn' = [conn EXCEPT ![c] = k] BY DEF WriteKeeps
<1>2. conn[c] \in ClientCon BY DEF TypeOK
<1>3. /\ k.up = conn[c].up /\ k.cgi_active = conn[c].cgi_active
      /\ k.unsent = conn[c].unsent - n /\ (k.res_ready <=> n # conn[c].unsent)
      /\ k.keep_alive = conn[c].keep_alive
      /\ k.close_after_send = conn[c].close_after_send
  BY <1>2 DEF ClientCon
<1> HIDE DEF k
<1>4. QED BY <1>1, <1>3 DEF TypeOK

LEMMA ClientWriteStructure ==
    ASSUME TypeOK, Structure, NEW c \in Fds, ClientWrite(c)
    PROVE  Structure'
<1>1. conn[c].up /\ interest[c] = "write" BY ClientWriteCases
<1>2. CASE CloseClient(c) BY <1>1, <1>2, CloseClientStructure
<1>3. CASE \E n \in 0 .. conn[c].unsent : WriteKeeps(c, n)
  <2>1. PICK n \in 0 .. conn[c].unsent : WriteKeeps(c, n) BY <1>3
  <2>2. \A f \in Fds : /\ conn'[f].up = conn[f].up
                       /\ conn'[f].cgi_active = conn[f].cgi_active
                       /\ ~conn[f].up => conn'[f] = conn[f]
    BY <1>1, <2>1, WriteKeepsShape
  <2>3. \A r \in Pids : /\ proc'[r].client = proc[r].client
                        /\ proc'[r].stdin = proc[r].stdin
                        /\ proc'[r].stdout = proc[r].stdout
                        /\ proc'[r].stderr = proc[r].stderr
                        /\ ~Live(r) => proc'[r] = proc[r]
    BY <2>1, UnpausedShape DEF WriteKeeps
  <2>4. \A f \in Fds : interest'[f] = "none" <=> interest[f] = "none"
    BY <1>1, <2>1, ReopenedShape DEF WriteKeeps, TypeOK
  <2>5. QED BY <2>1, <2>2, <2>3, <2>4, StructureFrame DEF WriteKeeps, tables
<1>4. QED BY <1>2, <1>3, ClientWriteCases

LEMMA LiveClientCon ==
    ASSUME TypeOK, Structure, NEW p \in Pids, Live(p)
    PROVE  /\ proc[p] \in CgiProcess
           /\ conn[proc[p].client] \in ClientCon /\ conn[proc[p].client].up
BY LiveProcess DEF TypeOK

LEMMA ExpireStructure ==
    ASSUME TypeOK, Structure, NEW p \in Pids, Expire(p)
    PROVE  Structure'
BY LiveClientCon, CleanupStructure DEF Expire

LEMMA ReapChildStructure ==
    ASSUME TypeOK, Structure, NEW p \in Pids, ReapChild(p)
    PROVE  Structure'
<1>1. CASE p \in pid_map /\ CleanupProcess(p, proc[p], conn[proc[p].client], "ExecFailure")
  <2>1. Live(p) BY <1>1 DEF Structure, TablesAgree
  <2>2. QED BY <1>1, <2>1, LiveClientCon, CleanupStructure DEF ReapChild
<1>2. CASE /\ pid_map' = pid_map \ {p}
           /\ UNCHANGED <<open, interest, conn, processes, stdin_map, stderr_map,
                          client_map, proc, sigPipe>>
  BY <1>2, StructureFrame DEF ReapChild
<1>3. QED BY <1>1, <1>2 DEF ReapChild

LEMMA StructureNext ==
    ASSUME TypeOK, Structure, [Next]_vars
    PROVE  Structure'
<1>1. CASE NewConnection BY <1>1, NewConnectionStructure
<1>2. CASE AcceptFails
  <2>1. (Init => Structure)' BY InitStructure, PTL
  <2>2. QED BY <1>2, <2>1, AcceptFailsInit
<1>3. ASSUME NEW c \in Fds, \/ Respond(c) \/ BeginUpload(c) \/ PipesFail(c)
                            \/ Launch(c) \/ FeedBody(c) \/ ClientWrite(c) \/ ClientLeaves(c)
      PROVE  Structure'
  <2>1. CASE ClientLeaves(c) BY <2>1, CloseClientStructure DEF ClientLeaves
  <2>2. QED BY <1>3, <2>1, RespondStructure, BeginUploadStructure, PipesFailStructure,
               LaunchStructure, FeedBodyStructure, ClientWriteStructure
<1>4. ASSUME NEW f \in Fds, HandleStdin(f) \/ HandleStdout(f) \/ HandleStderr(f)
      PROVE  Structure'
  <2>1. CASE HandleStdin(f) /\ ServerEnds
    <3>1. (Init => Structure)' BY InitStructure, PTL
    <3>2. QED BY <2>1, <3>1, Crashes
  <2>2. QED
    BY <1>4, <2>1, HandleStdinStructure, HandleStdoutStructure, HandleStderrStructure
<1>5. ASSUME NEW p \in Pids, Expire(p) \/ ReapChild(p) PROVE Structure'
  BY <1>5, ExpireStructure, ReapChildStructure
<1>6. CASE UNCHANGED <<open, leaked, interest, conn, tables, proc>>
  BY <1>6, StructureFrame DEF tables
<1>7. ASSUME NEW p \in Pids, ScriptWrites(p) \/ ScriptExits(p) PROVE Structure'
  BY <1>6, <1>7 DEF ScriptWrites, ScriptExits
<1>8. CASE HandleSignalPipe \/ ReapDone \/ UNCHANGED vars
  BY <1>6, <1>8 DEF HandleSignalPipe, ReapDone, vars
<1>9. QED BY <1>1, <1>2, <1>3, <1>4, <1>5, <1>7, <1>8 DEF Next

\* The five tables of raw pointers, the process objects, the connections and
\* the open descriptors agree after every handler, whatever the number of
\* connections, scripts and descriptors: nothing dangles, nothing is closed
\* twice, and only a half-failed launch loses a descriptor.
THEOREM StructureInvariant == Spec => [](TablesAgree /\ ClientsAgree /\ OneOwner)
<1>1. TypeOK /\ Structure /\ [Next]_vars => Structure' BY StructureNext
<1>2. QED BY <1>1, TypeCorrect, InitStructure, PTL DEF Spec, Structure

\* So does every connection with its script (handleCgiRequest, cleanupProcess),
THEOREM ClientsAndScripts == Spec => []ClientsAgree
<1>1. QED BY StructureInvariant, PTL

\* and every open descriptor has one owner that will close it (launch,
\* ~CgiProcess, close_client).
THEOREM DescriptorOwned == Spec => []OneOwner
<1>1. QED BY StructureInvariant, PTL

-----------------------------------------------------------------------------
(* The inductive invariant, and what it gives.                             *)

\* A response under way: nothing is read from its client, and its bookkeeping.
ResponseKept == RelayUndisturbed /\ RelayBookkeeping

\* The part of IInv that the structure does not contain.
Rest == PipesPolled /\ PausedHasBacklog /\ ResponseKept /\ ClientArmed

LEMMA IInvParts == IInv <=> TypeOK /\ Structure /\ Rest /\ ChildrenWatched
BY DEF IInv, Rest, ResponseKept

\* A step that changes nothing a response depends on.
LEMMA RestFrame ==
    ASSUME TypeOK, Structure, Rest,
           processes' = processes,
           \A f \in Fds : /\ conn'[f].up = conn[f].up
                          /\ conn'[f].cgi_active = conn[f].cgi_active
                          /\ conn'[f].unsent = conn[f].unsent
                          /\ conn'[f].res_ready = conn[f].res_ready
                          /\ conn'[f].close_after_send = conn[f].close_after_send,
           \A f \in Fds : /\ conn[f].up \/ processes[f] # NoProc => interest'[f] = interest[f]
                          /\ stdin_map'[f] # NoProc => interest'[f] = "write"
                          /\ stderr_map'[f] # NoProc => interest'[f] = "read",
           \A p \in Pids : /\ proc'[p].client = proc[p].client
                           /\ proc'[p].stdout = proc[p].stdout
                           /\ proc'[p].headers_complete = proc[p].headers_complete
                           /\ proc'[p].force_close = proc[p].force_close
                           /\ proc'[p].pause_stdout = proc[p].pause_stdout
                           /\ script'[p].head = "read" <=> script[p].head = "read"
    PROVE  Rest'
<1>1. PipesPolled' BY DEF Rest, PipesPolled
<1>2. \A p \in Pids : /\ Live(p)' <=> Live(p)
                      /\ Live(p) => /\ proc[p].client \in Fds /\ conn[proc[p].client].up
                                    /\ proc[p].stdout \in Fds
                                    /\ processes[proc[p].stdout] # NoProc
  BY LiveProcess DEF Live
<1>3. PausedHasBacklog' BY <1>2 DEF Rest, PausedHasBacklog
<1>4. ResponseKept' BY <1>2 DEF Rest, ResponseKept, RelayUndisturbed, RelayBookkeeping
<1>5. ClientArmed' BY DEF Rest, ClientArmed
<1>6. QED BY <1>1, <1>3, <1>4, <1>5 DEF Rest

\* A step that changes one descriptor no process knows.
LEMMA RestStranger ==
    ASSUME TypeOK, Structure, Rest, NEW c \in Fds,
           client_map[c] = NoProc, processes[c] = NoProc,
           stdin_map[c] = NoProc, stderr_map[c] = NoProc,
           UNCHANGED <<tables, proc, script>>,
           \A f \in Fds : f # c => conn'[f] = conn[f] /\ interest'[f] = interest[f],
           conn'[c].up =>
              /\ conn'[c].res_ready => interest'[c] = "write"
              /\ ~conn'[c].cgi_active /\ ~conn'[c].res_ready =>
                   interest'[c] = "read" /\ conn'[c].unsent = 0 /\ ~conn'[c].close_after_send
              /\ interest'[c] = "off" => conn'[c].cgi_active
    PROVE  Rest'
<1>1. PipesPolled' BY DEF Rest, PipesPolled, tables
<1>2. \A p \in Pids : /\ Live(p)' <=> Live(p)
                      /\ Live(p) => /\ proc[p].client \in Fds /\ proc[p].stdout \in Fds
                                    /\ proc[p].client # c /\ proc[p].stdout # c
  BY LiveProcess DEF Live
<1>3. PausedHasBacklog' BY <1>2 DEF Rest, PausedHasBacklog
<1>4. ResponseKept' BY <1>2 DEF Rest, ResponseKept, RelayUndisturbed, RelayBookkeeping
<1>5. ClientArmed' BY DEF Rest, ClientArmed
<1>6. QED BY <1>1, <1>3, <1>4, <1>5 DEF Rest

\* The two facts about a response that its end relies on.
EndsWell(k, q) == q.headers_complete =>
    /\ k.unsent > 0 => k.res_ready
    /\ q.force_close <=> k.close_after_send

LEMMA LiveEndsWell ==
    ASSUME TypeOK, Structure, Rest, NEW p \in Pids, Live(p)
    PROVE  EndsWell(conn[proc[p].client], proc[p])
BY DEF Rest, ResponseKept, RelayUndisturbed, RelayBookkeeping, EndsWell

\* The end of a process leaves its client armed for what it has to do.
LEMMA AfterCgiArmed ==
    ASSUME NEW k \in ClientCon, NEW q, EndsWell(k, q), NEW reason
    PROVE  LET after == AfterCgi(k, q, reason)
           IN  /\ ~after.cgi_active
               /\ after.res_ready => Armed(after) = "write"
               /\ ~after.res_ready => /\ Armed(after) = "read" /\ after.unsent = 0
                                      /\ ~after.close_after_send
               /\ Armed(after) # "off"
               /\ after.keep_alive => /\ q.headers_complete /\ ~q.force_close
                                      /\ reason = "Normal"
<1> DEFINE after == AfterCgi(k, q, reason)
<1>1. CASE q.headers_complete
  <2> DEFINE remains == k.keep_alive /\ ~q.force_close /\ reason = "Normal"
  <2>1. /\ after.cgi_active = FALSE
        /\ after.keep_alive <=> remains
        /\ after.unsent = k.unsent
        /\ after.close_after_send <=> k.close_after_send
        /\ after.res_ready <=> k.res_ready \/ (k.unsent = 0 /\ ~remains)
    BY <1>1 DEF AfterCgi, ClientCon
  <2>2. k.unsent \in Nat BY DEF ClientCon
  <2> HIDE DEF after
  <2>3. ~after.res_ready => /\ after.unsent = 0 /\ ~after.close_after_send
    <3>1. (k.unsent > 0 => k.res_ready) /\ (q.force_close <=> k.close_after_send)
      BY <1>1 DEF EndsWell
    <3>2. SUFFICES ASSUME ~after.res_ready
                   PROVE  after.unsent = 0 /\ ~after.close_after_send
      OBVIOUS
    <3>3. ~k.res_ready /\ (k.unsent = 0 => remains) BY <2>1, <3>2
    <3>4. k.unsent = 0 BY <2>2, <3>1, <3>3
    <3>5. QED BY <2>1, <3>1, <3>3, <3>4
  <2>4. /\ after.res_ready => Armed(after) = "write"
        /\ ~after.res_ready => Armed(after) = "read"
        /\ Armed(after) # "off"
    BY <2>2, <2>3 DEF Armed
  <2>5. QED BY <1>1, <2>1, <2>3, <2>4 DEF after
<1>2. CASE ~q.headers_complete
  <2>1. /\ after.cgi_active = FALSE /\ after.keep_alive = FALSE
        /\ after.unsent = 1 /\ after.res_ready = TRUE
    BY <1>2 DEF AfterCgi, ClientCon
  <2>2. QED BY <2>1 DEF Armed
<1>3. QED BY <1>1, <1>2

\* What the end of one process leaves of the others.
LEMMA ReleaseRest ==
    ASSUME TypeOK, Structure, Rest, NEW p \in Pids, Live(p),
           NEW arm, NEW gone, gone \subseteq {proc[p].client},
           \A f \in Fds : f # proc[p].client => arm[f] = interest[f],
           Release(p, arm, gone),
           \A f \in Fds : f # proc[p].client => conn'[f] = conn[f]
    PROVE  /\ PipesPolled' /\ PausedHasBacklog' /\ ResponseKept'
           /\ \A f \in Fds : conn[f].up /\ f # proc[p].client => interest'[f] = interest[f]
           /\ gone = {} => interest'[proc[p].client] = arm[proc[p].client]
<1> DEFINE c == proc[p].client
<1>1. /\ c \in Fds /\ conn[c].up /\ c \notin Handles(p) /\ p # NoProc BY LiveProcess
<1>2. Exclusive BY OneOwnerExclusive DEF Structure
<1>3. \A f \in Fds : f \in Handles(p) <=> \/ processes[f] = p \/ stdin_map[f] = p
                                          \/ stderr_map[f] = p
  BY FdNotNoFd DEF Structure, TablesAgree, Handles
<1>4. \A f \in Fds : f \notin Handles(p) /\ f # c => interest'[f] = interest[f]
  BY DEF Release
<1>5. /\ proc'[p] = NoProcess /\ \A r \in Pids : r # p => proc'[r] = proc[r]
      /\ \A r \in Pids : r # p => script'[r] = script[r]
  BY DEF Release, TypeOK
<1>6. PipesPolled'
  <2>1. \A f \in Fds :
          /\ processes'[f] = IF processes[f] = p THEN NoProc ELSE processes[f]
          /\ stdin_map'[f] = IF stdin_map[f] = p THEN NoProc ELSE stdin_map[f]
          /\ stderr_map'[f] = IF stderr_map[f] = p THEN NoProc ELSE stderr_map[f]
    BY DEF Release, Structure, TablesAgree
  <2>2. \A f \in Fds : processes'[f] # NoProc \/ stdin_map'[f] # NoProc
                         \/ stderr_map'[f] # NoProc
                       => f # c /\ f \notin Handles(p)
    BY <1>1, <1>2, <1>3, <2>1 DEF Exclusive
  <2>3. QED BY <1>4, <2>1, <2>2 DEF Rest, PipesPolled
<1>7. \A r \in Pids : Live(r)' =>
        /\ r # p /\ Live(r) /\ proc'[r] = proc[r] /\ script'[r] = script[r]
        /\ proc[r].client \in Fds /\ conn'[proc[r].client] = conn[proc[r].client]
        /\ interest'[proc[r].client] = interest[proc[r].client]
        /\ interest'[proc[r].stdout] = interest[proc[r].stdout]
  <2> SUFFICES ASSUME NEW r \in Pids, Live(r)'
               PROVE  /\ r # p /\ Live(r) /\ proc'[r] = proc[r] /\ script'[r] = script[r]
                      /\ proc[r].client \in Fds
                      /\ conn'[proc[r].client] = conn[proc[r].client]
                      /\ interest'[proc[r].client] = interest[proc[r].client]
                      /\ interest'[proc[r].stdout] = interest[proc[r].stdout]
    OBVIOUS
  <2>1. r # p /\ Live(r) /\ proc'[r] = proc[r] BY <1>5 DEF Live, NoProcess
  <2>2. /\ proc[r].client \in Fds /\ proc[r].stdout \in Fds
        /\ conn[proc[r].client].up /\ processes[proc[r].stdout] = r
        /\ proc[r].client # c
    BY <2>1, LiveProcess, NoOtherClient
  <2>3. proc[r].stdout # c /\ proc[r].stdout \notin Handles(p)
        /\ proc[r].client \notin Handles(p)
    BY <1>1, <1>2, <1>3, <2>1, <2>2, NoProcAssumption DEF Exclusive
  <2>4. QED BY <1>4, <1>5, <2>1, <2>2, <2>3
<1>8. PausedHasBacklog' BY <1>7 DEF Rest, PausedHasBacklog
<1>9. ResponseKept' BY <1>7 DEF Rest, ResponseKept, RelayUndisturbed, RelayBookkeeping
<1>10. \A f \in Fds : conn[f].up /\ f # c => interest'[f] = interest[f]
  BY <1>1, <1>2, <1>3, <1>4 DEF Exclusive
<1>11. gone = {} => interest'[c] = arm[c] BY <1>1 DEF Release
<1>12. QED BY <1>6, <1>8, <1>9, <1>10, <1>11

LEMMA CleanupRest ==
    ASSUME TypeOK, Structure, Rest, NEW p \in Pids, Live(p), NEW q,
           NEW k \in ClientCon, EndsWell(k, q), NEW reason,
           CleanupProcess(p, q, k, reason)
    PROVE  Rest'
<1> DEFINE c == proc[p].client
           after == AfterCgi(k, q, reason)
           arm == [interest EXCEPT ![c] = Armed(after)]
<1>1. c \in Fds BY LiveProcess
<1>2. /\ Release(p, arm, {}) /\ conn' = [conn EXCEPT ![c] = after]
  BY DEF CleanupProcess
<1>3. /\ ~after.cgi_active
      /\ after.res_ready => Armed(after) = "write"
      /\ ~after.res_ready => /\ Armed(after) = "read" /\ after.unsent = 0
                             /\ ~after.close_after_send
      /\ Armed(after) # "off"
  BY AfterCgiArmed
<1> HIDE DEF after
<1>4. /\ conn'[c] = after /\ \A f \in Fds : f # c => conn'[f] = conn[f]
      /\ arm[c] = Armed(after) /\ \A f \in Fds : f # c => arm[f] = interest[f]
  BY <1>1, <1>2 DEF TypeOK
<1> HIDE DEF arm
<1>5. /\ PipesPolled' /\ PausedHasBacklog' /\ ResponseKept'
      /\ \A f \in Fds : conn[f].up /\ f # c => interest'[f] = interest[f]
      /\ interest'[c] = arm[c]
  BY <1>2, <1>4, ReleaseRest
<1>6. ClientArmed' BY <1>3, <1>4, <1>5 DEF Rest, ClientArmed
<1>7. QED BY <1>5, <1>6 DEF Rest

LEMMA CloseClientRest ==
    ASSUME TypeOK, Structure, Rest, NEW c \in Fds, conn[c].up, CloseClient(c)
    PROVE  Rest'
<1>1. ~conn'[c].up /\ \A f \in Fds : f # c => conn'[f] = conn[f]
  BY DEF CloseClient, NoConn, TypeOK
<1>2. CASE client_map[c] # NoProc /\ Release(client_map[c], interest, {c})
  <2> DEFINE p == client_map[c]
  <2>1. p \in Pids /\ Live(p) /\ proc[p].client = c BY <1>2, ClientsProcess
  <2> HIDE DEF p
  <2>2. Release(p, interest, {c}) BY <1>2 DEF p
  <2>3. /\ PipesPolled' /\ PausedHasBacklog' /\ ResponseKept'
        /\ \A f \in Fds : conn[f].up /\ f # c => interest'[f] = interest[f]
    BY <1>1, <2>1, <2>2, ReleaseRest
  <2>4. ClientArmed' BY <1>1, <2>3 DEF Rest, ClientArmed
  <2>5. QED BY <2>3, <2>4 DEF Rest
<1>3. CASE /\ client_map[c] = NoProc
           /\ interest' = [interest EXCEPT ![c] = "none"]
           /\ UNCHANGED <<tables, proc, script>>
  <2>1. processes[c] = NoProc /\ stdin_map[c] = NoProc /\ stderr_map[c] = NoProc
    BY OneOwnerExclusive DEF Structure, Exclusive
  <2>2. \A f \in Fds : f # c => interest'[f] = interest[f] BY <1>3 DEF TypeOK
  <2>3. QED BY <1>1, <1>3, <2>1, <2>2, RestStranger
<1>4. QED BY <1>2, <1>3 DEF CloseClient

LEMMA InitRest == Init => Rest /\ ChildrenWatched
BY DEF Init, Rest, PipesPolled, PausedHasBacklog, ResponseKept, RelayUndisturbed, RelayBookkeeping, ClientArmed,
       ChildrenWatched, Live, NoProcess, NoConn, Silent

LEMMA NewConnectionRest ==
    ASSUME TypeOK, Structure, Rest, NewConnection
    PROVE  Rest'
<1>1. PICK c \in FreeFds : /\ conn' = [conn EXCEPT ![c] = NewConn]
                          /\ interest' = [interest EXCEPT ![c] = "read"]
  BY DEF NewConnection, NthLowest
<1>2. /\ c \in Fds /\ stdin_map[c] = NoProc /\ processes[c] = NoProc
      /\ stderr_map[c] = NoProc /\ client_map[c] = NoProc
  BY FreeFdsUnused
<1>3. /\ conn'[c] = NewConn /\ interest'[c] = "read"
      /\ \A f \in Fds : f # c => conn'[f] = conn[f] /\ interest'[f] = interest[f]
  BY <1>1, <1>2 DEF TypeOK
<1>4. NewConn.unsent = 0 /\ ~NewConn.res_ready /\ ~NewConn.close_after_send
  BY DEF NewConn, NoConn
<1>5. UNCHANGED <<tables, proc, script>> BY DEF NewConnection
<1>6. QED BY <1>2, <1>3, <1>4, <1>5, RestStranger

\* A connection that has no script is a stranger to every process.
LEMMA IdleStranger ==
    ASSUME TypeOK, Structure, NEW c \in Fds, conn[c].up, ~conn[c].cgi_active
    PROVE  /\ client_map[c] = NoProc /\ processes[c] = NoProc
           /\ stdin_map[c] = NoProc /\ stderr_map[c] = NoProc
BY IdleStructure, OneOwnerExclusive DEF Structure, Exclusive

LEMMA AnswerRest ==
    ASSUME TypeOK, Structure, Rest, NEW c \in Fds, Respond(c) \/ PipesFail(c)
    PROVE  Rest'
<1>1. PICK ka \in BOOLEAN : conn' = [conn EXCEPT ![c] = Answering(conn[c], ka)]
  BY DEF Respond, PipesFail
<1>2. conn[c].up /\ interest[c] = "read" BY DEF Respond, PipesFail, Idle
<1>3. /\ interest' = [interest EXCEPT ![c] = "write"]
      /\ UNCHANGED <<tables, proc, script>>
  BY DEF Respond, PipesFail
<1>4. /\ conn'[c] = Answering(conn[c], ka) /\ interest'[c] = "write"
      /\ \A f \in Fds : f # c => conn'[f] = conn[f] /\ interest'[f] = interest[f]
  BY <1>1, <1>3 DEF TypeOK
<1>5. /\ conn'[c].res_ready /\ conn'[c].cgi_active = conn[c].cgi_active
      /\ conn'[c].close_after_send = conn[c].close_after_send
  BY <1>4 DEF Answering, TypeOK, ClientCon
<1>6. processes[c] = NoProc /\ stdin_map[c] = NoProc /\ stderr_map[c] = NoProc
  BY <1>2, UpDescriptor
<1>7. \A p \in Pids : /\ Live(p)' <=> Live(p)
                      /\ Live(p) => /\ proc[p].client \in Fds /\ proc[p].stdout \in Fds
                                    /\ proc[p].stdout # c
  BY <1>3, <1>6, LiveProcess DEF Live
<1>8. PipesPolled' BY <1>3, <1>4, <1>6 DEF Rest, PipesPolled, tables
<1>9. PausedHasBacklog' BY <1>2, <1>3, <1>4, <1>7 DEF Rest, PausedHasBacklog
<1>10. RelayUndisturbed' BY <1>3, <1>4, <1>7 DEF Rest, ResponseKept, RelayUndisturbed
<1>11. RelayBookkeeping'
  BY <1>3, <1>4, <1>5, <1>7 DEF Rest, ResponseKept, RelayBookkeeping
<1>12. ClientArmed' BY <1>4, <1>5 DEF Rest, ClientArmed
<1>13. QED BY <1>8, <1>9, <1>10, <1>11, <1>12 DEF Rest, ResponseKept

LEMMA BeginUploadRest ==
    ASSUME TypeOK, Structure, Rest, NEW c \in Fds, BeginUpload(c)
    PROVE  Rest'
<1>1. PICK ka \in BOOLEAN : conn' = [conn EXCEPT ![c].keep_alive = ka]
  BY DEF BeginUpload
<1>2. \A f \in Fds : /\ conn'[f].up = conn[f].up
                     /\ conn'[f].cgi_active = conn[f].cgi_active
                     /\ conn'[f].unsent = conn[f].unsent
                     /\ conn'[f].res_ready = conn[f].res_ready
                     /\ conn'[f].close_after_send = conn[f].close_after_send
  BY <1>1 DEF TypeOK, ClientCon
<1>3. UNCHANGED <<interest, tables, proc, script>> BY DEF BeginUpload
<1>4. QED BY <1>2, <1>3, RestFrame DEF Rest, PipesPolled, tables

LEMMA LaunchRest ==
    ASSUME TypeOK, Structure, Rest, NEW c \in Fds, Launch(c)
    PROVE  Rest'
<1>1. PICK p \in Pids, in \in FreeFds, out \in FreeFds, err \in FreeFds,
           first \in Nat, rest \in Nat, chunked \in BOOLEAN, ka \in BOOLEAN :
             /\ in # out /\ in # err /\ out # err
             /\ LaunchWith(c, p, in, out, err, first, rest, chunked, ka)
  BY LaunchPick
<1> DEFINE body == chunked \/ first > 0 \/ rest > 0
           q == Started(c, in, out, err, body, first)
           k == Running(conn[c], ka, body, chunked, rest)
<1>2. /\ LaunchAs(c, p, in, out, err, body)
      /\ proc' = [proc EXCEPT ![p] = q] /\ conn' = [conn EXCEPT ![c] = k]
      /\ ~Live(p)
  BY <1>1 DEF LaunchWith
<1>3. body \in BOOLEAN OBVIOUS
<1> HIDE DEF body
<1>4. /\ q.client = c /\ q.stdout = out
      /\ ~q.headers_complete /\ ~q.force_close /\ ~q.pause_stdout
  BY <1>3, StartedShape
<1>5. /\ conn[c].up /\ ~conn[c].cgi_active /\ ~conn[c].res_ready
      /\ interest[c] = "read" /\ conn[c].unsent = 0 /\ ~conn[c].close_after_send
  BY DEF Launch, Idle, WaitsForScript, Rest, ClientArmed
<1>6. /\ k.up /\ k.cgi_active /\ k.unsent = 0 /\ ~k.res_ready /\ ~k.close_after_send
  <2>1. conn[c] \in ClientCon BY DEF TypeOK
  <2>2. /\ k.up = conn[c].up /\ k.cgi_active = TRUE /\ k.unsent = conn[c].unsent
        /\ k.res_ready = conn[c].res_ready
        /\ k.close_after_send = conn[c].close_after_send
    BY <2>1 DEF Running, ClientCon
  <2> HIDE DEF k
  <2>3. QED BY <1>5, <2>2
<1> HIDE DEF q, k
<1>7. /\ proc'[p] = q /\ \A r \in Pids : r # p => proc'[r] = proc[r]
      /\ conn'[c] = k /\ \A f \in Fds : f # c => conn'[f] = conn[f]
      /\ script'[p] = Silent("run") /\ \A r \in Pids : r # p => script'[r] = script[r]
  BY <1>2 DEF LaunchAs, TypeOK
<1>8. \A f \in {in, out, err} :
         /\ f \in Fds /\ ~conn[f].up /\ stdin_map[f] = NoProc
         /\ processes[f] = NoProc /\ stderr_map[f] = NoProc
  BY FreeFdsUnused
<1>9. /\ \A f \in Fds : interest'[f] = IF f = in /\ body THEN "write"
                                     ELSE IF f \in {out, err} THEN "read"
                                     ELSE interest[f]
      /\ \A f \in Fds : processes'[f] = IF f = out THEN p ELSE processes[f]
      /\ \A f \in Fds : stdin_map'[f] = IF body /\ f = in THEN p ELSE stdin_map[f]
      /\ \A f \in Fds : stderr_map'[f] = IF f = err THEN p ELSE stderr_map[f]
  BY <1>2, <1>3 DEF LaunchAs, TypeOK
<1>10. interest'[c] = "read" /\ interest'[out] = "read"
  BY <1>1, <1>5, <1>8, <1>9
<1>11. PipesPolled'
  <2>1. Exclusive BY OneOwnerExclusive DEF Structure
  <2>2. QED BY <1>1, <1>3, <1>8, <1>9, <2>1 DEF Rest, PipesPolled, Exclusive
<1>12. \A r \in Pids : r # p /\ Live(r)' =>
          /\ Live(r) /\ proc'[r] = proc[r] /\ script'[r] = script[r]
          /\ conn'[proc[r].client] = conn[proc[r].client]
          /\ interest'[proc[r].client] = interest[proc[r].client]
          /\ interest'[proc[r].stdout] = interest[proc[r].stdout]
  <2> SUFFICES ASSUME NEW r \in Pids, r # p, Live(r)'
               PROVE  /\ Live(r) /\ proc'[r] = proc[r] /\ script'[r] = script[r]
                      /\ conn'[proc[r].client] = conn[proc[r].client]
                      /\ interest'[proc[r].client] = interest[proc[r].client]
                      /\ interest'[proc[r].stdout] = interest[proc[r].stdout]
    OBVIOUS
  <2>1. Live(r) /\ proc'[r] = proc[r] /\ script'[r] = script[r] BY <1>7 DEF Live
  <2>2. /\ proc[r].client \in Fds /\ proc[r].stdout \in Fds
        /\ conn[proc[r].client].up /\ conn[proc[r].client].cgi_active
        /\ processes[proc[r].stdout] = r /\ r # NoProc
    BY <2>1, LiveProcess
  <2>3. proc[r].client # c /\ proc[r].client \notin {in, out, err}
        /\ proc[r].stdout \notin {in, out, err}
    BY <1>5, <1>8, <2>2
  <2>4. QED BY <1>7, <1>9, <2>1, <2>2, <2>3
<1>13. PausedHasBacklog'
  <2>1. Live(p)' => /\ proc'[p].pause_stdout <=> interest'[proc'[p].stdout] = "off"
                    /\ ~proc'[p].pause_stdout
    BY <1>4, <1>7, <1>10
  <2>2. QED BY <1>12, <2>1 DEF Rest, PausedHasBacklog
<1>14. ResponseKept'
  <2>1. script'[p].head # "read" BY <1>7 DEF Silent
  <2>2. QED BY <1>4, <1>6, <1>7, <1>12, <2>1 DEF Rest, ResponseKept, RelayUndisturbed, RelayBookkeeping
<1>15. ClientArmed'
  <2>1. \A f \in Fds : conn[f].up /\ f # c => interest'[f] = interest[f]
    BY <1>8, <1>9
  <2>2. QED BY <1>6, <1>7, <1>10, <2>1 DEF Rest, ClientArmed
<1>16. QED BY <1>11, <1>13, <1>14, <1>15 DEF Rest

\* Closing stdin changes nothing else.
LEMMA CloseStdinRest ==
    ASSUME TypeOK, Structure, Rest, NEW p \in Pids, proc[p].stdin # NoFd, CloseStdin(p),
           \A f \in Fds : /\ conn'[f].up = conn[f].up
                          /\ conn'[f].cgi_active = conn[f].cgi_active
                          /\ conn'[f].unsent = conn[f].unsent
                          /\ conn'[f].res_ready = conn[f].res_ready
                          /\ conn'[f].close_after_send = conn[f].close_after_send,
           UNCHANGED <<processes, stderr_map, script>>
    PROVE  Rest'
<1> DEFINE g == proc[p].stdin
           q == [proc[p] EXCEPT !.stdin = NoFd, !.pending = 0]
<1>1. g \in Fds /\ stdin_map[g] = p /\ p # NoProc /\ proc[p] \in CgiProcess
  <2>1. g \in Fds /\ proc[p] \in CgiProcess BY DEF TypeOK, CgiProcess
  <2>2. QED BY <2>1, NoProcAssumption DEF Structure, TablesAgree
<1>2. /\ q.client = proc[p].client /\ q.stdout = proc[p].stdout
      /\ q.headers_complete = proc[p].headers_complete
      /\ q.force_close = proc[p].force_close /\ q.pause_stdout = proc[p].pause_stdout
  BY <1>1 DEF CgiProcess
<1>3. proc'[p] = q /\ \A r \in Pids : r # p => proc'[r] = proc[r]
  BY <1>1 DEF CloseStdin, TypeOK, CgiProcess
<1> HIDE DEF q
<1>4. /\ stdin_map'[g] = NoProc /\ \A f \in Fds : f # g => stdin_map'[f] = stdin_map[f]
      /\ \A f \in Fds : f # g => interest'[f] = interest[f]
  BY <1>1 DEF CloseStdin, TypeOK
<1>5. ~conn[g].up /\ processes[g] = NoProc /\ stderr_map[g] = NoProc
  BY <1>1, OneOwnerExclusive DEF Structure, Exclusive
<1>6. \A f \in Fds : /\ conn[f].up \/ processes[f] # NoProc => interest'[f] = interest[f]
                     /\ stdin_map'[f] # NoProc => interest'[f] = "write"
                     /\ stderr_map'[f] # NoProc => interest'[f] = "read"
  BY <1>4, <1>5 DEF Rest, PipesPolled
<1>7. QED BY <1>2, <1>3, <1>6, RestFrame

LEMMA FeedBodyRest ==
    ASSUME TypeOK, Structure, Rest, NEW c \in Fds, FeedBody(c)
    PROVE  Rest'
<1> DEFINE p == client_map[c]
<1>1. PICK n \in Feedable(c), done \in BOOLEAN :
        /\ conn' = [conn EXCEPT ![c] = Receiving(@, n, done)]
        /\ IF p = NoProc \/ proc[p].stdin = NoFd
             THEN UNCHANGED <<stdin_map, open, interest, proc>>
             ELSE IF done /\ proc[p].pending + n = 0
             THEN CloseStdin(p)
             ELSE /\ proc' = [proc EXCEPT ![p].pending = @ + n]
                  /\ interest' = IF n > 0
                                   THEN [interest EXCEPT ![proc[p].stdin] = "write"]
                                   ELSE interest
                  /\ UNCHANGED <<stdin_map, open>>
  BY DEF FeedBody
<1>2. conn[c].up /\ conn[c].cgi_active BY DEF FeedBody
<1>3. /\ UNCHANGED <<processes, stderr_map, script>>
      /\ \A f \in Fds : /\ conn'[f].up = conn[f].up
                        /\ conn'[f].cgi_active = conn[f].cgi_active
                        /\ conn'[f].unsent = conn[f].unsent
                        /\ conn'[f].res_ready = conn[f].res_ready
                        /\ conn'[f].close_after_send = conn[f].close_after_send
  <2>1. conn[c] \in ClientCon BY DEF TypeOK
  <2>2. QED BY <1>1, <2>1, ReceivingShape DEF FeedBody, TypeOK
<1>4. p \in Pids /\ Live(p) /\ p # NoProc
  BY <1>2, ClientsProcess, NoProcAssumption DEF Structure, ClientsAgree
<1>5. CASE proc[p].stdin = NoFd
  BY <1>1, <1>3, <1>5, RestFrame DEF Rest, PipesPolled
<1>6. CASE proc[p].stdin # NoFd /\ CloseStdin(p)
  BY <1>3, <1>4, <1>6, CloseStdinRest
<1>7. CASE /\ proc[p].stdin # NoFd
           /\ proc' = [proc EXCEPT ![p].pending = @ + n]
           /\ interest' = (IF n > 0
                             THEN [interest EXCEPT ![proc[p].stdin] = "write"]
                             ELSE interest)
           /\ UNCHANGED <<stdin_map, open>>
  <2> HIDE DEF p
  <2>1. /\ proc[p].stdin \in Fds /\ stdin_map[proc[p].stdin] = p
        /\ interest[proc[p].stdin] = "write"
    BY <1>4, <1>7, LiveProcess DEF Rest, PipesPolled
  <2>2. interest' = interest BY <1>7, <2>1 DEF TypeOK
  <2>3. \A r \in Pids : /\ proc'[r].client = proc[r].client
                        /\ proc'[r].stdout = proc[r].stdout
                        /\ proc'[r].headers_complete = proc[r].headers_complete
                        /\ proc'[r].force_close = proc[r].force_close
                        /\ proc'[r].pause_stdout = proc[r].pause_stdout
    BY <1>4, <1>7, PendingShape
  <2>4. QED BY <1>3, <1>7, <2>2, <2>3, RestFrame DEF Rest, PipesPolled
<1>8. QED BY <1>1, <1>4, <1>5, <1>6, <1>7

LEMMA HandleStdinRest ==
    ASSUME TypeOK, Structure, Rest, NEW f \in Fds, HandleStdin(f), ~ServerEnds
    PROVE  Rest'
<1> DEFINE p == stdin_map[f]
<1>1. p \in Pids /\ proc[p].stdin = f /\ f # NoFd
  BY FdNotNoFd DEF HandleStdin, TypeOK, Structure, TablesAgree
<1>2. UNCHANGED <<conn, processes, stderr_map, script>> BY DEF HandleStdin
<1>3. CASE CloseStdin(p) BY <1>1, <1>2, <1>3, CloseStdinRest
<1>4. CASE /\ \E n \in Nat : proc' = [proc EXCEPT ![p].pending = n]
           /\ UNCHANGED <<stdin_map, open, interest>>
  <2> HIDE DEF p
  <2>1. \A r \in Pids : /\ proc'[r].client = proc[r].client
                        /\ proc'[r].stdout = proc[r].stdout
                        /\ proc'[r].headers_complete = proc[r].headers_complete
                        /\ proc'[r].force_close = proc[r].force_close
                        /\ proc'[r].pause_stdout = proc[r].pause_stdout
    BY <1>1, <1>4, PendingShape
  <2>2. QED BY <1>2, <1>4, <2>1, RestFrame DEF Rest, PipesPolled
<1>5. ASSUME NEW n \in 1 .. proc[p].pending, n # proc[p].pending
      PROVE  proc[p].pending - n \in Nat
  BY <1>1 DEF TypeOK, CgiProcess
<1>6. QED BY <1>3, <1>4, <1>5 DEF HandleStdin

LEMMA HandleStderrRest ==
    ASSUME TypeOK, Structure, Rest, NEW f \in Fds, HandleStderr(f)
    PROVE  Rest'
<1> DEFINE p == stderr_map[f]
<1>1. p \in Pids /\ ~conn[f].up /\ processes[f] = NoProc /\ stdin_map[f] = NoProc
  BY OneOwnerExclusive DEF HandleStderr, TypeOK, Structure, Exclusive
<1>2. \A r \in Pids : /\ proc'[r].client = proc[r].client
                      /\ proc'[r].stdout = proc[r].stdout
                      /\ proc'[r].headers_complete = proc[r].headers_complete
                      /\ proc'[r].force_close = proc[r].force_close
                      /\ proc'[r].pause_stdout = proc[r].pause_stdout
  BY <1>1 DEF HandleStderr, TypeOK, CgiProcess
<1>3. /\ UNCHANGED <<conn, processes, stdin_map, script>>
      /\ stderr_map'[f] = NoProc
      /\ \A g \in Fds : g # f => /\ interest'[g] = interest[g]
                                /\ stderr_map'[g] = stderr_map[g]
  BY DEF HandleStderr, TypeOK
<1>4. \A g \in Fds : /\ conn[g].up \/ processes[g] # NoProc => interest'[g] = interest[g]
                     /\ stdin_map'[g] # NoProc => interest'[g] = "write"
                     /\ stderr_map'[g] # NoProc => interest'[g] = "read"
  BY <1>1, <1>3 DEF Rest, PipesPolled
<1>5. QED BY <1>2, <1>3, <1>4, RestFrame

LEMMA ExpireRest ==
    ASSUME TypeOK, Structure, Rest, NEW p \in Pids, Expire(p)
    PROVE  Rest'
BY LiveClientCon, LiveEndsWell, CleanupRest DEF Expire

LEMMA ReapChildRest ==
    ASSUME TypeOK, Structure, Rest, NEW p \in Pids, ReapChild(p)
    PROVE  Rest'
<1>1. CASE p \in pid_map /\ CleanupProcess(p, proc[p], conn[proc[p].client], "ExecFailure")
  <2>1. Live(p) BY <1>1 DEF Structure, TablesAgree
  <2>2. QED BY <1>1, <2>1, LiveClientCon, LiveEndsWell, CleanupRest
<1>2. CASE /\ script' = [script EXCEPT ![p].st = "none"]
           /\ UNCHANGED <<open, interest, conn, processes, stdin_map, stderr_map,
                          client_map, proc, sigPipe>>
  <2>1. \A r \in Pids : script'[r].head = script[r].head
    BY <1>2 DEF TypeOK, Script
  <2>2. QED BY <1>2, <2>1, RestFrame DEF Rest, PipesPolled
<1>3. QED BY <1>1, <1>2 DEF ReapChild

\* What reading a script's output does to its client.
LEMMA ForwardedResponse ==
    ASSUME TypeOK, NEW p \in Pids, NEW k \in ClientCon
    PROVE  /\ ~HasOutput(p) => Forwarded(k, p) = k
           /\ HasOutput(p) =>
                /\ Forwarded(k, p).up = k.up
                /\ Forwarded(k, p).cgi_active = k.cgi_active
                /\ Forwarded(k, p).unsent > 0
                /\ Forwarded(k, p).unsent
                     = k.unsent + (IF script[p].head = "read" THEN 0 ELSE 1) + script[p].body
                /\ Forwarded(k, p).res_ready = TRUE
                /\ Forwarded(k, p).close_after_send
                     = (k.close_after_send \/ script[p].head = "nolength")
<1>1. ~HasOutput(p) => Forwarded(k, p) = k BY DEF Forwarded
<1>2. ASSUME HasOutput(p)
      PROVE  /\ Forwarded(k, p).up = k.up
             /\ Forwarded(k, p).cgi_active = k.cgi_active
             /\ Forwarded(k, p).unsent > 0
             /\ Forwarded(k, p).unsent
                  = k.unsent + (IF script[p].head = "read" THEN 0 ELSE 1) + script[p].body
             /\ Forwarded(k, p).res_ready = TRUE
             /\ Forwarded(k, p).close_after_send
                  = (k.close_after_send \/ script[p].head = "nolength")
  <2> DEFINE header == IF script[p].head = "read" THEN 0 ELSE 1
  <2>1. script[p].body \in Nat /\ k.unsent \in Nat BY DEF TypeOK, Script, ClientCon
  <2>2. header + script[p].body > 0 BY <1>2, <2>1 DEF HasOutput
  <2>3. header \in Nat OBVIOUS
  <2>4. /\ Forwarded(k, p).unsent = k.unsent + header + script[p].body
        /\ Forwarded(k, p).up = k.up
        /\ Forwarded(k, p).cgi_active = k.cgi_active
        /\ Forwarded(k, p).res_ready = TRUE
        /\ Forwarded(k, p).close_after_send
             = (k.close_after_send \/ script[p].head = "nolength")
    BY <1>2 DEF Forwarded, ClientCon
  <2> HIDE DEF header
  <2>5. Forwarded(k, p).unsent > 0 BY <2>1, <2>2, <2>3, <2>4
  <2>6. QED BY <2>4, <2>5 DEF header
<1>3. QED BY <1>1, <1>2

LEMMA HandleStdoutRest ==
    ASSUME TypeOK, Structure, Rest, NEW f \in Fds, HandleStdout(f)
    PROVE  Rest'
<1> DEFINE p == processes[f]
           c == proc[p].client
           bad == script[p].head = "bad" \/ (AtEof(p) /\ script[p].head = "unwritten")
           q == [proc[p] EXCEPT !.headers_complete = @ \/ ~bad,
                                !.force_close = @ \/ script[p].head = "nolength"]
           k == Forwarded(conn[c], p)
           stalled == q.pause_stdout \/ k.unsent > Threshold
           r == [q EXCEPT !.pause_stdout = stalled]
<1>1. p \in Pids /\ Live(p) /\ proc[p].stdout = f /\ f \notin {c} /\ ~conn[f].up
  <2>1. p \in Pids /\ Live(p) /\ proc[p].stdout = f BY HandleStdoutCases
  <2>2. processes[f] # NoProc /\ conn[c].up BY <2>1, LiveProcess
  <2>3. QED BY <2>1, <2>2, OneOwnerExclusive DEF Structure, Exclusive
<1>2. /\ c \in Fds /\ conn[c].up /\ conn[c].cgi_active /\ conn[c] \in ClientCon
      /\ k \in ClientCon /\ proc[p] \in CgiProcess
  <2>1. /\ c \in Fds /\ conn[c].up /\ conn[c].cgi_active BY <1>1, LiveProcess
  <2>2. conn[c] \in ClientCon /\ proc[p] \in CgiProcess BY <1>1, <2>1 DEF TypeOK
  <2> HIDE DEF p, c
  <2>3. QED BY <1>1, <2>1, <2>2, ForwardedType DEF p, c
<1>3. CASE CleanupProcess(p, proc[p], conn[c], "InvalidHeaders")
  BY <1>1, <1>2, <1>3, LiveEndsWell, CleanupRest
<1>4. /\ q.headers_complete = (proc[p].headers_complete \/ ~bad)
      /\ q.force_close = (proc[p].force_close \/ script[p].head = "nolength")
      /\ q.pause_stdout = proc[p].pause_stdout
      /\ r.client = c /\ r.stdout = f
      /\ r.headers_complete = q.headers_complete /\ r.force_close = q.force_close
      /\ r.pause_stdout = stalled
  BY <1>1, <1>2 DEF CgiProcess
<1>5. /\ proc[p].force_close <=> conn[c].close_after_send
      /\ conn[c].unsent > 0 => conn[c].res_ready
  BY <1>1 DEF Rest, ResponseKept, RelayUndisturbed, RelayBookkeeping
<1>6. /\ ~HasOutput(p) => k = conn[c]
      /\ HasOutput(p) => /\ k.up = conn[c].up /\ k.cgi_active = conn[c].cgi_active
                         /\ k.unsent > 0 /\ k.res_ready = TRUE
                         /\ k.close_after_send
                              = (conn[c].close_after_send \/ script[p].head = "nolength")
  <2> HIDE DEF p, c
  <2>1. QED BY <1>1, <1>2, ForwardedResponse DEF p, c
<1>7. CASE ~bad /\ CleanupProcess(p, q, k, "Normal")
  <2> HIDE DEF k, q, bad, c
  <2>1. ~HasOutput(p) => script[p].head # "nolength" BY DEF HasOutput
  <2>2. EndsWell(k, q) BY <1>4, <1>5, <1>6, <2>1 DEF EndsWell
  <2>3. QED BY <1>1, <1>2, <1>7, <2>2, CleanupRest
<1>8. CASE /\ ~bad /\ HasOutput(p) /\ interest[f] = "read"
           /\ proc' = [proc EXCEPT ![p] = r]
           /\ conn' = [conn EXCEPT ![c] = k]
           /\ interest' = [interest EXCEPT ![c] = "write",
                                           ![f] = IF stalled THEN "off" ELSE @]
           /\ script' = [script EXCEPT ![p] = [@ EXCEPT !.head = "read", !.body = 0]]
           /\ UNCHANGED <<open, tables, sigPipe>>
  <2>1. stalled <=> k.unsent > Threshold
    BY <1>1, <1>4, <1>8 DEF Rest, PausedHasBacklog
  <2> HIDE DEF r, k, stalled, c, q, bad
  <2>2. /\ proc'[p] = r /\ \A s \in Pids : s # p => proc'[s] = proc[s]
        /\ conn'[c] = k /\ \A g \in Fds : g # c => conn'[g] = conn[g]
        /\ interest'[c] = "write" /\ interest'[f] = IF stalled THEN "off" ELSE "read"
        /\ \A g \in Fds : g # c /\ g # f => interest'[g] = interest[g]
        /\ script'[p].head = "read" /\ \A s \in Pids : s # p => script'[s] = script[s]
    BY <1>1, <1>2, <1>8 DEF TypeOK, Script
  <2>3. PipesPolled'
    <3>1. stdin_map[c] = NoProc /\ processes[c] = NoProc /\ stderr_map[c] = NoProc
      BY <1>2, OneOwnerExclusive DEF Structure, Exclusive
    <3>2. stdin_map[f] = NoProc /\ stderr_map[f] = NoProc
      BY <1>1, NoProcAssumption, OneOwnerExclusive DEF Structure, Exclusive
    <3>3. QED BY ZenonT(40), <1>8, <2>2, <3>1, <3>2 DEF Rest, PipesPolled, tables
  <2>4. \A s \in Pids : s # p /\ Live(s)' =>
           /\ Live(s) /\ proc'[s] = proc[s] /\ script'[s] = script[s]
           /\ conn'[proc[s].client] = conn[proc[s].client]
           /\ interest'[proc[s].client] = interest[proc[s].client]
           /\ interest'[proc[s].stdout] = interest[proc[s].stdout]
    <3> SUFFICES ASSUME NEW s \in Pids, s # p, Live(s)'
                 PROVE  /\ Live(s) /\ proc'[s] = proc[s] /\ script'[s] = script[s]
                        /\ conn'[proc[s].client] = conn[proc[s].client]
                        /\ interest'[proc[s].client] = interest[proc[s].client]
                        /\ interest'[proc[s].stdout] = interest[proc[s].stdout]
      OBVIOUS
    <3>1. Live(s) /\ proc'[s] = proc[s] /\ script'[s] = script[s] BY <2>2 DEF Live
    <3>2. /\ proc[s].client \in Fds /\ proc[s].stdout \in Fds
          /\ conn[proc[s].client].up /\ processes[proc[s].stdout] = s
      BY <3>1, LiveProcess
    <3>3. proc[s].client # c BY <1>1, <3>1, NoOtherClient DEF c
    <3>4. proc[s].client # f BY <1>1, <3>2
    <3>5. proc[s].stdout # f BY <3>2
    <3>6. proc[s].stdout # c
      BY <1>2, <3>2, NoProcAssumption, OneOwnerExclusive DEF Structure, Exclusive
    <3>7. QED BY <2>2, <3>1, <3>2, <3>3, <3>4, <3>5, <3>6
  <2>5. PausedHasBacklog'
    <3>1. /\ proc'[p].pause_stdout <=> interest'[proc'[p].stdout] = "off"
          /\ proc'[p].pause_stdout => /\ conn'[proc'[p].client].unsent > Threshold
                                      /\ interest'[proc'[p].client] = "write"
      BY <1>4, <2>1, <2>2
    <3>2. QED BY <2>4, <3>1 DEF Rest, PausedHasBacklog
  <2>6. ResponseKept'
    <3>1. /\ proc'[p].headers_complete /\ conn'[proc'[p].client].res_ready
          /\ proc'[p].force_close <=> conn'[proc'[p].client].close_after_send
          /\ interest'[proc'[p].client] # "read"
      <4>1. proc'[p].client = c /\ conn'[c].res_ready /\ interest'[c] = "write"
        BY <1>4, <1>6, <1>8, <2>2
      <4>2. r.headers_complete = TRUE BY <1>4, <1>8
      <4>3. r.force_close <=> k.close_after_send BY <1>4, <1>5, <1>6, <1>8
      <4>4. QED BY <2>2, <4>1, <4>2, <4>3
    <3>2. QED BY <2>2, <2>4, <3>1 DEF Rest, ResponseKept, RelayUndisturbed, RelayBookkeeping
  <2>7. ClientArmed'
    <3>1. conn'[c].res_ready /\ interest'[c] = "write" BY <1>6, <1>8, <2>2
    <3>2. \A g \in Fds : g # c /\ conn'[g].up =>
             conn'[g] = conn[g] /\ interest'[g] = interest[g]
      BY <1>1, <2>2
    <3>3. QED BY <3>1, <3>2 DEF Rest, ClientArmed
  <2>8. QED BY <2>3, <2>5, <2>6, <2>7 DEF Rest
<1>9. QED BY <1>3, <1>7, <1>8, HandleStdoutCases

\* A write that leaves the connection open: a script that was paused is read
\* again; one is not paused when nothing was left to write.
LEMMA WriteKeepsRest ==
    ASSUME TypeOK, Structure, Rest, NEW c \in Fds, conn[c].up, conn[c].res_ready,
           interest[c] = "write", NEW n \in 0 .. conn[c].unsent, WriteKeeps(c, n)
    PROVE  Rest'
<1> DEFINE p == client_map[c]
<1>1. /\ conn'[c].up /\ conn'[c].cgi_active = conn[c].cgi_active
      /\ conn'[c].unsent = conn[c].unsent - n
      /\ conn'[c].res_ready <=> n # conn[c].unsent
      /\ conn'[c].keep_alive = conn[c].keep_alive
      /\ conn'[c].close_after_send = conn[c].close_after_send
      /\ \A f \in Fds : f # c => conn'[f] = conn[f]
  BY WriteKeepsShape
<1>2. conn[c].unsent \in Nat /\ n \in Nat /\ conn'[c].unsent \in Nat
  BY <1>1 DEF TypeOK, ClientCon
<1>3. CASE ~conn[c].cgi_active
  <2>1. UNCHANGED <<tables, proc, script>> BY <1>3 DEF WriteKeeps
  <2>2. /\ n # conn[c].unsent => interest' = interest
        /\ n = conn[c].unsent => /\ interest' = [interest EXCEPT ![c] = "read"]
                                 /\ ~conn[c].close_after_send
    BY <1>3 DEF WriteKeeps
  <2>3. /\ \A f \in Fds : f # c => interest'[f] = interest[f]
        /\ n # conn[c].unsent => interest'[c] = "write"
        /\ n = conn[c].unsent => interest'[c] = "read" /\ conn'[c].unsent = 0
    BY <1>1, <1>2, <2>2 DEF TypeOK
  <2>4. QED BY <1>1, <1>3, <2>1, <2>2, <2>3, IdleStranger, RestStranger
<1>4. CASE conn[c].cgi_active
  <2>1. p \in Pids /\ Live(p) /\ p # NoProc /\ proc[p].client = c
    BY <1>4, ClientsProcess, NoProcAssumption DEF Structure, ClientsAgree
  <2>2. /\ proc[p].stdout \in Fds /\ processes[proc[p].stdout] = p
        /\ proc[p].stdout # c
    <3>1. proc[p].stdout \in Fds /\ processes[proc[p].stdout] = p BY <2>1, LiveProcess
    <3>2. QED BY <2>1, <3>1, OneOwnerExclusive DEF Structure, Exclusive
  <2>3. n = 0 => conn[c].unsent = 0 BY <1>2 DEF WriteKeeps
  <2>4. /\ proc[p].pause_stdout <=> interest[proc[p].stdout] = "off"
        /\ proc[p].pause_stdout => conn[c].unsent > Threshold
    BY <2>1 DEF Rest, PausedHasBacklog
  <2>5. n = 0 => ~proc[p].pause_stdout
    BY <1>2, <2>3, <2>4, BoundsAssumption
  <2> HIDE DEF p
  <2>6. proc' = (IF n > 0 THEN Unpaused(c) ELSE proc) /\ script' = script
    BY <1>4 DEF WriteKeeps
  <2>7. \A r \in Pids : /\ proc'[r].client = proc[r].client
                        /\ proc'[r].stdout = proc[r].stdout
                        /\ proc'[r].headers_complete = proc[r].headers_complete
                        /\ proc'[r].force_close = proc[r].force_close
                        /\ r # p => proc'[r] = proc[r]
    BY <2>6, UnpausedShape DEF p
  <2>8. ~proc'[p].pause_stdout
    <3>1. CASE n > 0 /\ proc[p].pause_stdout
      <4>1. proc' = [proc EXCEPT ![p].pause_stdout = FALSE]
        BY <2>1, <2>6, <3>1 DEF Unpaused, Resumes, p
      <4>2. proc[p] \in CgiProcess BY <2>1 DEF TypeOK
      <4>3. QED BY <2>1, <4>1, <4>2 DEF TypeOK, CgiProcess
    <3>2. CASE ~proc[p].pause_stdout
      BY <2>6, <3>2 DEF Unpaused, Resumes, p
    <3>3. QED BY <1>2, <2>5, <3>1, <3>2
  <2>9. /\ interest'[proc[p].stdout] # "off"
        /\ interest'[c] = IF n = conn[c].unsent THEN "off" ELSE "write"
        /\ \A f \in Fds : f # c /\ f # proc[p].stdout => interest'[f] = interest[f]
        /\ interest'[proc[p].stdout] \in {"read", interest[proc[p].stdout]}
    <3> DEFINE wakes == IF n > 0 THEN Reopened(c) ELSE interest
    <3>1. interest' = IF n # conn[c].unsent THEN wakes ELSE [wakes EXCEPT ![c] = "off"]
      BY <1>4 DEF WriteKeeps
    <3>2. /\ wakes \in [Fds -> Interest]
          /\ \A f \in Fds : f # proc[p].stdout => wakes[f] = interest[f]
          /\ wakes[proc[p].stdout] \in {"read", interest[proc[p].stdout]}
          /\ wakes[proc[p].stdout] # "off"
      <4>1. CASE n > 0
        <5>1. Resumes(c) <=> proc[p].pause_stdout BY <2>1 DEF Resumes, p
        <5>2. QED BY <2>2, <2>4, <4>1, <5>1, ReopenedShape DEF p
      <4>2. CASE ~(n > 0)
        BY <1>2, <2>2, <2>4, <2>5, <4>2 DEF TypeOK
      <4>3. QED BY <4>1, <4>2
    <3> HIDE DEF wakes
    <3>3. QED BY <2>2, <3>1, <3>2
  <2>10. \A r \in Pids : r # p /\ Live(r)' =>
           /\ Live(r) /\ proc'[r] = proc[r] /\ script'[r] = script[r]
           /\ conn'[proc[r].client] = conn[proc[r].client]
           /\ interest'[proc[r].client] = interest[proc[r].client]
           /\ interest'[proc[r].stdout] = interest[proc[r].stdout]
    <3> SUFFICES ASSUME NEW r \in Pids, r # p, Live(r)'
                 PROVE  /\ Live(r) /\ proc'[r] = proc[r] /\ script'[r] = script[r]
                        /\ conn'[proc[r].client] = conn[proc[r].client]
                        /\ interest'[proc[r].client] = interest[proc[r].client]
                        /\ interest'[proc[r].stdout] = interest[proc[r].stdout]
      OBVIOUS
    <3>1. Live(r) /\ proc'[r] = proc[r] /\ script'[r] = script[r] BY <2>6, <2>7 DEF Live
    <3>2. /\ proc[r].client \in Fds /\ proc[r].stdout \in Fds
          /\ conn[proc[r].client].up /\ processes[proc[r].stdout] = r /\ r # NoProc
      BY <3>1, LiveProcess
    <3>3. proc[r].client # c BY <2>1, <3>1, NoOtherClient
    <3>4. proc[r].client # proc[p].stdout /\ proc[r].stdout # c
      BY <2>1, <2>2, <3>2, OneOwnerExclusive DEF Structure, Exclusive
    <3>5. proc[r].stdout # proc[p].stdout BY <2>2, <3>2
    <3>6. QED BY <1>1, <2>9, <3>1, <3>2, <3>3, <3>4, <3>5
  <2>11. PipesPolled'
    <3>1. UNCHANGED tables BY DEF WriteKeeps
    <3>2. /\ stdin_map[c] = NoProc /\ processes[c] = NoProc /\ stderr_map[c] = NoProc
          /\ stdin_map[proc[p].stdout] = NoProc /\ stderr_map[proc[p].stdout] = NoProc
      BY <2>1, <2>2, OneOwnerExclusive DEF Structure, Exclusive
    <3>3. QED BY <2>2, <2>9, <3>1, <3>2 DEF Rest, PipesPolled, tables
  <2>12. PausedHasBacklog'
    <3>1. /\ proc'[p].pause_stdout <=> interest'[proc'[p].stdout] = "off"
          /\ ~proc'[p].pause_stdout
      BY <2>1, <2>7, <2>8, <2>9
    <3>2. QED BY <2>10, <3>1 DEF Rest, PausedHasBacklog
  <2>13. ResponseKept'
    <3>1. /\ proc[p].headers_complete <=> script[p].head = "read"
          /\ proc[p].force_close <=> conn[c].close_after_send
      BY <2>1 DEF Rest, ResponseKept, RelayUndisturbed, RelayBookkeeping
    <3>2. conn'[c].unsent > 0 => conn'[c].res_ready BY <1>1, <1>2
    <3>3. proc'[p].client = c /\ proc'[p].headers_complete = proc[p].headers_complete
          /\ proc'[p].force_close = proc[p].force_close
      BY <2>1, <2>7
    <3>4. /\ proc'[p].headers_complete <=> script'[p].head = "read"
          /\ interest'[proc'[p].client] # "read"
          /\ conn'[proc'[p].client].unsent > 0 => conn'[proc'[p].client].res_ready
          /\ proc'[p].force_close <=> conn'[proc'[p].client].close_after_send
      BY <1>1, <2>6, <2>9, <3>1, <3>2, <3>3
    <3>5. QED BY <2>10, <3>4 DEF Rest, ResponseKept, RelayUndisturbed, RelayBookkeeping
  <2>14. ClientArmed'
    <3>1. \A f \in Fds : f # c /\ conn'[f].up =>
             conn'[f] = conn[f] /\ interest'[f] = interest[f]
      BY <1>1, <2>1, <2>2, <2>9, OneOwnerExclusive DEF Structure, Exclusive
    <3>2. QED BY <1>1, <1>4, <2>9, <3>1 DEF Rest, ClientArmed
  <2>15. QED BY <2>11, <2>12, <2>13, <2>14 DEF Rest
<1>5. QED BY <1>3, <1>4

LEMMA ClientWriteRest ==
    ASSUME TypeOK, Structure, Rest, NEW c \in Fds, ClientWrite(c)
    PROVE  Rest'
BY ClientWriteCases, WriteKeepsRest, CloseClientRest

LEMMA RestNext ==
    ASSUME TypeOK, Structure, Rest, [Next]_vars
    PROVE  Rest'
<1>1. CASE AcceptFails
  <2>1. (Init => Rest /\ ChildrenWatched)' BY InitRest, PTL
  <2>2. QED BY <1>1, <2>1, AcceptFailsInit
<1>2. ASSUME NEW c \in Fds, \/ Respond(c) \/ BeginUpload(c) \/ PipesFail(c)
                            \/ Launch(c) \/ FeedBody(c) \/ ClientWrite(c) \/ ClientLeaves(c)
      PROVE  Rest'
  <2>1. CASE ClientLeaves(c) BY <2>1, CloseClientRest DEF ClientLeaves
  <2>2. QED BY <1>2, <2>1, AnswerRest, BeginUploadRest, LaunchRest, FeedBodyRest,
               ClientWriteRest
<1>3. ASSUME NEW f \in Fds, HandleStdin(f) \/ HandleStdout(f) \/ HandleStderr(f)
      PROVE  Rest'
  <2>1. CASE HandleStdin(f) /\ ServerEnds
    <3>1. (Init => Rest)' BY InitRest, PTL
    <3>2. QED BY <2>1, <3>1, Crashes
  <2>2. QED BY <1>3, <2>1, HandleStdinRest, HandleStdoutRest, HandleStderrRest
<1>4. ASSUME NEW p \in Pids, Expire(p) \/ ReapChild(p) PROVE Rest'
  BY <1>4, ExpireRest, ReapChildRest
<1>5. CASE /\ UNCHANGED <<interest, conn, tables, proc>>
           /\ \A p \in Pids : script'[p].head = "read" <=> script[p].head = "read"
  BY <1>5, RestFrame DEF tables, Rest, PipesPolled
<1>6. ASSUME NEW p \in Pids, ScriptWrites(p) \/ ScriptExits(p) PROVE Rest'
  <2>1. UNCHANGED <<interest, conn, tables, proc>>
    BY <1>6 DEF ScriptWrites, ScriptExits
  <2>2. \A r \in Pids : script'[r].head = "read" <=> script[r].head = "read"
    <3>1. \A h \in HeaderKinds : h # "read" BY HeaderKindsAssumption
    <3>2. QED BY <1>6, <3>1 DEF ScriptWrites, ScriptExits, TypeOK, Script
  <2>3. QED BY <1>5, <2>1, <2>2
<1>7. CASE HandleSignalPipe \/ ReapDone \/ UNCHANGED vars
  BY <1>5, <1>7 DEF HandleSignalPipe, ReapDone, vars
<1>8. QED BY <1>1, <1>2, <1>3, <1>4, <1>6, <1>7, NewConnectionRest DEF Next

\* The watch on children: a step that concerns no child, the end of a process,
\* and the handlers that are one or the other.
LEMMA WatchFrame ==
    ASSUME ChildrenWatched, UNCHANGED <<pid_map, sigPipe, loop>>,
           \A p \in Pids : /\ script'[p].st = script[p].st
                           /\ proc'[p].stdout = proc[p].stdout
    PROVE  ChildrenWatched'
BY DEF ChildrenWatched, Live

LEMMA ReleaseWatched ==
    ASSUME TypeOK, ChildrenWatched, NEW p \in Pids, NEW arm, NEW gone,
           Release(p, arm, gone), loop' = loop
    PROVE  ChildrenWatched'
<1>1. PICK st \in Killed(script[p].st) : script' = [script EXCEPT ![p] = Silent(st)]
  BY DEF Release
<1>2. /\ script'[p].st = st /\ \A r \in Pids : r # p => script'[r] = script[r]
  BY <1>1 DEF TypeOK, Silent
<1>3. st # "run" /\ (st # "none" => script[p].st = "run") BY DEF Killed
<1>4. /\ \A r \in Pids : r # p => proc'[r] = proc[r]
      /\ pid_map' = pid_map \ {p} /\ (sigPipe' <=> sigPipe \/ script[p].st = "run")
  BY DEF Release, TypeOK
<1>5. QED BY <1>2, <1>3, <1>4 DEF ChildrenWatched, Live

LEMMA CleanupWatched ==
    ASSUME TypeOK, ChildrenWatched, NEW p \in Pids, NEW q, NEW k, NEW reason,
           CleanupProcess(p, q, k, reason), loop' = loop
    PROVE  ChildrenWatched'
BY ReleaseWatched DEF CleanupProcess

LEMMA CloseClientWatched ==
    ASSUME TypeOK, ChildrenWatched, NEW c \in Fds, CloseClient(c)
    PROVE  ChildrenWatched'
<1>1. CASE client_map[c] # NoProc /\ Release(client_map[c], interest, {c})
  <2>1. client_map[c] \in Pids /\ loop' = loop BY <1>1 DEF CloseClient, TypeOK
  <2>2. QED BY <1>1, <2>1, ReleaseWatched
<1>2. CASE UNCHANGED <<tables, proc, script, sigPipe>>
  BY <1>2, WatchFrame DEF CloseClient, tables
<1>3. QED BY <1>1, <1>2 DEF CloseClient

LEMMA LaunchWatched ==
    ASSUME TypeOK, ChildrenWatched, NEW c \in Fds, Launch(c)
    PROVE  ChildrenWatched'
<1>1. PICK p \in Pids, in \in FreeFds, out \in FreeFds, err \in FreeFds,
           first \in Nat, rest \in Nat, chunked \in BOOLEAN, ka \in BOOLEAN :
             /\ in # out /\ in # err /\ out # err
             /\ LaunchWith(c, p, in, out, err, first, rest, chunked, ka)
  BY LaunchPick
<1> DEFINE body == chunked \/ first > 0 \/ rest > 0
           q == Started(c, in, out, err, body, first)
<1>2. /\ LaunchAs(c, p, in, out, err, body) /\ proc' = [proc EXCEPT ![p] = q]
  BY <1>1 DEF LaunchWith
<1>3. body \in BOOLEAN OBVIOUS
<1> HIDE DEF body
<1>4. q.stdout = out /\ out # NoFd BY <1>3, FdNotNoFd, StartedShape DEF FreeFds
<1> HIDE DEF q
<1>5. /\ proc'[p] = q /\ \A r \in Pids : r # p => proc'[r] = proc[r]
      /\ script'[p].st = "run" /\ \A r \in Pids : r # p => script'[r] = script[r]
      /\ pid_map' = pid_map \cup {p}
  BY <1>2 DEF LaunchAs, TypeOK, Silent
<1>6. sigPipe' = sigPipe /\ loop' = loop BY DEF Launch
<1>7. QED BY <1>4, <1>5, <1>6 DEF ChildrenWatched, Live

\* The stdout pipe of a process changes only when it is launched or ends.
LEMMA CloseStdinWatched ==
    ASSUME TypeOK, ChildrenWatched, NEW p \in Pids, CloseStdin(p),
           UNCHANGED <<pid_map, script, sigPipe, loop>>
    PROVE  ChildrenWatched'
BY WatchFrame DEF CloseStdin, TypeOK, CgiProcess

LEMMA FeedBodyWatched ==
    ASSUME TypeOK, Structure, ChildrenWatched, NEW c \in Fds, FeedBody(c)
    PROVE  ChildrenWatched'
<1> DEFINE p == client_map[c]
<1>1. UNCHANGED <<pid_map, script, sigPipe, loop>> BY DEF FeedBody
<1>2. p \in Pids
  BY ClientsProcess DEF FeedBody, Structure, ClientsAgree
<1>3. CASE CloseStdin(p) BY <1>1, <1>2, <1>3, CloseStdinWatched
<1>4. CASE proc' = proc \/ \E n \in Nat \cup Int : proc' = [proc EXCEPT ![p].pending = n]
  <2> HIDE DEF p
  <2>1. \A r \in Pids : proc'[r].stdout = proc[r].stdout
    BY <1>2, <1>4, PendingShape
  <2>2. QED BY <1>1, <2>1, WatchFrame
<1>5. ASSUME NEW n \in Feedable(c) PROVE proc[p].pending + n \in Int
  BY <1>2 DEF TypeOK, CgiProcess, ClientCon, Feedable
<1>6. QED BY <1>3, <1>4, <1>5 DEF FeedBody

LEMMA HandleStdinWatched ==
    ASSUME TypeOK, ChildrenWatched, NEW f \in Fds, HandleStdin(f), ~ServerEnds
    PROVE  ChildrenWatched'
<1> DEFINE p == stdin_map[f]
<1>1. p \in Pids /\ UNCHANGED <<pid_map, script, sigPipe, loop>>
  BY DEF HandleStdin, TypeOK
<1>2. CASE CloseStdin(p) BY <1>1, <1>2, CloseStdinWatched
<1>3. CASE \E n \in Int : proc' = [proc EXCEPT ![p].pending = n]
  <2> HIDE DEF p
  <2>1. \A r \in Pids : proc'[r].stdout = proc[r].stdout
    BY <1>1, <1>3, PendingShape
  <2>2. QED BY <1>1, <2>1, WatchFrame
<1>4. ASSUME NEW n \in 1 .. proc[p].pending PROVE proc[p].pending - n \in Int
  BY <1>1 DEF TypeOK, CgiProcess
<1>5. QED BY <1>2, <1>3, <1>4 DEF HandleStdin

LEMMA HandleStdoutWatched ==
    ASSUME TypeOK, Structure, ChildrenWatched, NEW f \in Fds, HandleStdout(f)
    PROVE  ChildrenWatched'
<1> DEFINE p == processes[f]
           c == proc[p].client
           bad == script[p].head = "bad" \/ (AtEof(p) /\ script[p].head = "unwritten")
           q == [proc[p] EXCEPT !.headers_complete = @ \/ ~bad,
                                !.force_close = @ \/ script[p].head = "nolength"]
           k == Forwarded(conn[c], p)
           stalled == q.pause_stdout \/ k.unsent > Threshold
           r == [q EXCEPT !.pause_stdout = stalled]
<1>1. p \in Pids /\ loop' = loop BY HandleStdoutCases
<1>2. CASE CleanupProcess(p, proc[p], conn[c], "InvalidHeaders")
  BY <1>1, <1>2, CleanupWatched
<1>3. CASE CleanupProcess(p, q, k, "Normal")
  BY <1>1, <1>3, CleanupWatched
<1>4. CASE /\ proc' = [proc EXCEPT ![p] = r]
           /\ script' = [script EXCEPT ![p] = [@ EXCEPT !.head = "read", !.body = 0]]
           /\ UNCHANGED <<open, tables, sigPipe>>
  <2>1. r.stdout = proc[p].stdout BY <1>1 DEF TypeOK, CgiProcess
  <2> HIDE DEF r
  <2>2. \A s \in Pids : /\ script'[s].st = script[s].st
                        /\ proc'[s].stdout = proc[s].stdout
    BY <1>1, <1>4, <2>1 DEF TypeOK, Script
  <2>3. QED BY <1>1, <1>4, <2>2, WatchFrame DEF tables
<1>5. QED BY <1>2, <1>3, <1>4, HandleStdoutCases

LEMMA ClientWriteWatched ==
    ASSUME TypeOK, Structure, ChildrenWatched, NEW c \in Fds, ClientWrite(c)
    PROVE  ChildrenWatched'
<1>1. CASE CloseClient(c) BY <1>1, CloseClientWatched
<1>2. CASE \E n \in 0 .. conn[c].unsent : WriteKeeps(c, n)
  BY <1>2, UnpausedShape, WatchFrame DEF WriteKeeps, tables
<1>3. QED BY <1>1, <1>2, ClientWriteCases

LEMMA ReapChildWatched ==
    ASSUME TypeOK, ChildrenWatched, NEW p \in Pids, ReapChild(p)
    PROVE  ChildrenWatched'
<1>1. loop' = loop BY DEF ReapChild
<1>2. CASE CleanupProcess(p, proc[p], conn[proc[p].client], "ExecFailure")
  BY <1>1, <1>2, CleanupWatched
<1>3. CASE /\ pid_map' = pid_map \ {p}
           /\ script' = [script EXCEPT ![p].st = "none"]
           /\ UNCHANGED <<proc, sigPipe>>
  <2>1. /\ script'[p].st = "none"
        /\ \A r \in Pids : r # p => script'[r] = script[r]
    BY <1>3 DEF TypeOK, Script
  <2>2. QED BY <1>1, <1>3, <2>1 DEF ChildrenWatched, Live
<1>4. QED BY <1>2, <1>3 DEF ReapChild

LEMMA WatchNext ==
    ASSUME TypeOK, Structure, ChildrenWatched, [Next]_vars
    PROVE  ChildrenWatched'
<1>1. CASE AcceptFails
  <2>1. (Init => Rest /\ ChildrenWatched)' BY InitRest, PTL
  <2>2. QED BY <1>1, <2>1, AcceptFailsInit
<1>2. CASE NewConnection BY <1>2, WatchFrame DEF NewConnection, tables
<1>3. ASSUME NEW c \in Fds, \/ Respond(c) \/ BeginUpload(c) \/ PipesFail(c)
                            \/ Launch(c) \/ FeedBody(c) \/ ClientWrite(c) \/ ClientLeaves(c)
      PROVE  ChildrenWatched'
  <2>1. CASE Respond(c) \/ BeginUpload(c) \/ PipesFail(c)
    BY <2>1, WatchFrame DEF Respond, BeginUpload, PipesFail, tables
  <2>2. CASE ClientLeaves(c) BY <2>2, CloseClientWatched DEF ClientLeaves
  <2>3. QED BY <1>3, <2>1, <2>2, LaunchWatched, FeedBodyWatched, ClientWriteWatched
<1>4. ASSUME NEW f \in Fds, HandleStdin(f) \/ HandleStdout(f) \/ HandleStderr(f)
      PROVE  ChildrenWatched'
  <2>1. CASE HandleStderr(f)
    <3>1. \A r \in Pids : proc'[r].stdout = proc[r].stdout
      BY <2>1 DEF HandleStderr, TypeOK, CgiProcess
    <3>2. QED BY <2>1, <3>1, WatchFrame DEF HandleStderr
  <2>3. CASE HandleStdin(f) /\ ServerEnds
    <3>1. (Init => Rest /\ ChildrenWatched)' BY InitRest, PTL
    <3>2. QED BY <2>3, <3>1, Crashes
  <2>2. QED BY <1>4, <2>1, <2>3, HandleStdinWatched, HandleStdoutWatched
<1>5. ASSUME NEW p \in Pids, \/ Expire(p) \/ ReapChild(p)
                             \/ ScriptWrites(p) \/ ScriptExits(p)
      PROVE  ChildrenWatched'
  <2>1. CASE Expire(p) BY <2>1, CleanupWatched DEF Expire
  <2>2. CASE ScriptWrites(p)
    <3>1. \A r \in Pids : script'[r].st = script[r].st
      BY <2>2 DEF ScriptWrites, TypeOK, Script
    <3>2. QED BY <2>2, <3>1, WatchFrame DEF ScriptWrites, tables
  <2>3. CASE ScriptExits(p)
    <3>1. /\ script'[p].st \in {"exited", "failed"}
          /\ \A r \in Pids : r # p => script'[r] = script[r]
      BY <2>3 DEF ScriptExits, TypeOK, Script
    <3>2. script[p].st = "run" /\ sigPipe' = TRUE /\ pid_map' = pid_map /\ proc' = proc
      BY <2>3 DEF ScriptExits, tables
    <3>3. QED BY <3>1, <3>2 DEF ChildrenWatched, Live
  <2>4. QED BY <1>5, <2>1, <2>2, <2>3, ReapChildWatched
<1>6. CASE HandleSignalPipe \/ ReapDone
  BY <1>6 DEF HandleSignalPipe, ReapDone, ChildrenWatched, Live, tables
<1>7. CASE UNCHANGED vars BY <1>7, WatchFrame DEF vars, tables
<1>8. QED BY <1>1, <1>2, <1>3, <1>4, <1>5, <1>6, <1>7 DEF Next

\* Between any two handlers, whatever the number of connections, descriptors
\* and scripts: everything the structure theorem says, and that a paused script
\* has a backlog whose drain resumes it, that what waits for a client is its
\* script's response, that no connection is wedged and no child unwatched.
THEOREM InvariantHolds == Spec => []IInv
<1>1. Init => Structure /\ Rest /\ ChildrenWatched BY InitRest, InitStructure
<1>2. TypeOK /\ (Structure /\ Rest /\ ChildrenWatched) /\ [Next]_vars
        => (Structure /\ Rest /\ ChildrenWatched)'
  BY StructureNext, RestNext, WatchNext
<1>3. TypeOK /\ Structure /\ Rest /\ ChildrenWatched => IInv BY IInvParts
<1>4. QED BY <1>1, <1>2, <1>3, TypeCorrect, PTL DEF Spec

\* What the invariant says of responses, connections and children: a paused
\* script has a backlog whose drain resumes it (notifyClientWritable);
THEOREM PausesResume == Spec => []PausedHasBacklog
<1>1. IInv => PausedHasBacklog BY DEF IInv
<1>2. QED BY <1>1, InvariantHolds, PTL

\* no request is read while a script's response is under way, early ones
\* included, so that none can replace bytes of it (finalize_response_write);
THEOREM ResponsesSafe == Spec => []RelayUndisturbed
<1>1. IInv => RelayUndisturbed BY DEF IInv
<1>2. QED BY <1>1, InvariantHolds, PTL

\* a connection polls for what it needs next (finalize_response_write,
\* cleanupProcess);
THEOREM NoneWedged == Spec => []ClientArmed
<1>1. IInv => ClientArmed BY DEF IInv
<1>2. QED BY <1>1, InvariantHolds, PTL

\* and every child is watched or about to be collected (reap_children).
THEOREM NoneForgotten == Spec => []ChildrenWatched
<1>1. IInv => ChildrenWatched BY DEF IInv
<1>2. QED BY <1>1, InvariantHolds, PTL

-----------------------------------------------------------------------------
(* The reuse of a connection.                                              *)

\* The connection c is released by its script in this step and kept.
Reused(c) == conn[c].cgi_active /\ conn'[c].up /\ ~conn'[c].cgi_active /\ conn'[c].keep_alive

LEMMA CleanupReuse ==
    ASSUME TypeOK, Structure, NEW p \in Pids, Live(p), NEW q, NEW k \in ClientCon,
           EndsWell(k, q), NEW reason, CleanupProcess(p, q, k, reason),
           NEW c \in Fds, Reused(c)
    PROVE  /\ client_map[c] = p /\ c = proc[p].client
           /\ q.headers_complete /\ ~q.force_close /\ reason = "Normal"
           /\ conn'[c].unsent = k.unsent
<1> DEFINE after == AfterCgi(k, q, reason)
<1>1. proc[p].client \in Fds /\ client_map[proc[p].client] = p BY LiveProcess
<1>2. conn' = [conn EXCEPT ![proc[p].client] = after] BY DEF CleanupProcess
<1>3. after.keep_alive => q.headers_complete /\ ~q.force_close /\ reason = "Normal"
  BY AfterCgiArmed
<1>4. q.headers_complete => after.unsent = k.unsent
  BY DEF AfterCgi, ClientCon
<1> HIDE DEF after
<1>5. c = proc[p].client /\ after.keep_alive BY <1>1, <1>2 DEF Reused, TypeOK
<1>6. conn'[c] = after BY <1>1, <1>2, <1>5 DEF TypeOK
<1>7. QED BY <1>1, <1>3, <1>4, <1>5, <1>6

\* No handler of the client side releases a connection from its script.
LEMMA ClientSideReuse ==
    ASSUME TypeOK, Structure, NEW d \in Fds,
           \/ Respond(d) \/ BeginUpload(d) \/ PipesFail(d) \/ Launch(d)
           \/ FeedBody(d) \/ ClientWrite(d) \/ ClientLeaves(d),
           NEW c \in Fds
    PROVE  ~Reused(c)
<1>1. conn[d] \in ClientCon /\ conn[c] \in ClientCon BY DEF TypeOK
<1>2. CASE Respond(d) \/ BeginUpload(d) \/ PipesFail(d)
  <2>1. PICK k : conn' = [conn EXCEPT ![d] = k] /\ k.cgi_active = conn[d].cgi_active
    <3>1. \A ka : Answering(conn[d], ka).cgi_active = conn[d].cgi_active
      BY <1>1, AnsweringShape
    <3>2. \A ka : [conn[d] EXCEPT !.keep_alive = ka].cgi_active = conn[d].cgi_active
      BY <1>1 DEF ClientCon
    <3>3. CASE Respond(d) \/ PipesFail(d) BY <3>1, <3>3 DEF Respond, PipesFail
    <3>4. CASE BeginUpload(d)
      <4>1. PICK ka \in BOOLEAN : conn' = [conn EXCEPT ![d].keep_alive = ka]
        BY <3>4 DEF BeginUpload
      <4>2. conn' = [conn EXCEPT ![d] = [conn[d] EXCEPT !.keep_alive = ka]] BY <4>1
      <4>3. QED BY <3>2, <4>2
    <3>5. QED BY <1>2, <3>3, <3>4
  <2>2. QED BY <2>1 DEF Reused, TypeOK
<1>3. CASE Launch(d)
  <2>1. ~conn[d].cgi_active BY <1>3 DEF Launch, Idle, WaitsForScript
  <2>2. \A f \in Fds : f # d => conn'[f] = conn[f]
    BY <1>3 DEF Launch, LaunchWith, TypeOK
  <2>3. QED BY <2>1, <2>2 DEF Reused
<1>4. CASE FeedBody(d)
  <2>1. PICK n, done : conn' = [conn EXCEPT ![d] = Receiving(conn[d], n, done)]
    BY <1>4 DEF FeedBody
  <2>2. conn'[d].cgi_active = conn[d].cgi_active
    BY <1>1, <2>1, ReceivingShape DEF TypeOK
  <2>3. QED BY <2>1, <2>2 DEF Reused, TypeOK
<1>5. CASE CloseClient(d)
  <2>1. ~conn'[d].up /\ \A f \in Fds : f # d => conn'[f] = conn[f]
    BY <1>5 DEF CloseClient, NoConn, TypeOK
  <2>2. QED BY <2>1 DEF Reused
<1>6. CASE \E n \in 0 .. conn[d].unsent : WriteKeeps(d, n)
  BY <1>6, WriteKeepsShape DEF Reused
<1>7. QED BY <1>2, <1>3, <1>4, <1>5, <1>6, ClientWriteCases DEF ClientLeaves

LEMMA HandleStdoutReuse ==
    ASSUME IInv, NEW f \in Fds, HandleStdout(f), NEW d \in Fds, Reused(d)
    PROVE  Reuse(d)
<1> DEFINE p == processes[f]
           c == proc[p].client
           bad == script[p].head = "bad" \/ (AtEof(p) /\ script[p].head = "unwritten")
           q == [proc[p] EXCEPT !.headers_complete = @ \/ ~bad,
                                !.force_close = @ \/ script[p].head = "nolength"]
           k == Forwarded(conn[c], p)
           stalled == q.pause_stdout \/ k.unsent > Threshold
<1>1. TypeOK /\ Structure /\ Rest BY IInvParts
<1>2. p \in Pids /\ Live(p) BY <1>1, HandleStdoutCases
<1>3. /\ c \in Fds /\ conn[c] \in ClientCon /\ k \in ClientCon /\ proc[p] \in CgiProcess
      /\ script[p] \in Script
  <2>1. /\ c \in Fds /\ conn[c] \in ClientCon /\ proc[p] \in CgiProcess
    BY <1>1, <1>2, LiveProcess, LiveClientCon
  <2>2. script[p] \in Script BY <1>1, <1>2 DEF TypeOK
  <2> HIDE DEF p, c
  <2>3. QED BY <1>1, <1>2, <2>1, <2>2, ForwardedType DEF p, c
<1>4. /\ q.headers_complete = (proc[p].headers_complete \/ ~bad)
      /\ q.force_close = (proc[p].force_close \/ script[p].head = "nolength")
  BY <1>3 DEF CgiProcess
<1> DEFINE header == IF script[p].head = "read" THEN 0 ELSE 1
<1>5. /\ proc[p].headers_complete <=> script[p].head = "read"
      /\ proc[p].force_close <=> conn[c].close_after_send
      /\ conn[c].unsent > 0 => conn[c].res_ready
  BY <1>1, <1>2 DEF Rest, ResponseKept, RelayUndisturbed, RelayBookkeeping
<1>6. /\ ~HasOutput(p) => k = conn[c]
      /\ HasOutput(p) => /\ k.cgi_active = conn[c].cgi_active /\ k.res_ready = TRUE
                         /\ k.close_after_send
                              = (conn[c].close_after_send \/ script[p].head = "nolength")
                         /\ k.unsent = conn[c].unsent + header + script[p].body
  <2> HIDE DEF p, c
  <2>1. QED BY <1>1, <1>2, <1>3, ForwardedResponse DEF p, c
<1>7. CASE CleanupProcess(p, proc[p], conn[c], "InvalidHeaders")
  BY <1>1, <1>2, <1>3, <1>7, LiveEndsWell, CleanupReuse
<1>8. CASE ~bad /\ AtEof(p) /\ CleanupProcess(p, q, k, "Normal")
  <2>1. EndsWell(k, q)
    <3> HIDE DEF k, q, bad, c
    <3>1. ~HasOutput(p) => script[p].head # "nolength" BY DEF HasOutput
    <3>2. QED BY <1>4, <1>5, <1>6, <3>1 DEF EndsWell
  <2> HIDE DEF k, q
  <2>2. /\ client_map[d] = p /\ d = c /\ ~q.force_close /\ conn'[d].unsent = k.unsent
    BY <1>1, <1>2, <1>3, <1>8, <2>1, CleanupReuse
  <2>3. ~proc[p].force_close /\ script[p].head # "nolength" BY <1>4, <2>2
  <2>4. script[p].head \in {"length", "read"} BY <1>3, <1>8, <2>3 DEF Script
  <2>5. proc[p].headers_complete \/ script[p].head = "length" BY <1>5, <2>4
  <2>6. ~HasOutput(p) => header = 0 /\ script[p].body = 0
    BY <1>3, <2>4 DEF HasOutput, Script
  <2>7. k.unsent = conn[c].unsent + header + script[p].body
    BY <1>3, <1>6, <2>6 DEF ClientCon
  <2>8. QED BY <1>8, <2>2, <2>3, <2>5, <2>7 DEF Reuse
<1>9. CASE HasOutput(p) /\ conn' = [conn EXCEPT ![c] = k]
  <2> HIDE DEF k, c
  <2>1. QED BY <1>1, <1>3, <1>6, <1>9 DEF Reused, TypeOK
<1>10. QED BY <1>1, <1>7, <1>8, <1>9, HandleStdoutCases

LEMMA ReuseNext ==
    ASSUME IInv, Next, NEW c \in Fds, Reused(c)
    PROVE  Reuse(c)
<1>1. TypeOK /\ Structure /\ Rest BY IInvParts
<1>2. CASE NewConnection
  <2>1. PICK d \in FreeFds : conn' = [conn EXCEPT ![d] = NewConn]
    BY <1>2 DEF NewConnection, NthLowest
  <2>2. ~conn[d].cgi_active
    BY <1>1, <2>1, FreeFdsUnused DEF Structure, NothingStale, NoConn, FreeFds
  <2>3. QED BY <1>1, <2>1, <2>2 DEF Reused, TypeOK
<1>3. CASE ServerEnds BY <1>3 DEF ServerEnds, NoConn, Reused
<1>4. ASSUME NEW d \in Fds, \/ Respond(d) \/ BeginUpload(d) \/ PipesFail(d)
                            \/ Launch(d) \/ FeedBody(d) \/ ClientWrite(d) \/ ClientLeaves(d)
      PROVE  Reuse(c)
  BY <1>1, <1>4, ClientSideReuse
<1>5. ASSUME NEW p \in Pids, Expire(p) PROVE Reuse(c)
  BY <1>1, <1>5, LiveClientCon, LiveEndsWell, CleanupReuse DEF Expire
<1>6. ASSUME NEW p \in Pids, ReapChild(p) PROVE Reuse(c)
  <2>1. CASE p \in pid_map /\ CleanupProcess(p, proc[p], conn[proc[p].client], "ExecFailure")
    <3>1. Live(p) BY <1>1, <2>1 DEF Structure, TablesAgree
    <3>2. QED BY <1>1, <2>1, <3>1, LiveClientCon, LiveEndsWell, CleanupReuse
  <2>2. CASE UNCHANGED conn BY <2>2 DEF Reused
  <2>3. QED BY <1>6, <2>1, <2>2 DEF ReapChild
<1>7. CASE UNCHANGED conn BY <1>7 DEF Reused
<1>8. ASSUME NEW p \in Pids, ScriptWrites(p) \/ ScriptExits(p) PROVE Reuse(c)
  BY <1>7, <1>8 DEF ScriptWrites, ScriptExits
<1>9. ASSUME NEW f \in Fds, HandleStdin(f) \/ HandleStdout(f) \/ HandleStderr(f)
      PROVE  Reuse(c)
  BY <1>3, <1>7, <1>9, HandleStdoutReuse DEF HandleStdin, HandleStderr
<1>10. CASE HandleSignalPipe \/ ReapDone BY <1>7, <1>10 DEF HandleSignalPipe, ReapDone
<1>11. QED BY <1>2, <1>3, <1>4, <1>5, <1>6, <1>8, <1>9, <1>10 DEF Next, AcceptFails

\* A connection is taken back for its next request only after a response with
\* a length of its own whose script is over and of whose output nothing was left
\* behind: not after a timeout, not while the script runs, not when only the
\* connection's end could tell the response's (cleanupProcess).
THEOREM ReuseIsSafe == Spec => ReuseAfterWholeOutput
<1>1. IInv /\ [Next]_vars => [\A c \in Fds : Reuse(c)]_vars
  <2>1. ASSUME IInv, Next, NEW c \in Fds PROVE Reuse(c)
    BY <2>1, ReuseNext DEF Reused, Reuse
  <2>2. QED BY <2>1
<1>2. QED BY <1>1, InvariantHolds, PTL DEF Spec, ReuseAfterWholeOutput

-----------------------------------------------------------------------------
(* The manager implements Exchange.                                        *)

\* PhaseOf without CASE, in a state and in the next one.
PhaseTable == \A c \in Fds :
    PhaseOf(c) = IF ~conn[c].up THEN "closed"
                 ELSE IF conn[c].cgi_active
                 THEN IF proc[client_map[c]].headers_complete THEN "relaying" ELSE "waiting"
                 ELSE IF conn[c].res_ready THEN "sending" ELSE "asking"

LEMMA PhaseIs == TypeOK => PhaseTable
<1> SUFFICES ASSUME TypeOK, NEW c \in Fds
             PROVE  PhaseOf(c) =
                      IF ~conn[c].up THEN "closed"
                      ELSE IF conn[c].cgi_active
                      THEN IF proc[client_map[c]].headers_complete
                             THEN "relaying" ELSE "waiting"
                      ELSE IF conn[c].res_ready THEN "sending" ELSE "asking"
  BY DEF PhaseTable
<1>1. conn[c].up \in BOOLEAN /\ conn[c].cgi_active \in BOOLEAN
  BY DEF TypeOK, ClientCon
<1>2. CASE ~conn[c].up BY <1>2 DEF PhaseOf
<1>3. CASE conn[c].up /\ conn[c].cgi_active BY <1>3 DEF PhaseOf
<1>4. CASE conn[c].up /\ ~conn[c].cgi_active BY <1>4 DEF PhaseOf
<1>5. QED BY <1>1, <1>2, <1>3, <1>4

LEMMA PhaseIsNext == TypeOK' => PhaseTable'
BY PhaseIs, PTL

\* The exchange of d is where it was.
Same(d) ==
    /\ conn'[d].up = conn[d].up /\ conn'[d].cgi_active = conn[d].cgi_active
    /\ ~conn[d].cgi_active => /\ conn'[d].res_ready = conn[d].res_ready
                              /\ conn'[d].keep_alive = conn[d].keep_alive
                              /\ conn'[d].close_after_send = conn[d].close_after_send
    /\ conn[d].up /\ conn[d].cgi_active =>
         proc'[client_map'[d]].headers_complete = proc[client_map[d]].headers_complete

LEMMA SamePhase ==
    ASSUME TypeOK, TypeOK', NEW d \in Fds, Same(d)
    PROVE  PhaseOf(d)' = PhaseOf(d) /\ LastsOf(d)' = LastsOf(d)
<1>1. PhaseTable /\ PhaseTable' BY PhaseIs, PhaseIsNext
<1>2. PhaseOf(d)' = PhaseOf(d) BY <1>1 DEF PhaseTable, Same
<1>3. PhaseOf(d) = "sending" => ~conn[d].cgi_active BY <1>1 DEF PhaseTable
<1>4. LastsOf(d)' = LastsOf(d) BY <1>2, <1>3 DEF LastsOf, Same
<1>5. QED BY <1>2, <1>4

\* A step that leaves every exchange where it was.
LEMMA SameStep ==
    ASSUME TypeOK, TypeOK', \A d \in Fds : Same(d)
    PROVE  UNCHANGED <<phase, lasts>>
<1>1. \A d \in Fds : PhaseOf(d)' = PhaseOf(d) /\ LastsOf(d)' = LastsOf(d)
  BY SamePhase
<1>2. QED BY <1>1 DEF phase, lasts

\* A step that moves one exchange.
LEMMA MoveStep ==
    ASSUME TypeOK, TypeOK', NEW c \in Fds, \A d \in Fds : d # c => Same(d),
           NEW from, PhaseOf(c) \in from, NEW to, PhaseOf(c)' = to,
           NEW last, LastsOf(c)' = last, last => to = "sending"
    PROVE  E!Move(c, from, to, last)
<1>1. \A d \in Fds : d # c => PhaseOf(d)' = PhaseOf(d) /\ LastsOf(d)' = LastsOf(d)
  BY SamePhase
<1>2. phase' = [phase EXCEPT ![c] = to] BY <1>1 DEF phase
<1>3. lasts' = [lasts EXCEPT ![c] = last] BY <1>1 DEF lasts
<1>4. phase[c] \in from BY DEF phase
<1>5. QED BY <1>2, <1>3, <1>4 DEF E!Move

LEMMA InitExchange == Init => E!ExInit
<1> SUFFICES ASSUME Init PROVE E!ExInit OBVIOUS
<1>1. \A c \in Fds : ~conn[c].up BY DEF Init, NoConn
<1>2. \A c \in Fds : PhaseOf(c) = "closed"
  BY <1>1 DEF PhaseOf
<1>3. \A c \in Fds : LastsOf(c) = FALSE BY <1>2 DEF LastsOf
<1>4. QED BY <1>2, <1>3 DEF E!ExInit, phase, lasts

\* What the end of one process leaves of the other exchanges.
LEMMA ReleaseSame ==
    ASSUME TypeOK, Structure, NEW p \in Pids, Live(p), NEW arm, NEW gone,
           Release(p, arm, gone), NEW d \in Fds, d # proc[p].client, conn'[d] = conn[d]
    PROVE  Same(d)
<1>1. client_map'[d] = client_map[d] BY DEF Release
<1>2. ASSUME conn[d].cgi_active
      PROVE  proc'[client_map[d]] = proc[client_map[d]]
  <2>1. client_map[d] \in Pids /\ proc[client_map[d]].client = d
    BY <1>2, ClientsProcess DEF Structure, ClientsAgree
  <2>2. client_map[d] # p BY <2>1
  <2>3. QED BY <2>1, <2>2 DEF Release, TypeOK
<1>3. QED BY <1>1, <1>2 DEF Same

LEMMA CloseClientExchange ==
    ASSUME TypeOK, TypeOK', Structure, NEW c \in Fds, conn[c].up, CloseClient(c)
    PROVE  E!Leave(c)
<1>1. ~conn'[c].up /\ \A d \in Fds : d # c => conn'[d] = conn[d]
  BY DEF CloseClient, NoConn, TypeOK
<1>2. PhaseTable /\ PhaseTable' BY PhaseIs, PhaseIsNext
<1>3. PhaseOf(c) \in E!Phases \ {"closed"} BY <1>2 DEF PhaseTable, E!Phases
<1>4. PhaseOf(c)' = "closed" BY <1>1, <1>2 DEF PhaseTable
<1>5. LastsOf(c)' = FALSE BY <1>4 DEF LastsOf
<1>6. \A d \in Fds : d # c => Same(d)
  <2>1. CASE client_map[c] # NoProc /\ Release(client_map[c], interest, {c})
    <3> DEFINE p == client_map[c]
    <3>1. p \in Pids /\ Live(p) /\ proc[p].client = c BY <2>1, ClientsProcess
    <3> HIDE DEF p
    <3>2. Release(p, interest, {c}) BY <2>1 DEF p
    <3>3. QED BY <1>1, <3>1, <3>2, ReleaseSame
  <2>2. CASE UNCHANGED <<tables, proc>> BY <1>1, <2>2 DEF Same, tables
  <2>3. QED BY <2>1, <2>2 DEF CloseClient
<1>7. E!Move(c, E!Phases \ {"closed"}, "closed", FALSE)
  BY <1>3, <1>4, <1>5, <1>6, MoveStep
<1>8. QED BY <1>7 DEF E!Leave

LEMMA AfterCgiUnready ==
    ASSUME NEW k \in ClientCon, NEW q, NEW reason, ~AfterCgi(k, q, reason).res_ready
    PROVE  q.headers_complete /\ ~k.res_ready
BY DEF AfterCgi, ClientCon

LEMMA CleanupExchange ==
    ASSUME TypeOK, TypeOK', Structure, NEW p \in Pids, Live(p), NEW q,
           NEW k \in ClientCon, k.up, NEW reason, CleanupProcess(p, q, k, reason),
           q.headers_complete /\ ~k.res_ready => proc[p].headers_complete
    PROVE  \E c \in Fds : E!Finish(c) \/ E!Drained(c)
<1> DEFINE after == AfterCgi(k, q, reason)
<1>0. PICK c \in Fds : c = proc[p].client BY LiveProcess
<1>1. /\ client_map[c] = p /\ conn[c].up /\ conn[c].cgi_active
  BY <1>0, LiveProcess
<1>2. conn' = [conn EXCEPT ![c] = after] BY <1>0 DEF CleanupProcess
<1>3. after.up /\ ~after.cgi_active BY AfterCgiShape
<1>4. ~after.res_ready => proc[p].headers_complete BY AfterCgiUnready
<1> HIDE DEF after
<1>5. conn'[c] = after /\ \A d \in Fds : d # c => conn'[d] = conn[d]
  BY <1>1, <1>2 DEF TypeOK
<1>6. PhaseTable /\ PhaseTable' BY PhaseIs, PhaseIsNext
<1>7. \A d \in Fds : d # c => Same(d)
  <2>1. PICK arm : Release(p, arm, {}) BY DEF CleanupProcess
  <2>2. QED BY <1>0, <1>5, <2>1, ReleaseSame
<1>8. PhaseOf(c) = IF proc[p].headers_complete THEN "relaying" ELSE "waiting"
  BY <1>1, <1>6 DEF PhaseTable
<1>9. PhaseOf(c)' = IF after.res_ready THEN "sending" ELSE "asking"
  BY <1>1, <1>3, <1>5, <1>6 DEF PhaseTable
<1>10. CASE after.res_ready
  <2>1. LastsOf(c)' \in BOOLEAN BY DEF LastsOf
  <2>2. E!Move(c, {"waiting", "relaying"}, "sending", LastsOf(c)')
    BY <1>1, <1>7, <1>8, <1>9, <1>10, MoveStep
  <2>3. QED BY <1>1, <2>1, <2>2 DEF E!Finish
<1>11. CASE ~after.res_ready
  <2>1. PhaseOf(c)' = "asking" /\ PhaseOf(c) = "relaying"
    BY <1>4, <1>8, <1>9, <1>11
  <2>2. LastsOf(c)' = FALSE BY <2>1 DEF LastsOf
  <2>3. E!Move(c, {"relaying"}, "asking", FALSE) BY <1>1, <1>7, <2>1, <2>2, MoveStep
  <2>4. QED BY <1>1, <2>3 DEF E!Drained
<1>12. QED BY <1>10, <1>11

LEMMA ConnectExchange ==
    ASSUME TypeOK, TypeOK', Structure, NewConnection
    PROVE  \E c \in Fds : E!Connect(c)
<1>1. PICK c \in FreeFds : conn' = [conn EXCEPT ![c] = NewConn]
  BY DEF NewConnection, NthLowest
<1>2. c \in Fds /\ ~conn[c].up BY FreeFdsUnused
<1>3. conn'[c] = NewConn /\ \A d \in Fds : d # c => conn'[d] = conn[d]
  BY <1>1, <1>2 DEF TypeOK
<1>4. NewConn.up /\ ~NewConn.cgi_active /\ ~NewConn.res_ready BY DEF NewConn, NoConn
<1>5. PhaseTable /\ PhaseTable' BY PhaseIs, PhaseIsNext
<1>6. PhaseOf(c) = "closed" /\ PhaseOf(c)' = "asking"
  BY <1>2, <1>3, <1>4, <1>5 DEF PhaseTable
<1>7. LastsOf(c)' = FALSE BY <1>6 DEF LastsOf
<1>8. \A d \in Fds : d # c => Same(d) BY <1>3 DEF Same, NewConnection, tables
<1>9. E!Move(c, {"closed"}, "asking", FALSE) BY <1>2, <1>6, <1>7, <1>8, MoveStep
<1>10. QED BY <1>2, <1>9 DEF E!Connect

LEMMA AnswerExchange ==
    ASSUME TypeOK, TypeOK', Structure, NEW c \in Fds, Respond(c) \/ PipesFail(c),
           ~conn[c].cgi_active
    PROVE  E!Answer(c)
<1>1. PICK ka \in BOOLEAN : conn' = [conn EXCEPT ![c] = Answering(conn[c], ka)]
  BY DEF Respond, PipesFail
<1>2. /\ conn[c].up /\ ~conn[c].cgi_active /\ ~conn[c].res_ready /\ conn[c] \in ClientCon
      /\ UNCHANGED <<tables, proc>>
  BY DEF Respond, PipesFail, Idle, TypeOK
<1>3. /\ Answering(conn[c], ka).up = conn[c].up
      /\ Answering(conn[c], ka).cgi_active = conn[c].cgi_active
      /\ Answering(conn[c], ka).res_ready = TRUE
  BY <1>2 DEF Answering, ClientCon
<1>4. /\ conn'[c].up /\ ~conn'[c].cgi_active /\ conn'[c].res_ready
      /\ \A d \in Fds : d # c => conn'[d] = conn[d]
  BY <1>1, <1>2, <1>3 DEF TypeOK
<1>5. PhaseTable /\ PhaseTable' BY PhaseIs, PhaseIsNext
<1>6. PhaseOf(c) = "asking" /\ PhaseOf(c)' = "sending" BY <1>2, <1>4, <1>5 DEF PhaseTable
<1>7. \A d \in Fds : d # c => Same(d) BY <1>2, <1>4 DEF Same, tables
<1>8. LastsOf(c)' \in BOOLEAN BY DEF LastsOf
<1>9. E!Move(c, {"asking"}, "sending", LastsOf(c)') BY <1>6, <1>7, MoveStep
<1>10. QED BY <1>8, <1>9 DEF E!Answer

\* An answer that comes while a script runs, and an upload's first lines, leave
\* every exchange where it was.
LEMMA EarlyExchange ==
    ASSUME TypeOK, TypeOK', Structure, NEW c \in Fds,
           \/ (Respond(c) \/ PipesFail(c)) /\ conn[c].cgi_active
           \/ BeginUpload(c)
    PROVE  UNCHANGED <<phase, lasts>>
<1>1. conn[c] \in ClientCon /\ conn[c].up /\ ~conn[c].res_ready
  BY DEF Respond, PipesFail, BeginUpload, Idle, TypeOK
<1>2. UNCHANGED <<tables, proc>> BY DEF Respond, PipesFail, BeginUpload
<1>3. PICK k : /\ conn' = [conn EXCEPT ![c] = k]
               /\ k.up = conn[c].up /\ k.cgi_active = conn[c].cgi_active
               /\ conn[c].cgi_active \/ k.res_ready = conn[c].res_ready
  <2>1. CASE (Respond(c) \/ PipesFail(c)) /\ conn[c].cgi_active
    <3>1. PICK ka \in BOOLEAN : conn' = [conn EXCEPT ![c] = Answering(conn[c], ka)]
      BY <2>1 DEF Respond, PipesFail
    <3>2. conn[c].cgi_active BY <2>1
    <3>3. QED BY <1>1, <3>1, <3>2, AnsweringShape
  <2>2. CASE BeginUpload(c)
    <3>1. PICK ka \in BOOLEAN : conn' = [conn EXCEPT ![c].keep_alive = ka]
      BY <2>2 DEF BeginUpload
    <3>2. conn' = [conn EXCEPT ![c] = [conn[c] EXCEPT !.keep_alive = ka]] BY <3>1
    <3>3. LET k == [conn[c] EXCEPT !.keep_alive = ka]
          IN  /\ k.up = conn[c].up /\ k.cgi_active = conn[c].cgi_active
              /\ k.res_ready = conn[c].res_ready
      BY <1>1 DEF ClientCon
    <3>4. QED BY <3>2, <3>3
  <2>3. QED BY <2>1, <2>2
<1>4. conn'[c] = k /\ \A d \in Fds : d # c => conn'[d] = conn[d]
  BY <1>3 DEF TypeOK
<1>5. \A d \in Fds : d # c => Same(d) BY <1>2, <1>4 DEF Same, tables
<1>6. CASE conn[c].cgi_active
  <2>1. Same(c) BY <1>2, <1>3, <1>4, <1>6 DEF Same, tables
  <2>2. QED BY <1>5, <2>1, SameStep
<1>7. CASE ~conn[c].cgi_active
  <2>1. PhaseTable /\ PhaseTable' BY PhaseIs, PhaseIsNext
  <2>2. PhaseOf(c) = "asking" /\ PhaseOf(c)' = "asking"
    BY <1>1, <1>3, <1>4, <1>7, <2>1 DEF PhaseTable
  <2>3. LastsOf(c) = FALSE /\ LastsOf(c)' = FALSE BY <2>2 DEF LastsOf
  <2>4. \A d \in Fds : PhaseOf(d)' = PhaseOf(d) /\ LastsOf(d)' = LastsOf(d)
    BY <1>5, <2>2, <2>3, SamePhase
  <2>5. QED BY <2>4 DEF phase, lasts
<1>8. QED BY <1>6, <1>7

LEMMA LaunchExchange ==
    ASSUME TypeOK, TypeOK', Structure, NEW c \in Fds, Launch(c)
    PROVE  E!RunScript(c)
<1>1. PICK p \in Pids, in \in FreeFds, out \in FreeFds, err \in FreeFds,
           first \in Nat, rest \in Nat, chunked \in BOOLEAN, ka \in BOOLEAN :
             /\ in # out /\ in # err /\ out # err
             /\ LaunchWith(c, p, in, out, err, first, rest, chunked, ka)
  BY LaunchPick
<1> DEFINE body == chunked \/ first > 0 \/ rest > 0
           q == Started(c, in, out, err, body, first)
           k == Running(conn[c], ka, body, chunked, rest)
<1>2. /\ LaunchAs(c, p, in, out, err, body)
      /\ proc' = [proc EXCEPT ![p] = q] /\ conn' = [conn EXCEPT ![c] = k]
      /\ ~Live(p)
  BY <1>1 DEF LaunchWith
<1>3. conn[c].up /\ ~conn[c].cgi_active /\ ~conn[c].res_ready /\ conn[c] \in ClientCon
  BY DEF Launch, Idle, WaitsForScript, TypeOK
<1>4. k.up = conn[c].up /\ k.cgi_active = TRUE
  BY <1>3 DEF Running, ClientCon
<1>5. body \in BOOLEAN OBVIOUS
<1> HIDE DEF body
<1>6. ~q.headers_complete BY <1>5, StartedShape
<1> HIDE DEF q, k
<1>7. /\ proc'[p] = q /\ \A r \in Pids : r # p => proc'[r] = proc[r]
      /\ conn'[c] = k /\ \A d \in Fds : d # c => conn'[d] = conn[d]
      /\ client_map'[c] = p /\ \A d \in Fds : d # c => client_map'[d] = client_map[d]
  BY <1>2 DEF LaunchAs, TypeOK
<1>8. PhaseTable /\ PhaseTable' BY PhaseIs, PhaseIsNext
<1>9. PhaseOf(c) = "asking" /\ PhaseOf(c)' = "waiting"
  BY <1>3, <1>4, <1>6, <1>7, <1>8 DEF PhaseTable
<1>10. LastsOf(c)' = FALSE BY <1>9 DEF LastsOf
<1>11. ASSUME NEW d \in Fds, d # c PROVE Same(d)
  <2>1. conn[d].cgi_active => client_map[d] \in Pids /\ client_map[d] # p
    BY <1>2, ClientsProcess DEF Structure, ClientsAgree
  <2>2. QED BY <1>7, <1>11, <2>1 DEF Same
<1>12. E!Move(c, {"asking"}, "waiting", FALSE) BY <1>9, <1>10, <1>11, MoveStep
<1>13. QED BY <1>12 DEF E!RunScript

\* A step that tells no exchange from another.
LEMMA QuietStep ==
    ASSUME TypeOK, TypeOK', Structure, client_map' = client_map,
           \A p \in Pids : proc'[p].headers_complete = proc[p].headers_complete,
           \A d \in Fds : /\ conn'[d].up = conn[d].up
                          /\ conn'[d].cgi_active = conn[d].cgi_active
                          /\ conn'[d].res_ready = conn[d].res_ready
                          /\ conn'[d].keep_alive = conn[d].keep_alive
                          /\ conn'[d].close_after_send = conn[d].close_after_send
    PROVE  UNCHANGED <<phase, lasts>>
<1>1. \A d \in Fds : conn[d].cgi_active => client_map[d] \in Pids
  BY ClientsProcess DEF Structure, ClientsAgree
<1>2. \A d \in Fds : Same(d) BY <1>1 DEF Same
<1>3. QED BY <1>2, SameStep

LEMMA FeedBodyExchange ==
    ASSUME TypeOK, TypeOK', Structure, NEW c \in Fds, FeedBody(c)
    PROVE  UNCHANGED <<phase, lasts>>
<1> DEFINE p == client_map[c]
<1>1. p \in Pids BY ClientsProcess DEF FeedBody, Structure, ClientsAgree
<1>2. PICK n \in Feedable(c), done \in BOOLEAN :
        conn' = [conn EXCEPT ![c] = Receiving(conn[c], n, done)]
  BY DEF FeedBody
<1>3. \A d \in Fds : /\ conn'[d].up = conn[d].up
                     /\ conn'[d].cgi_active = conn[d].cgi_active
                     /\ conn'[d].res_ready = conn[d].res_ready
                     /\ conn'[d].keep_alive = conn[d].keep_alive
                     /\ conn'[d].close_after_send = conn[d].close_after_send
  <2>1. conn[c] \in ClientCon BY DEF TypeOK
  <2> DEFINE k == Receiving(conn[c], n, done)
  <2>2. /\ k.up = conn[c].up /\ k.cgi_active = conn[c].cgi_active
        /\ k.res_ready = conn[c].res_ready /\ k.keep_alive = conn[c].keep_alive
        /\ k.close_after_send = conn[c].close_after_send
    BY <2>1 DEF Receiving, ClientCon
  <2> HIDE DEF k
  <2>3. conn' = [conn EXCEPT ![c] = k] BY <1>2 DEF k
  <2>4. QED BY <2>2, <2>3 DEF TypeOK
<1>4. \A r \in Pids : proc'[r].headers_complete = proc[r].headers_complete
  <2>1. CASE CloseStdin(p) BY <1>1, <2>1 DEF CloseStdin, TypeOK, CgiProcess
  <2>2. CASE proc' = proc \/ \E n1 : proc' = [proc EXCEPT ![p].pending = n1]
    <3> HIDE DEF p
    <3>1. QED BY <1>1, <2>2, PendingShape
  <2>3. QED BY <2>1, <2>2 DEF FeedBody
<1>5. client_map' = client_map BY DEF FeedBody
<1>6. QED BY <1>3, <1>4, <1>5, QuietStep

LEMMA PipeExchange ==
    ASSUME TypeOK, TypeOK', Structure, NEW f \in Fds,
           (HandleStdin(f) /\ ~ServerEnds) \/ HandleStderr(f)
    PROVE  UNCHANGED <<phase, lasts>>
<1>1. UNCHANGED <<client_map, conn>> BY DEF HandleStdin, HandleStderr
<1>2. CASE HandleStdin(f) /\ ~ServerEnds
  <2> DEFINE p == stdin_map[f]
  <2>1. p \in Pids BY <1>2 DEF HandleStdin, TypeOK
  <2>2. \A r \in Pids : proc'[r].headers_complete = proc[r].headers_complete
    <3>1. CASE CloseStdin(p) BY <2>1, <3>1 DEF CloseStdin, TypeOK, CgiProcess
    <3>2. CASE \E n : proc' = [proc EXCEPT ![p].pending = n]
      <4> HIDE DEF p
      <4>1. QED BY <2>1, <3>2, PendingShape
    <3>3. QED BY <1>2, <3>1, <3>2 DEF HandleStdin
  <2>3. QED BY <1>1, <2>2, QuietStep
<1>3. CASE HandleStderr(f)
  <2>1. \A r \in Pids : proc'[r].headers_complete = proc[r].headers_complete
    BY <1>3 DEF HandleStderr, TypeOK, CgiProcess
  <2>2. QED BY <1>1, <2>1, QuietStep
<1>4. QED BY <1>2, <1>3

LEMMA ClientWriteExchange ==
    ASSUME TypeOK, TypeOK', Structure, NEW c \in Fds, ClientWrite(c)
    PROVE  E!Leave(c) \/ E!Sent(c) \/ UNCHANGED <<phase, lasts>>
<1>1. conn[c].up /\ conn[c].res_ready BY ClientWriteCases
<1>2. CASE CloseClient(c) BY <1>1, <1>2, CloseClientExchange
<1>3. ASSUME NEW n \in 0 .. conn[c].unsent, WriteKeeps(c, n)
      PROVE  E!Sent(c) \/ UNCHANGED <<phase, lasts>>
  <2>1. /\ conn'[c].up = conn[c].up /\ conn'[c].cgi_active = conn[c].cgi_active
        /\ conn'[c].res_ready <=> n # conn[c].unsent
        /\ conn'[c].keep_alive = conn[c].keep_alive
        /\ conn'[c].close_after_send = conn[c].close_after_send
        /\ \A d \in Fds : d # c => conn'[d] = conn[d]
    BY <1>3, WriteKeepsShape
  <2>2. UNCHANGED tables BY <1>3 DEF WriteKeeps
  <2>3. \A r \in Pids : proc'[r].headers_complete = proc[r].headers_complete
    BY <1>3, UnpausedShape DEF WriteKeeps
  <2>4. \A d \in Fds : conn[d].cgi_active => client_map[d] \in Pids
    BY ClientsProcess DEF Structure, ClientsAgree
  <2>5. \A d \in Fds : d # c => Same(d) BY <2>1, <2>2, <2>3, <2>4 DEF Same, tables
  <2>6. CASE conn[c].cgi_active \/ n # conn[c].unsent
    <3>1. conn'[c].res_ready \in BOOLEAN BY DEF TypeOK, ClientCon
    <3>2. conn[c].res_ready = TRUE BY <1>1 DEF TypeOK, ClientCon
    <3>3. Same(c) BY <2>1, <2>2, <2>3, <2>4, <2>6, <3>1, <3>2 DEF Same, tables
    <3>4. QED BY <2>5, <3>3, SameStep
  <2>7. CASE ~conn[c].cgi_active /\ n = conn[c].unsent
    <3>1. conn[c].keep_alive /\ ~conn[c].close_after_send BY <1>3, <2>7 DEF WriteKeeps
    <3>2. PhaseTable /\ PhaseTable' BY PhaseIs, PhaseIsNext
    <3>3. PhaseOf(c) = "sending" /\ PhaseOf(c)' = "asking"
      BY <1>1, <2>1, <2>7, <3>2 DEF PhaseTable
    <3>4. LastsOf(c) = TRUE /\ LastsOf(c)' = FALSE BY <3>1, <3>3 DEF LastsOf
    <3>5. E!Move(c, {"sending"}, "asking", FALSE) BY <2>5, <3>3, <3>4, MoveStep
    <3>6. lasts[c] = TRUE BY <3>4 DEF lasts
    <3>7. QED BY <3>5, <3>6 DEF E!Sent
  <2>8. QED BY <2>6, <2>7
<1>4. QED BY <1>2, <1>3, ClientWriteCases

LEMMA HandleStdoutExchange ==
    ASSUME IInv, TypeOK', NEW f \in Fds, HandleStdout(f)
    PROVE  (\E d \in Fds : E!Finish(d) \/ E!Drained(d) \/ E!Start(d))
           \/ UNCHANGED <<phase, lasts>>
<1> DEFINE p == processes[f]
           c == proc[p].client
           bad == script[p].head = "bad" \/ (AtEof(p) /\ script[p].head = "unwritten")
           q == [proc[p] EXCEPT !.headers_complete = @ \/ ~bad,
                                !.force_close = @ \/ script[p].head = "nolength"]
           k == Forwarded(conn[c], p)
           stalled == q.pause_stdout \/ k.unsent > Threshold
           r == [q EXCEPT !.pause_stdout = stalled]
<1>1. TypeOK /\ Structure /\ Rest BY IInvParts
<1>2. p \in Pids /\ Live(p) BY <1>1, HandleStdoutCases
<1>3. /\ c \in Fds /\ conn[c] \in ClientCon /\ k \in ClientCon /\ proc[p] \in CgiProcess
      /\ script[p] \in Script /\ conn[c].up /\ conn[c].cgi_active /\ client_map[c] = p
  <2>1. /\ c \in Fds /\ conn[c] \in ClientCon /\ proc[p] \in CgiProcess
        /\ conn[c].up /\ conn[c].cgi_active /\ client_map[c] = p
    BY <1>1, <1>2, LiveProcess, LiveClientCon
  <2>2. script[p] \in Script BY <1>1, <1>2 DEF TypeOK
  <2> HIDE DEF p, c
  <2>3. QED BY <1>1, <1>2, <2>1, <2>2, ForwardedType DEF p, c
<1>4. /\ q.headers_complete = (proc[p].headers_complete \/ ~bad)
      /\ r.headers_complete = q.headers_complete
  BY <1>3 DEF CgiProcess
<1>5. proc[p].headers_complete <=> script[p].head = "read"
  BY <1>1, <1>2 DEF Rest, ResponseKept, RelayUndisturbed, RelayBookkeeping
<1>6. /\ ~HasOutput(p) => k = conn[c]
      /\ HasOutput(p) => /\ k.up = conn[c].up /\ k.cgi_active = conn[c].cgi_active
                         /\ k.res_ready = TRUE
  <2> HIDE DEF p, c
  <2>1. QED BY <1>1, <1>2, <1>3, ForwardedResponse DEF p, c
<1>7. CASE CleanupProcess(p, proc[p], conn[c], "InvalidHeaders")
  BY <1>1, <1>2, <1>3, <1>7, CleanupExchange
<1>8. CASE ~bad /\ AtEof(p) /\ CleanupProcess(p, q, k, "Normal")
  <2>1. ~k.res_ready => proc[p].headers_complete
    <3> HIDE DEF k
    <3>1. ~HasOutput(p) => script[p].head \in {"unwritten", "read"} BY DEF HasOutput
    <3>2. QED BY <1>5, <1>6, <1>8, <3>1
  <2>2. k.up BY <1>3, <1>6
  <2> HIDE DEF k, q
  <2>3. QED BY <1>1, <1>2, <1>3, <1>8, <2>1, <2>2, CleanupExchange
<1>9. CASE /\ ~bad /\ HasOutput(p)
           /\ proc' = [proc EXCEPT ![p] = r] /\ conn' = [conn EXCEPT ![c] = k]
           /\ UNCHANGED <<open, tables, sigPipe>>
  <2>1. PICK p0 \in Pids, c0 \in Fds : p0 = p /\ c0 = c BY <1>2, <1>3
  <2>2. r.headers_complete /\ k.up /\ k.cgi_active BY <1>3, <1>4, <1>6, <1>9
  <2> HIDE DEF r, k, c
  <2>3. /\ proc'[p0] = r /\ \A s \in Pids : s # p0 => proc'[s] = proc[s]
        /\ conn'[c0] = k /\ \A d \in Fds : d # c0 => conn'[d] = conn[d]
        /\ client_map' = client_map
    BY <1>1, <1>9, <2>1 DEF TypeOK, tables
  <2> HIDE DEF p
  <2>4. ASSUME NEW d \in Fds, d # c0 PROVE Same(d)
    <3>1. conn[d].cgi_active => client_map[d] \in Pids /\ client_map[d] # p0
      BY <1>1, <1>2, <2>1, <2>4, ClientsProcess DEF Structure, ClientsAgree, c
    <3>2. QED BY <2>3, <2>4, <3>1 DEF Same
  <2>5. PhaseTable /\ PhaseTable' BY <1>1, PhaseIs, PhaseIsNext
  <2>6. PhaseOf(c0)' = "relaying"
    BY <1>3, <2>1, <2>2, <2>3, <2>5 DEF PhaseTable
  <2>7. PhaseOf(c0) = IF proc[p0].headers_complete THEN "relaying" ELSE "waiting"
    BY <1>3, <2>1, <2>5 DEF PhaseTable
  <2>8. LastsOf(c0)' = FALSE /\ LastsOf(c0) = FALSE BY <2>6, <2>7 DEF LastsOf
  <2>9. CASE proc[p0].headers_complete
    <3>1. \A d \in Fds : PhaseOf(d)' = PhaseOf(d) /\ LastsOf(d)' = LastsOf(d)
      BY <1>1, <2>4, <2>6, <2>7, <2>8, <2>9, SamePhase
    <3>2. QED BY <3>1 DEF phase, lasts
  <2>10. CASE ~proc[p0].headers_complete
    <3>1. E!Move(c0, {"waiting"}, "relaying", FALSE)
      BY <1>1, <2>4, <2>6, <2>7, <2>8, <2>10, MoveStep
    <3>2. QED BY <3>1 DEF E!Start
  <2>11. QED BY <2>9, <2>10
<1>10. QED BY <1>1, <1>7, <1>8, <1>9, HandleStdoutCases

LEMMA CrashExchange ==
    ASSUME TypeOK', ServerEnds
    PROVE  E!Crash
<1>1. \A c \in Fds : ~conn'[c].up BY DEF ServerEnds, NoConn
<1>2. \A c \in Fds : PhaseOf(c)' = "closed" BY <1>1, PhaseIsNext DEF PhaseTable
<1>3. \A c \in Fds : LastsOf(c)' = FALSE BY <1>2 DEF LastsOf
<1>4. QED BY <1>2, <1>3 DEF E!Crash, phase, lasts

LEMMA NextExchange ==
    ASSUME IInv, TypeOK', [Next]_vars
    PROVE  E!ExNext \/ UNCHANGED <<phase, lasts>>
<1>1. TypeOK /\ Structure /\ Rest BY IInvParts
<1>2. CASE ServerEnds BY <1>2, CrashExchange DEF E!ExNext
<1>3. CASE NewConnection BY <1>1, <1>3, ConnectExchange DEF E!ExNext
<1>4. ASSUME NEW c \in Fds, \/ Respond(c) \/ BeginUpload(c) \/ PipesFail(c)
                            \/ Launch(c) \/ FeedBody(c) \/ ClientWrite(c) \/ ClientLeaves(c)
      PROVE  E!ExNext \/ UNCHANGED <<phase, lasts>>
  <2>1. CASE ClientLeaves(c)
    BY <1>1, <2>1, CloseClientExchange DEF ClientLeaves, E!ExNext
  <2>2. CASE (Respond(c) \/ PipesFail(c)) /\ ~conn[c].cgi_active
    BY <1>1, <2>2, AnswerExchange DEF E!ExNext
  <2>7. CASE ((Respond(c) \/ PipesFail(c)) /\ conn[c].cgi_active) \/ BeginUpload(c)
    BY <1>1, <2>7, EarlyExchange
  <2>3. CASE Launch(c) BY <1>1, <2>3, LaunchExchange DEF E!ExNext
  <2>4. CASE FeedBody(c) BY <1>1, <2>4, FeedBodyExchange
  <2>5. CASE ClientWrite(c) BY <1>1, <2>5, ClientWriteExchange DEF E!ExNext
  <2>6. QED BY <1>4, <2>1, <2>2, <2>3, <2>4, <2>5, <2>7
<1>5. ASSUME NEW f \in Fds, HandleStdin(f) \/ HandleStdout(f) \/ HandleStderr(f)
      PROVE  E!ExNext \/ UNCHANGED <<phase, lasts>>
  <2>1. CASE HandleStdout(f) BY <2>1, HandleStdoutExchange DEF E!ExNext
  <2>2. QED BY <1>1, <1>2, <1>5, <2>1, PipeExchange
<1>6. ASSUME NEW p \in Pids, Expire(p) PROVE E!ExNext
  BY <1>1, <1>6, LiveClientCon, CleanupExchange DEF Expire, E!ExNext
<1>7. CASE UNCHANGED <<conn, client_map, proc>> BY <1>1, <1>7, QuietStep
<1>8. ASSUME NEW p \in Pids, ReapChild(p)
      PROVE  E!ExNext \/ UNCHANGED <<phase, lasts>>
  <2>1. CASE p \in pid_map /\ CleanupProcess(p, proc[p], conn[proc[p].client], "ExecFailure")
    <3>1. Live(p) BY <1>1, <2>1 DEF Structure, TablesAgree
    <3>2. QED BY <1>1, <2>1, <3>1, LiveClientCon, CleanupExchange DEF E!ExNext
  <2>2. QED BY <1>7, <1>8, <2>1 DEF ReapChild
<1>9. ASSUME NEW p \in Pids, ScriptWrites(p) \/ ScriptExits(p)
      PROVE  E!ExNext \/ UNCHANGED <<phase, lasts>>
  <2>1. UNCHANGED <<conn, client_map, proc>>
    BY <1>9 DEF ScriptWrites, ScriptExits, tables
  <2>2. QED BY <1>7, <2>1
<1>10. CASE HandleSignalPipe \/ ReapDone \/ UNCHANGED vars
  BY <1>7, <1>10 DEF HandleSignalPipe, ReapDone, vars, tables
<1>11. QED BY <1>2, <1>3, <1>4, <1>5, <1>6, <1>8, <1>9, <1>10 DEF Next, AcceptFails

\* On every connection requests and answers alternate, whatever the scripts,
\* the clients and the kernel do and however many there are: one answer to a
\* request, never a second one, and a next request only after an answer that
\* said the connection lasts or that its script completed.  What is answered to
\* a peer that asks again before its script's header block belongs to the
\* script's exchange.
THEOREM ExchangeImplemented == Spec => ImplementsExchange
<1>1. IInv /\ TypeOK' /\ [Next]_vars => [E!ExNext]_<<phase, lasts>>
  BY NextExchange
<1>2. QED
  BY <1>1, InitExchange, InvariantHolds, TypeCorrect, PTL
  DEF Spec, ImplementsExchange, E!ExSafety
=============================================================================
