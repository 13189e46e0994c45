-------------------------- MODULE EventLoopProofs ---------------------------
(***************************************************************************)
(* Proofs about EventLoop for any number of descriptors, peers, requests   *)
(* and file lengths.                                                       *)
(***************************************************************************)
EXTENDS EventLoop, FiniteSetTheorems, TLAPS

UpIn(s, f) == s.conn[f].peer # NoPeer

\* DescriptorsOwned, descriptor by descriptor and of any server s.
Owned(s) ==
    /\ \A f \in Fds : s.desc[f] = "client" <=> UpIn(s, f)
    /\ \A f \in Fds : s.interest[f] = "none" <=> s.desc[f] \in {"free", "file", "lost"}

FilesOwned(s) ==
    /\ \A f \in Fds : s.conn[f].file_fd # NoFd =>
          UpIn(s, f) /\ s.desc[s.conn[f].file_fd] = "file"
    /\ \A d \in Fds : s.desc[d] = "file" => \E f \in Fds : s.conn[f].file_fd = d
    /\ \A f, g \in Fds : s.conn[f].file_fd = s.conn[g].file_fd /\ s.conn[f].file_fd # NoFd => f = g

PipesOwned(s) ==
    /\ \A f \in Fds : \A d \in Pipes(s, f) : s.desc[d] = "pipe"
    /\ \A d \in Fds : s.desc[d] = "pipe" => \E f \in Fds : d \in Pipes(s, f)
    /\ \A f, g \in Fds : \A d \in Fds : d \in Pipes(s, f) /\ d \in Pipes(s, g) => f = g
    /\ \A f \in Fds : s.script[f].st # "none" =>
          /\ UpIn(s, f) /\ s.conn[f].cgi_active
          /\ s.script[f].stdout # NoFd /\ s.script[f].stdout # s.script[f].stderr
    /\ \A f \in Fds : s.script[f].st = "none" => s.script[f] = NoScript

Session(s, pr, f) ==
    LET k == s.conn[f] q == s.script[f] p == k.peer IN
    /\ pr[p].st \in {"there", "reset"}
    /\ pr[p].due = k.out + k.file_bytes_remaining + k.file_buf
    /\ k.cgi_active => q.st # "none"
    /\ s.interest[f] = "write" <=> k.res_ready
    /\ k.out > 0 => k.res_ready
    /\ k.file_fd # NoFd => k.res_ready /\ q.st = "none"
    /\ k.file_fd = NoFd => k.file_bytes_remaining = 0 /\ k.file_buf = 0
    /\ s.interest[f] = "off" => q.headers_complete
    /\ q.headers_complete => q.wrote = 0
    /\ q.st # "none" /\ s.interest[f] = "read" => pr[p].sent = "none" /\ pr[p].waiting
    /\ q.st # "none" /\ ~q.headers_complete <=> q.st # "none" /\ s.interest[f] = "read"

Patient(c) == /\ c.sent # "none" => c.waiting /\ c.due = 0
              /\ c.due > 0 => c.waiting

Sessions(s, pr) ==
    /\ \A f \in Fds : UpIn(s, f) => Session(s, pr, f)
    /\ \A f, g \in Fds : UpIn(s, f) /\ s.conn[f].peer = s.conn[g].peer => f = g
    /\ \A p \in Peers : pr[p].st \notin {"there", "reset"} =>
          pr[p].sent = "none" /\ ~pr[p].waiting /\ pr[p].due = 0
    /\ \A p \in Peers : Patient(pr[p])

BatchOnce == \A i, j \in DOMAIN batch : batch[i].fd = batch[j].fd => i = j

Readables ==
    \A i \in DOMAIN batch : LET f == batch[i].fd IN
        f \in Fds /\ Up(f) /\ batch[i].readable =>
            \/ peer[srv.conn[f].peer].st = "reset"
            \/ srv.interest[f] = "read" /\ srv.script[f].st = "none"

IInv == /\ TypeOK /\ Owned(srv) /\ FilesOwned(srv) /\ PipesOwned(srv) /\ Sessions(srv, peer)
        /\ BatchOnce /\ Readables

-----------------------------------------------------------------------------
(* What the operations return, field by field.                             *)

LEMMA CloseFields ==
    ASSUME NEW s \in Server, NEW D \in SUBSET Fds
    PROVE  /\ Close(s, D) \in Server
           /\ Close(s, D).conn = s.conn /\ Close(s, D).script = s.script
           /\ \A d \in Fds : /\ Close(s, D).desc[d] = IF d \in D THEN "free" ELSE s.desc[d]
                             /\ Close(s, D).interest[d] = IF d \in D THEN "none" ELSE s.interest[d]
  BY DEF Close, Server

LEMMA NoConnType == NoConn \in ClientCon /\ NoScript \in Script
  BY DEF NoConn, ClientCon, NoScript, Script, NoFd

Files(s, F) == {s.conn[f].file_fd : f \in F} \ {NoFd}
AllPipes(s, F) == UNION {Pipes(s, f) : f \in F}

LEMMA Touched ==
    ASSUME NEW s \in Server, NEW F \in SUBSET Fds
    PROVE  Files(s, F) \subseteq Fds /\ AllPipes(s, F) \subseteq Fds
  BY DEF Files, AllPipes, Pipes, Server, ClientCon, Script

LEMMA NoStreamType ==
    ASSUME NEW k \in ClientCon
    PROVE  /\ NoStream(k) \in ClientCon
           /\ NoStream(k).peer = k.peer /\ NoStream(k).cgi_active = k.cgi_active
           /\ NoStream(k).file_fd = NoFd
  BY DEF NoStream, ClientCon, NoFd

LEMMA NoFdClosed == NoFd \notin Fds
  BY LoopAssumption DEF NoFd

LEMMA AfterScriptFields ==
    ASSUME NEW k \in ClientCon, NEW q \in Script, NEW reason
    PROVE  LET a == AfterScript(k, q, reason) IN
           /\ a \in ClientCon
           /\ a.peer = k.peer /\ a.file_fd = k.file_fd /\ ~a.cgi_active
           /\ a.file_bytes_remaining = k.file_bytes_remaining /\ a.file_buf = k.file_buf
  BY DEF AfterScript, ClientCon, Script

LEMMA ResetFields ==
    ASSUME NEW s \in Server, NEW F \in SUBSET Fds
    PROVE  LET t == ResetStaticFileStream(s, F) IN
           /\ t \in Server /\ t.script = s.script
           /\ \A f \in Fds : t.conn[f] = IF f \in F THEN NoStream(s.conn[f]) ELSE s.conn[f]
           /\ \A d \in Fds : /\ t.desc[d] = IF d \in Files(s, F) THEN "free" ELSE s.desc[d]
                             /\ t.interest[d] = IF d \in Files(s, F) THEN "none" ELSE s.interest[d]
  <1> DEFINE c == Close(s, Files(s, F))
  <1>1. /\ c \in Server /\ c.conn = s.conn /\ c.script = s.script
        /\ \A d \in Fds : /\ c.desc[d] = IF d \in Files(s, F) THEN "free" ELSE s.desc[d]
                          /\ c.interest[d] = IF d \in Files(s, F) THEN "none" ELSE s.interest[d]
    BY CloseFields, Touched
  <1>2. ResetStaticFileStream(s, F) =
          [c EXCEPT !.conn = [f \in Fds |-> IF f \in F THEN NoStream(@[f]) ELSE @[f]]]
    BY DEF ResetStaticFileStream, Files
  <1>3. \A f \in Fds : s.conn[f] \in ClientCon /\ NoStream(s.conn[f]) \in ClientCon
    BY NoStreamType DEF Server
  <1> HIDE DEF c
  <1> QED BY <1>1, <1>2, <1>3 DEF Server

LEMMA EndFields ==
    ASSUME NEW s \in Server, NEW F \in SUBSET Fds, NEW reason
    PROVE  LET t == EndScripts(s, F, reason) IN
           /\ t \in Server
           /\ \A f \in Fds :
                /\ t.conn[f] = IF f \in F THEN AfterScript(s.conn[f], s.script[f], reason)
                               ELSE s.conn[f]
                /\ t.script[f] = IF f \in F THEN NoScript ELSE s.script[f]
           /\ \A d \in Fds : /\ t.desc[d] = IF d \in AllPipes(s, F) THEN "free" ELSE s.desc[d]
                             /\ t.interest[d] = IF d \in AllPipes(s, F) THEN "none" ELSE s.interest[d]
  <1> DEFINE c == Close(s, AllPipes(s, F))
  <1>1. /\ c \in Server /\ c.conn = s.conn /\ c.script = s.script
        /\ \A d \in Fds : /\ c.desc[d] = IF d \in AllPipes(s, F) THEN "free" ELSE s.desc[d]
                          /\ c.interest[d] = IF d \in AllPipes(s, F) THEN "none" ELSE s.interest[d]
    BY CloseFields, Touched
  <1>2. EndScripts(s, F, reason) =
          [c EXCEPT !.conn = [f \in Fds |-> IF f \in F THEN AfterScript(@[f], s.script[f], reason)
                                            ELSE @[f]],
                    !.script = [f \in Fds |-> IF f \in F THEN NoScript ELSE @[f]]]
    BY DEF EndScripts, AllPipes
  <1>3. \A f \in Fds : s.conn[f] \in ClientCon /\ s.script[f] \in Script
                       /\ AfterScript(s.conn[f], s.script[f], reason) \in ClientCon
    BY AfterScriptFields DEF Server
  <1> DEFINE t == EndScripts(s, F, reason)
             conn == [f \in Fds |-> IF f \in F THEN AfterScript(s.conn[f], s.script[f], reason)
                                    ELSE s.conn[f]]
             script == [f \in Fds |-> IF f \in F THEN NoScript ELSE s.script[f]]
  <1>4. conn \in [Fds -> ClientCon] /\ script \in [Fds -> Script]
    BY <1>3, NoConnType
  <1>5. t = [c EXCEPT !.conn = conn, !.script = script]
    BY <1>1, <1>2
  <1>6. t = [desc |-> c.desc, interest |-> c.interest, conn |-> conn, script |-> script]
    <2> HIDE DEF t, c, conn, script
    <2> QED BY <1>1, <1>5 DEF Server
  <1>7. t \in Server
    <2> HIDE DEF t, c, conn, script
    <2> QED BY <1>1, <1>4, <1>6 DEF Server
  <1>8. t.desc = c.desc /\ t.interest = c.interest /\ t.conn = conn /\ t.script = script
    BY <1>6
  <1> QED BY <1>1, <1>7, <1>8

LEMMA CleanupFields ==
    ASSUME NEW s \in Server, NEW F \in SUBSET Fds, NEW reason, reason # "ClientGone"
    PROVE  LET t == CleanupProcess(s, F, reason) IN
           /\ t \in Server
           /\ \A f \in Fds :
                /\ t.conn[f] = IF f \in F THEN AfterScript(s.conn[f], s.script[f], reason)
                               ELSE s.conn[f]
                /\ t.script[f] = IF f \in F THEN NoScript ELSE s.script[f]
           /\ \A d \in Fds :
                /\ t.desc[d] = IF d \in AllPipes(s, F) THEN "free" ELSE s.desc[d]
                /\ t.interest[d] = IF d \in F
                      THEN IF t.conn[d].res_ready \/ t.conn[d].out > 0 THEN "write" ELSE "read"
                      ELSE IF d \in AllPipes(s, F) THEN "none" ELSE s.interest[d]
  <1> DEFINE t == CleanupProcess(s, F, reason)
             e == EndScripts(s, F, reason)
             interest == [f \in Fds |->
                 IF f \notin F THEN e.interest[f]
                 ELSE IF e.conn[f].res_ready \/ e.conn[f].out > 0 THEN "write"
                 ELSE "read"]
  <1>1. /\ e \in Server
        /\ \A f \in Fds :
                /\ e.conn[f] = IF f \in F THEN AfterScript(s.conn[f], s.script[f], reason)
                               ELSE s.conn[f]
                /\ e.script[f] = IF f \in F THEN NoScript ELSE s.script[f]
        /\ \A d \in Fds : /\ e.desc[d] = IF d \in AllPipes(s, F) THEN "free" ELSE s.desc[d]
                          /\ e.interest[d] = IF d \in AllPipes(s, F) THEN "none" ELSE s.interest[d]
    BY EndFields
  <1>2. t = [e EXCEPT !.interest = interest]
    BY DEF CleanupProcess
  <1>3. interest \in [Fds -> {"none", "off", "read", "write"}]
    <2> HIDE DEF e
    <2> QED BY <1>1 DEF Server
  <1>4. t \in Server /\ t.conn = e.conn /\ t.script = e.script /\ t.desc = e.desc
        /\ t.interest = interest
    <2> HIDE DEF t, e, interest
    <2> QED BY <1>1, <1>2, <1>3 DEF Server
  <1> QED
    <2> HIDE DEF t, e
    <2>1. \A d \in Fds : t.interest[d] = IF d \in F
                      THEN IF t.conn[d].res_ready \/ t.conn[d].out > 0 THEN "write" ELSE "read"
                      ELSE IF d \in AllPipes(s, F) THEN "none" ELSE s.interest[d]
      BY <1>1, <1>4
    <2>2. QED
      BY <1>1, <1>4, <2>1 DEF t

\* A connection without a script has no pipe: what close_client closes.
Given(s, F) == F \cup Files(s, F) \cup AllPipes(s, F)

LEMMA CloseClientFields ==
    ASSUME NEW s \in Server, NEW F \in SUBSET Fds,
           \A f \in Fds : s.script[f].st = "none" => s.script[f] = NoScript
    PROVE  LET t == CloseClient(s, F) IN
           /\ t \in Server
           /\ \A f \in Fds : /\ t.conn[f] = IF f \in F THEN NoConn ELSE s.conn[f]
                             /\ t.script[f] = IF f \in F THEN NoScript ELSE s.script[f]
           /\ \A d \in Fds : /\ t.desc[d] = IF d \in Given(s, F) THEN "free" ELSE s.desc[d]
                             /\ t.interest[d] = IF d \in Given(s, F) THEN "none" ELSE s.interest[d]
  <1> DEFINE scripts == {f \in F : s.script[f].st # "none"}
             r == ResetStaticFileStream(s, F)
             e == EndScripts(r, scripts, "ClientGone")
             c == Close(e, F)
             t == CloseClient(s, F)
             conn == [f \in Fds |-> IF f \in F THEN NoConn ELSE c.conn[f]]
  <1>1. /\ r \in Server /\ r.script = s.script
        /\ \A f \in Fds \ F : r.conn[f] = s.conn[f]
        /\ \A d \in Fds : /\ r.desc[d] = IF d \in Files(s, F) THEN "free" ELSE s.desc[d]
                          /\ r.interest[d] = IF d \in Files(s, F) THEN "none" ELSE s.interest[d]
    <2> HIDE DEF r
    <2> QED BY ResetFields DEF r
  <1>2. AllPipes(r, scripts) = AllPipes(s, F)
    <2>1. \A f \in F \ scripts : Pipes(s, f) = {}
      BY DEF Pipes, NoScript
    <2>2. \A f \in Fds : Pipes(r, f) = Pipes(s, f)
      BY <1>1 DEF Pipes
    <2> QED
      BY <2>1, <2>2 DEF AllPipes
  <1>3. /\ e \in Server
        /\ \A f \in Fds \ F : e.conn[f] = s.conn[f]
        /\ \A f \in Fds : e.script[f] = IF f \in F THEN NoScript ELSE s.script[f]
        /\ \A d \in Fds : /\ e.desc[d] = IF d \in Files(s, F) \cup AllPipes(s, F) THEN "free"
                                         ELSE s.desc[d]
                          /\ e.interest[d] = IF d \in Files(s, F) \cup AllPipes(s, F) THEN "none"
                                             ELSE s.interest[d]
    <2> HIDE DEF r
    <2>1. scripts \in SUBSET Fds
      OBVIOUS
    <2>2. /\ e \in Server
          /\ \A f \in Fds :
                /\ f \notin scripts => e.conn[f] = r.conn[f]
                /\ e.script[f] = IF f \in scripts THEN NoScript ELSE r.script[f]
          /\ \A d \in Fds : /\ e.desc[d] = IF d \in AllPipes(r, scripts) THEN "free" ELSE r.desc[d]
                            /\ e.interest[d] = IF d \in AllPipes(r, scripts) THEN "none"
                                               ELSE r.interest[d]
      <3>1. r \in Server
        BY <1>1
      <3> HIDE DEF scripts
      <3> QED BY <3>1, <2>1, EndFields
    <2> HIDE DEF e
    <2> QED BY <1>1, <1>2, <2>2
  <1>4. /\ c \in Server /\ c.conn = e.conn /\ c.script = e.script
        /\ \A d \in Fds : /\ c.desc[d] = IF d \in F THEN "free" ELSE e.desc[d]
                          /\ c.interest[d] = IF d \in F THEN "none" ELSE e.interest[d]
    <2> HIDE DEF e
    <2> QED BY <1>3, CloseFields
  <1>5. t = [c EXCEPT !.conn = conn]
    BY DEF CloseClient, CleanupProcess
  <1>6. conn \in [Fds -> ClientCon]
    <2> HIDE DEF c
    <2> QED BY <1>4, NoConnType DEF Server
  <1>7. t \in Server /\ t.conn = conn /\ t.script = c.script /\ t.desc = c.desc
        /\ t.interest = c.interest
    <2> HIDE DEF t, c, conn
    <2> QED BY <1>4, <1>5, <1>6 DEF Server
  <1> QED
    <2> HIDE DEF t, c, e
    <2>1. \A f \in Fds : /\ t.conn[f] = IF f \in F THEN NoConn ELSE s.conn[f]
                         /\ t.script[f] = IF f \in F THEN NoScript ELSE s.script[f]
      BY <1>3, <1>4, <1>7
    <2>2. \A d \in Fds : /\ t.desc[d] = IF d \in Given(s, F) THEN "free" ELSE s.desc[d]
                         /\ t.interest[d] = IF d \in Given(s, F) THEN "none" ELSE s.interest[d]
      BY <1>3, <1>4, <1>7 DEF Given
    <2> QED BY <1>7, <2>1, <2>2 DEF t

-----------------------------------------------------------------------------
(* The operations keep every descriptor with its owner.                    *)

AllOwned(s) == Owned(s) /\ FilesOwned(s) /\ PipesOwned(s)

LEMMA PipesType ==
    ASSUME NEW s \in Server, NEW f \in Fds
    PROVE  Pipes(s, f) \subseteq Fds
  BY DEF Pipes, Server, Script

\* Closing connections takes nothing from the others (close_client).
LEMMA CloseClientOwned ==
    ASSUME NEW s \in Server, AllOwned(s), NEW F \in SUBSET Fds, \A f \in F : UpIn(s, f)
    PROVE  AllOwned(CloseClient(s, F))
  <1> DEFINE t == CloseClient(s, F)
             D == Given(s, F)
  <1>1. /\ t \in Server
        /\ \A f \in Fds : /\ t.conn[f] = IF f \in F THEN NoConn ELSE s.conn[f]
                          /\ t.script[f] = IF f \in F THEN NoScript ELSE s.script[f]
        /\ \A d \in Fds : /\ t.desc[d] = IF d \in D THEN "free" ELSE s.desc[d]
                          /\ t.interest[d] = IF d \in D THEN "none" ELSE s.interest[d]
    BY CloseClientFields DEF AllOwned, PipesOwned
  <1> HIDE DEF t
  <1>2. \A f \in Fds : Pipes(t, f) = IF f \in F THEN {} ELSE Pipes(s, f)
    BY <1>1 DEF Pipes, NoScript
  <1>3. \A d \in Fds : d \in D <=> \/ d \in F
                                   \/ \E f \in F : s.conn[f].file_fd = d
                                   \/ \E f \in F : d \in Pipes(s, f)
    <2>1. \A d \in Fds : d \in Files(s, F) <=> \E f \in F : s.conn[f].file_fd = d
      BY NoFdClosed DEF Files
    <2>2. \A d \in Fds : d \in AllPipes(s, F) <=> \E f \in F : d \in Pipes(s, f)
      BY DEF AllPipes
    <2> QED BY <2>1, <2>2 DEF Given
  <1> HIDE DEF D
  <1>9. \A d \in Fds : d \in D =>
             \/ d \in F /\ s.desc[d] = "client"
             \/ s.desc[d] = "file"
             \/ s.desc[d] = "pipe" /\ \E g \in F : d \in Pipes(s, g)
    <2> SUFFICES ASSUME NEW d \in Fds, d \in D
                 PROVE  \/ d \in F /\ s.desc[d] = "client"
                        \/ s.desc[d] = "file"
                        \/ s.desc[d] = "pipe" /\ \E g \in F : d \in Pipes(s, g)
      OBVIOUS
    <2>1. CASE d \in F
      BY <2>1 DEF AllOwned, Owned
    <2>2. CASE \E f \in F : s.conn[f].file_fd = d
      BY <2>2, NoFdClosed DEF AllOwned, FilesOwned
    <2>3. CASE \E f \in F : d \in Pipes(s, f)
      BY <2>3 DEF AllOwned, PipesOwned
    <2> QED BY <1>3, <2>1, <2>2, <2>3
  <1>4. Owned(t)
    <2>1. ASSUME NEW f \in Fds
          PROVE  t.desc[f] = "client" <=> UpIn(t, f)
      BY <1>1, <1>3, <1>9 DEF AllOwned, Owned, UpIn, NoConn
    <2>2. ASSUME NEW f \in Fds
          PROVE  t.interest[f] = "none" <=> t.desc[f] \in {"free", "file", "lost"}
      BY <1>1 DEF AllOwned, Owned
    <2> QED BY <2>1, <2>2 DEF Owned
  <1>5. FilesOwned(t)
    <2>1. ASSUME NEW f \in Fds, t.conn[f].file_fd # NoFd
          PROVE  f \notin F /\ UpIn(t, f) /\ t.desc[t.conn[f].file_fd] = "file"
      <3>1. f \notin F /\ t.conn[f] = s.conn[f]
        BY <1>1, <2>1 DEF NoConn
      <3>2. s.conn[f].file_fd \in Fds /\ s.desc[s.conn[f].file_fd] = "file" /\ UpIn(s, f)
        BY <2>1, <3>1 DEF AllOwned, FilesOwned, Server, ClientCon
      <3>3. s.conn[f].file_fd \notin D
        BY <1>3, <2>1, <3>1, <3>2 DEF AllOwned, Owned, FilesOwned, PipesOwned
      <3> QED BY <1>1, <3>1, <3>2, <3>3 DEF UpIn
    <2>2. ASSUME NEW d \in Fds, t.desc[d] = "file"
          PROVE  \E f \in Fds : t.conn[f].file_fd = d
      <3>1. s.desc[d] = "file" /\ d \notin D
        BY <1>1, <2>2
      <3>2. PICK f \in Fds : s.conn[f].file_fd = d
        BY <3>1 DEF AllOwned, FilesOwned
      <3> QED BY <1>1, <1>3, <3>1, <3>2
    <2>3. \A f, g \in Fds : t.conn[f].file_fd = t.conn[g].file_fd /\ t.conn[f].file_fd # NoFd
                               => f = g
      BY <1>1 DEF AllOwned, FilesOwned, NoConn
    <2> QED BY <2>1, <2>2, <2>3 DEF FilesOwned
  <1>6. PipesOwned(t)
    <2>1. ASSUME NEW f \in Fds, NEW d \in Pipes(t, f)
          PROVE  t.desc[d] = "pipe"
      <3>1. f \notin F /\ d \in Pipes(s, f) /\ d \in Fds
        BY <1>2, <2>1, PipesType
      <3>2. s.desc[d] = "pipe"
        BY <3>1 DEF AllOwned, PipesOwned
      <3>3. d \notin D
        BY <1>9, <3>1, <3>2 DEF AllOwned, PipesOwned
      <3> QED BY <1>1, <3>1, <3>2, <3>3
    <2>2. ASSUME NEW d \in Fds, t.desc[d] = "pipe"
          PROVE  \E f \in Fds : d \in Pipes(t, f)
      <3>1. s.desc[d] = "pipe" /\ d \notin D
        BY <1>1, <2>2
      <3>2. PICK f \in Fds : d \in Pipes(s, f)
        BY <3>1 DEF AllOwned, PipesOwned
      <3> QED BY <1>2, <1>3, <3>1, <3>2
    <2>3. \A f, g \in Fds : \A d \in Fds : d \in Pipes(t, f) /\ d \in Pipes(t, g) => f = g
      BY <1>2 DEF AllOwned, PipesOwned
    <2>4. \A f \in Fds : t.script[f].st # "none" =>
              /\ UpIn(t, f) /\ t.conn[f].cgi_active
              /\ t.script[f].stdout # NoFd /\ t.script[f].stdout # t.script[f].stderr
      BY <1>1 DEF AllOwned, PipesOwned, NoScript, UpIn
    <2>5. \A f \in Fds : t.script[f].st = "none" => t.script[f] = NoScript
      BY <1>1 DEF AllOwned, PipesOwned
    <2> QED BY <2>1, <2>2, <2>3, <2>4, <2>5 DEF PipesOwned
  <1> QED BY <1>4, <1>5, <1>6 DEF AllOwned, t

\* So does ending scripts (cleanupProcess).
LEMMA CleanupOwned ==
    ASSUME NEW s \in Server, AllOwned(s), NEW F \in SUBSET Fds,
           \A f \in F : s.script[f].st # "none",
           NEW reason, reason # "ClientGone"
    PROVE  AllOwned(CleanupProcess(s, F, reason))
  <1> DEFINE t == CleanupProcess(s, F, reason)
             D == AllPipes(s, F)
  <1>1. /\ t \in Server
        /\ \A f \in Fds :
             /\ t.conn[f].peer = s.conn[f].peer /\ t.conn[f].file_fd = s.conn[f].file_fd
             /\ f \notin F => t.conn[f] = s.conn[f]
             /\ t.script[f] = IF f \in F THEN NoScript ELSE s.script[f]
        /\ \A d \in Fds :
             /\ t.desc[d] = IF d \in D THEN "free" ELSE s.desc[d]
             /\ d \in F => t.interest[d] # "none"
             /\ d \notin F => t.interest[d] = IF d \in D THEN "none" ELSE s.interest[d]
    <2>1. \A f \in Fds : s.conn[f] \in ClientCon /\ s.script[f] \in Script
      BY DEF Server
    <2>2. \A f \in Fds : LET a == AfterScript(s.conn[f], s.script[f], reason) IN
             a.peer = s.conn[f].peer /\ a.file_fd = s.conn[f].file_fd
      BY <2>1, AfterScriptFields
    <2>3. /\ t \in Server
          /\ \A f \in Fds :
                /\ t.conn[f] = IF f \in F THEN AfterScript(s.conn[f], s.script[f], reason)
                               ELSE s.conn[f]
                /\ t.script[f] = IF f \in F THEN NoScript ELSE s.script[f]
          /\ \A d \in Fds :
                /\ t.desc[d] = IF d \in AllPipes(s, F) THEN "free" ELSE s.desc[d]
                /\ t.interest[d] = IF d \in F
                      THEN IF t.conn[d].res_ready \/ t.conn[d].out > 0 THEN "write" ELSE "read"
                      ELSE IF d \in AllPipes(s, F) THEN "none" ELSE s.interest[d]
      BY CleanupFields
    <2> HIDE DEF t
    <2> QED BY <2>2, <2>3
  <1> HIDE DEF t
  <1>2. \A f \in Fds : Pipes(t, f) = IF f \in F THEN {} ELSE Pipes(s, f)
    BY <1>1 DEF Pipes, NoScript
  <1>3. \A d \in Fds : d \in D <=> \E f \in F : d \in Pipes(s, f)
    BY DEF AllPipes
  <1>4. \A d \in Fds : d \in D => s.desc[d] = "pipe"
    BY <1>3 DEF AllOwned, PipesOwned
  <1>5. \A f \in F : UpIn(s, f)
    BY DEF AllOwned, PipesOwned
  <1> HIDE DEF D
  <1>6. Owned(t)
    BY <1>1, <1>4, <1>5 DEF AllOwned, Owned, UpIn
  <1>7. FilesOwned(t)
    <2>1. \A f \in Fds : s.conn[f].file_fd \in Fds \cup {NoFd}
      BY DEF Server, ClientCon
    <2> QED BY <1>1, <1>4, <2>1 DEF AllOwned, FilesOwned, UpIn
  <1>8. PipesOwned(t)
    <2>1. ASSUME NEW f \in Fds, NEW d \in Pipes(t, f)
          PROVE  t.desc[d] = "pipe"
      <3>1. f \notin F /\ d \in Pipes(s, f) /\ d \in Fds
        BY <1>2, <2>1, PipesType
      <3>2. d \notin D
        BY <1>3, <3>1 DEF AllOwned, PipesOwned
      <3> QED BY <1>1, <3>1, <3>2 DEF AllOwned, PipesOwned
    <2>2. ASSUME NEW d \in Fds, t.desc[d] = "pipe"
          PROVE  \E f \in Fds : d \in Pipes(t, f)
      <3>1. s.desc[d] = "pipe" /\ d \notin D
        BY <1>1, <2>2
      <3>2. PICK f \in Fds : d \in Pipes(s, f)
        BY <3>1 DEF AllOwned, PipesOwned
      <3> QED BY <1>2, <1>3, <3>1, <3>2
    <2>3. \A f, g \in Fds : \A d \in Fds : d \in Pipes(t, f) /\ d \in Pipes(t, g) => f = g
      BY <1>2 DEF AllOwned, PipesOwned
    <2>4. \A f \in Fds : t.script[f].st # "none" =>
              /\ UpIn(t, f) /\ t.conn[f].cgi_active
              /\ t.script[f].stdout # NoFd /\ t.script[f].stdout # t.script[f].stderr
      BY <1>1 DEF AllOwned, PipesOwned, NoScript, UpIn
    <2>5. \A f \in Fds : t.script[f].st = "none" => t.script[f] = NoScript
      BY <1>1 DEF AllOwned, PipesOwned
    <2> QED BY <2>1, <2>2, <2>3, <2>4, <2>5 DEF PipesOwned
  <1> QED BY <1>6, <1>7, <1>8 DEF AllOwned, t

\* Closing a file stream gives back that file (reset_static_file_stream).
LEMMA ResetOwned ==
    ASSUME NEW s \in Server, AllOwned(s), NEW F \in SUBSET Fds
    PROVE  AllOwned(ResetStaticFileStream(s, F))
  <1> DEFINE t == ResetStaticFileStream(s, F)
             D == Files(s, F)
  <1>1. /\ t \in Server /\ t.script = s.script
        /\ \A f \in Fds : t.conn[f] = IF f \in F THEN NoStream(s.conn[f]) ELSE s.conn[f]
        /\ \A d \in Fds : /\ t.desc[d] = IF d \in D THEN "free" ELSE s.desc[d]
                          /\ t.interest[d] = IF d \in D THEN "none" ELSE s.interest[d]
    BY ResetFields
  <1>2. \A f \in Fds : /\ s.conn[f] \in ClientCon
                       /\ t.conn[f].peer = s.conn[f].peer
                       /\ t.conn[f].cgi_active = s.conn[f].cgi_active
                       /\ t.conn[f].file_fd = IF f \in F THEN NoFd ELSE s.conn[f].file_fd
    <2> HIDE DEF t
    <2>1. \A f \in Fds : s.conn[f] \in ClientCon
      BY DEF Server
    <2>2. \A f \in Fds : LET n == NoStream(s.conn[f]) IN
             n.peer = s.conn[f].peer /\ n.cgi_active = s.conn[f].cgi_active /\ n.file_fd = NoFd
      BY <2>1, NoStreamType
    <2> QED BY <1>1, <2>1, <2>2
  <1> HIDE DEF t
  <1>3. \A d \in Fds : d \in D <=> \E f \in F : s.conn[f].file_fd = d
    BY LoopAssumption DEF Files, NoFd
  <1>4. \A d \in D : s.desc[d] = "file"
    BY DEF Files, AllOwned, FilesOwned
  <1> HIDE DEF D
  <1>5. Owned(t)
    BY <1>1, <1>2, <1>3, <1>4 DEF AllOwned, Owned, UpIn
  <1>6. FilesOwned(t)
    <2>1. ASSUME NEW f \in Fds, t.conn[f].file_fd # NoFd
          PROVE  UpIn(t, f) /\ t.desc[t.conn[f].file_fd] = "file"
      <3>1. f \notin F /\ t.conn[f].file_fd = s.conn[f].file_fd /\ s.conn[f].file_fd \in Fds
        BY <1>2, <2>1 DEF ClientCon
      <3>2. s.conn[f].file_fd \notin D
        BY <1>3, <2>1, <3>1 DEF AllOwned, FilesOwned
      <3> QED BY <1>1, <1>2, <2>1, <3>1, <3>2 DEF AllOwned, FilesOwned, UpIn
    <2>2. ASSUME NEW d \in Fds, t.desc[d] = "file"
          PROVE  \E f \in Fds : t.conn[f].file_fd = d
      <3>1. s.desc[d] = "file" /\ d \notin D
        BY <1>1, <2>2
      <3>2. PICK f \in Fds : s.conn[f].file_fd = d
        BY <3>1 DEF AllOwned, FilesOwned
      <3> QED BY <1>2, <1>3, <3>1, <3>2
    <2>3. \A f, g \in Fds : t.conn[f].file_fd = t.conn[g].file_fd /\ t.conn[f].file_fd # NoFd
                               => f = g
      BY <1>2 DEF AllOwned, FilesOwned
    <2> QED BY <2>1, <2>2, <2>3 DEF FilesOwned
  <1>7. PipesOwned(t)
    <2>1. \A f \in Fds : Pipes(t, f) = Pipes(s, f) /\ Pipes(s, f) \subseteq Fds
      BY <1>1, PipesType DEF Pipes
    <2> QED BY <1>1, <1>2, <1>4, <2>1 DEF AllOwned, PipesOwned, UpIn
  <1> QED BY <1>5, <1>6, <1>7 DEF AllOwned, t

\* So does every change that leaves descriptors and their owners as they are.
SameOwners(s, t) ==
    /\ t.desc = s.desc
    /\ \A f \in Fds :
         /\ t.conn[f].peer = s.conn[f].peer
         /\ t.conn[f].file_fd = s.conn[f].file_fd
         /\ t.interest[f] = "none" <=> s.interest[f] = "none"
         /\ t.script[f].stdout = s.script[f].stdout /\ t.script[f].stderr = s.script[f].stderr
         /\ t.script[f].st = "none" <=> s.script[f].st = "none"
         /\ t.script[f].st = "none" => t.script[f] = s.script[f]
         /\ t.script[f].st # "none" => t.conn[f].cgi_active = s.conn[f].cgi_active

LEMMA SameOwned ==
    ASSUME NEW s \in Server, AllOwned(s), NEW t, SameOwners(s, t)
    PROVE  AllOwned(t)
  <1>1. \A f \in Fds : Pipes(t, f) = Pipes(s, f) /\ Pipes(s, f) \subseteq Fds
    BY PipesType DEF SameOwners, Pipes
  <1>2. Owned(t)
    BY DEF AllOwned, Owned, SameOwners, UpIn
  <1>3. FilesOwned(t)
    BY DEF AllOwned, FilesOwned, SameOwners, UpIn
  <1>4. PipesOwned(t)
    BY <1>1 DEF AllOwned, PipesOwned, SameOwners, UpIn
  <1> QED BY <1>2, <1>3, <1>4 DEF AllOwned

\* A file that is opened belongs to the connection it is for
\* (start_static_file_stream).
LEMMA OpenFileOwned ==
    ASSUME NEW s \in Server, AllOwned(s), NEW t \in Server,
           NEW f \in Fds, UpIn(s, f), s.conn[f].file_fd = NoFd,
           NEW d \in Fds, s.desc[d] = "free",
           t.desc = [s.desc EXCEPT ![d] = "file"], t.script = s.script,
           \A g \in Fds : /\ t.conn[g].peer = s.conn[g].peer
                          /\ t.conn[g].cgi_active = s.conn[g].cgi_active
                          /\ t.conn[g].file_fd = IF g = f THEN d ELSE s.conn[g].file_fd
                          /\ t.interest[g] = "none" <=> s.interest[g] = "none"
    PROVE  AllOwned(t)
  <1>1. \A g \in Fds : t.desc[g] = IF g = d THEN "file" ELSE s.desc[g]
    BY DEF Server
  <1>2. Owned(t)
    BY <1>1 DEF AllOwned, Owned, UpIn
  <1>3. \A g \in Fds : s.conn[g].file_fd # d
    BY NoFdClosed DEF AllOwned, FilesOwned
  <1>4. FilesOwned(t)
    <2>1. \A g \in Fds : s.conn[g].file_fd \in Fds \cup {NoFd}
      BY DEF Server, ClientCon
    <2> QED BY <1>1, <1>3, <2>1, NoFdClosed DEF AllOwned, FilesOwned, UpIn
  <1>5. PipesOwned(t)
    <2>1. \A g \in Fds : Pipes(t, g) = Pipes(s, g) /\ Pipes(s, g) \subseteq Fds
      BY PipesType DEF Pipes
    <2> QED BY <1>1, <2>1 DEF AllOwned, PipesOwned, UpIn
  <1> QED BY <1>2, <1>4, <1>5 DEF AllOwned

\* The pipes of a new script belong to its connection (launch).
LEMMA LaunchOwned ==
    ASSUME NEW s \in Server, AllOwned(s), NEW t \in Server,
           NEW f \in Fds, UpIn(s, f), s.script[f].st = "none",
           NEW out \in Fds, NEW err \in Fds, out # err,
           s.desc[out] = "free", s.desc[err] = "free",
           t.desc = [s.desc EXCEPT ![out] = "pipe", ![err] = "pipe"],
           t.interest = [s.interest EXCEPT ![out] = "read", ![err] = "read"],
           \A g \in Fds : /\ t.conn[g].peer = s.conn[g].peer
                          /\ t.conn[g].file_fd = s.conn[g].file_fd
                          /\ g # f => t.script[g] = s.script[g] /\ t.conn[g] = s.conn[g],
           t.conn[f].cgi_active, t.script[f].st # "none",
           t.script[f].stdout = out, t.script[f].stderr = err
    PROVE  AllOwned(t)
  <1>1. \A g \in Fds : /\ t.desc[g] = IF g \in {out, err} THEN "pipe" ELSE s.desc[g]
                       /\ t.interest[g] = IF g \in {out, err} THEN "read" ELSE s.interest[g]
    BY DEF Server
  <1>2. Owned(t)
    BY <1>1 DEF AllOwned, Owned, UpIn
  <1>3. FilesOwned(t)
    <2>1. \A g \in Fds : s.conn[g].file_fd \in Fds \cup {NoFd}
      BY DEF Server, ClientCon
    <2> QED BY <1>1, <2>1 DEF AllOwned, FilesOwned, UpIn
  <1>4. /\ Pipes(t, f) = {out, err} /\ Pipes(s, f) = {}
        /\ \A g \in Fds \ {f} : Pipes(t, g) = Pipes(s, g)
        /\ \A g \in Fds : Pipes(s, g) \subseteq Fds
    BY PipesType, NoFdClosed DEF Pipes, AllOwned, PipesOwned, NoScript
  <1>5. PipesOwned(t)
    <2>1. \A g \in Fds : \A d \in Pipes(t, g) : t.desc[d] = "pipe"
      BY <1>1, <1>4 DEF AllOwned, PipesOwned
    <2>2. \A d \in Fds : t.desc[d] = "pipe" => \E g \in Fds : d \in Pipes(t, g)
      <3> SUFFICES ASSUME NEW d \in Fds, t.desc[d] = "pipe"
                   PROVE  \E g \in Fds : d \in Pipes(t, g)
        OBVIOUS
      <3>1. CASE d \in {out, err}
        BY <1>4, <3>1
      <3>2. CASE d \notin {out, err}
        <4>1. PICK g \in Fds : d \in Pipes(s, g)
          BY <1>1, <3>2 DEF AllOwned, PipesOwned
        <4> QED BY <1>4, <4>1
      <3> QED BY <3>1, <3>2
    <2>3. \A g, h \in Fds : \A d \in Fds : d \in Pipes(t, g) /\ d \in Pipes(t, h) => g = h
      <3>1. \A g \in Fds : \A d \in Pipes(s, g) : d \notin {out, err}
        BY DEF AllOwned, PipesOwned
      <3> QED BY <1>4, <3>1 DEF AllOwned, PipesOwned
    <2>4. \A g \in Fds : t.script[g].st # "none" =>
              /\ UpIn(t, g) /\ t.conn[g].cgi_active
              /\ t.script[g].stdout # NoFd /\ t.script[g].stdout # t.script[g].stderr
      BY NoFdClosed DEF AllOwned, PipesOwned, UpIn
    <2>5. \A g \in Fds : t.script[g].st = "none" => t.script[g] = NoScript
      BY DEF AllOwned, PipesOwned
    <2> QED BY <2>1, <2>2, <2>3, <2>4, <2>5 DEF PipesOwned
  <1> QED BY <1>2, <1>3, <1>5 DEF AllOwned

\* The pipe ends a failed launch loses are nobody's (launch).
LEMMA LostOwned ==
    ASSUME NEW s \in Server, AllOwned(s), NEW D \in SUBSET Fds, \A d \in D : s.desc[d] = "free"
    PROVE  LET t == [s EXCEPT !.desc = [g \in Fds |-> IF g \in D THEN "lost" ELSE @[g]]] IN
           /\ t \in Server /\ AllOwned(t)
           /\ t.conn = s.conn /\ t.script = s.script /\ t.interest = s.interest
  <1> DEFINE desc == [g \in Fds |-> IF g \in D THEN "lost" ELSE s.desc[g]]
             t == [s EXCEPT !.desc = [g \in Fds |-> IF g \in D THEN "lost" ELSE @[g]]]
  <1>1. desc \in [Fds -> {"free", "client", "file", "pipe", "lost"}]
    BY DEF Server
  <1>2. t = [s EXCEPT !.desc = desc]
    OBVIOUS
  <1>3. \A g \in Fds : desc[g] = IF g \in D THEN "lost" ELSE s.desc[g]
    OBVIOUS
  <1> HIDE DEF desc, t
  <1>4. /\ t \in Server /\ t.desc = desc
        /\ t.conn = s.conn /\ t.script = s.script /\ t.interest = s.interest
    BY <1>1, <1>2 DEF Server
  <1>5. Owned(t)
    BY <1>3, <1>4 DEF AllOwned, Owned, UpIn
  <1>6. FilesOwned(t)
    <2>1. \A g \in Fds : s.conn[g].file_fd \in Fds \cup {NoFd}
      BY DEF Server, ClientCon
    <2> QED BY <1>3, <1>4, <2>1 DEF AllOwned, FilesOwned, UpIn
  <1>7. PipesOwned(t)
    <2>1. \A g \in Fds : Pipes(t, g) = Pipes(s, g) /\ Pipes(s, g) \subseteq Fds
      BY <1>4, PipesType DEF Pipes
    <2> QED BY <1>3, <1>4, <2>1 DEF AllOwned, PipesOwned, UpIn
  <1> QED BY <1>4, <1>5, <1>6, <1>7 DEF AllOwned, t

\* A socket that is accepted is its connection's (new_connection).
LEMMA AcceptOwned ==
    ASSUME NEW s \in Server, AllOwned(s), NEW t \in Server,
           NEW N \in SUBSET Fds, \A f \in N : s.desc[f] = "free",
           t.script = s.script,
           \A f \in Fds :
             /\ t.desc[f] = IF f \in N THEN "client" ELSE s.desc[f]
             /\ t.interest[f] = IF f \in N THEN "read" ELSE s.interest[f]
             /\ f \in N => UpIn(t, f) /\ t.conn[f].file_fd = NoFd
             /\ f \notin N => t.conn[f] = s.conn[f]
    PROVE  AllOwned(t)
  <1>1. Owned(t)
    BY DEF AllOwned, Owned, UpIn
  <1>2. FilesOwned(t)
    <2>1. \A f \in N : s.conn[f].file_fd = NoFd
      BY DEF AllOwned, Owned, FilesOwned
    <2>2. \A g \in Fds : s.conn[g].file_fd \in Fds \cup {NoFd}
      BY DEF Server, ClientCon
    <2> QED BY <2>1, <2>2, NoFdClosed DEF AllOwned, FilesOwned, UpIn
  <1>3. PipesOwned(t)
    <2>1. \A g \in Fds : Pipes(t, g) = Pipes(s, g) /\ Pipes(s, g) \subseteq Fds
      BY PipesType DEF Pipes
    <2>2. \A f \in N : s.script[f].st = "none"
      BY DEF AllOwned, Owned, PipesOwned
    <2> QED BY <2>1, <2>2 DEF AllOwned, PipesOwned, UpIn
  <1> QED BY <1>1, <1>2, <1>3 DEF AllOwned

\* A script's stderr is closed at its end, and the rest later (handleEvent).
LEMMA StderrOwned ==
    ASSUME NEW s \in Server, AllOwned(s), NEW t \in Server, NEW f \in Fds,
           s.script[f].stderr # NoFd,
           t.conn = s.conn,
           \A g \in Fds :
             /\ t.desc[g] = IF g = s.script[f].stderr THEN "free" ELSE s.desc[g]
             /\ t.interest[g] = IF g = s.script[f].stderr THEN "none" ELSE s.interest[g]
             /\ g # f => t.script[g] = s.script[g],
           t.script[f] = [s.script[f] EXCEPT !.stderr = NoFd]
    PROVE  AllOwned(t)
  <1> DEFINE d == s.script[f].stderr
  <1>1. s.script[f] \in Script
    BY DEF Server
  <1>2. /\ t.script[f].st = s.script[f].st /\ t.script[f].stdout = s.script[f].stdout
        /\ t.script[f].stderr = NoFd
    BY <1>1 DEF Script
  <1>3. s.script[f].st # "none" /\ d \in Fds /\ s.desc[d] = "pipe"
    BY <1>1 DEF AllOwned, PipesOwned, NoScript, Pipes, Script
  <1>4. /\ Pipes(t, f) = Pipes(s, f) \ {d} /\ d \in Pipes(s, f)
        /\ \A g \in Fds \ {f} : Pipes(t, g) = Pipes(s, g)
        /\ \A g \in Fds : Pipes(s, g) \subseteq Fds
    <2>1. s.script[f].stdout # d
      BY <1>3 DEF AllOwned, PipesOwned
    <2> QED BY <1>2, <1>3, <2>1, PipesType DEF Pipes
  <1> HIDE DEF d
  <1>5. \A g \in Fds : /\ t.desc[g] = IF g = d THEN "free" ELSE s.desc[g]
                       /\ t.interest[g] = IF g = d THEN "none" ELSE s.interest[g]
    BY DEF d
  <1>6. Owned(t)
    BY <1>3, <1>5 DEF AllOwned, Owned, UpIn
  <1>7. FilesOwned(t)
    <2>1. \A g \in Fds : s.conn[g].file_fd \in Fds \cup {NoFd}
      BY DEF Server, ClientCon
    <2> QED BY <1>3, <1>5, <2>1 DEF AllOwned, FilesOwned, UpIn
  <1>8. PipesOwned(t)
    <2>1. ASSUME NEW g \in Fds, NEW e \in Pipes(t, g)
          PROVE  t.desc[e] = "pipe"
      <3>1. e \in Pipes(s, g) /\ e \in Fds /\ e # d
        BY <1>3, <1>4, <2>1 DEF AllOwned, PipesOwned
      <3> QED BY <1>5, <3>1 DEF AllOwned, PipesOwned
    <2>2. ASSUME NEW e \in Fds, t.desc[e] = "pipe"
          PROVE  \E g \in Fds : e \in Pipes(t, g)
      <3>1. e # d /\ s.desc[e] = "pipe"
        BY <1>5, <2>2
      <3>2. PICK g \in Fds : e \in Pipes(s, g)
        BY <3>1 DEF AllOwned, PipesOwned
      <3> QED BY <1>4, <3>1, <3>2
    <2>3. \A g, h \in Fds : \A e \in Fds : e \in Pipes(t, g) /\ e \in Pipes(t, h) => g = h
      BY <1>4 DEF AllOwned, PipesOwned
    <2>4. \A g \in Fds : t.script[g].st # "none" =>
              /\ UpIn(t, g) /\ t.conn[g].cgi_active
              /\ t.script[g].stdout # NoFd /\ t.script[g].stdout # t.script[g].stderr
      <3>1. \A g \in Fds \ {f} : t.script[g] = s.script[g]
        OBVIOUS
      <3>2. t.script[f].stdout # NoFd /\ UpIn(t, f) /\ t.conn[f].cgi_active
        BY <1>2, <1>3 DEF AllOwned, PipesOwned, UpIn
      <3>3. \A g \in Fds \ {f} : s.script[g].st # "none" =>
              /\ UpIn(t, g) /\ t.conn[g].cgi_active
              /\ s.script[g].stdout # NoFd /\ s.script[g].stdout # s.script[g].stderr
        BY DEF AllOwned, PipesOwned, UpIn
      <3>4. t.script[f].stdout # t.script[f].stderr
        BY <1>2, <3>2
      <3> SUFFICES ASSUME NEW g \in Fds, t.script[g].st # "none"
                   PROVE  /\ UpIn(t, g) /\ t.conn[g].cgi_active
                          /\ t.script[g].stdout # NoFd /\ t.script[g].stdout # t.script[g].stderr
        OBVIOUS
      <3>5. CASE g = f
        BY <3>2, <3>4, <3>5
      <3>6. CASE g # f
        BY <3>1, <3>3, <3>6
      <3> QED BY <3>5, <3>6
    <2>5. \A g \in Fds : t.script[g].st = "none" => t.script[g] = NoScript
      <3>1. \A g \in Fds \ {f} : t.script[g] = s.script[g]
        OBVIOUS
      <3>2. \A g \in Fds : s.script[g].st = "none" => s.script[g] = NoScript
        BY DEF AllOwned, PipesOwned
      <3>3. t.script[f].st # "none"
        BY <1>2, <1>3
      <3> QED BY <3>1, <3>2, <3>3
    <2> QED BY <2>1, <2>2, <2>3, <2>4, <2>5 DEF PipesOwned
  <1> QED BY <1>6, <1>7, <1>8 DEF AllOwned

-----------------------------------------------------------------------------
(* A handler changes the connections in X alone.                           *)

SameAt(s, t, f) ==
    t.conn[f] = s.conn[f] /\ t.script[f] = s.script[f] /\ t.interest[f] = s.interest[f]

\* From the server s and the peers pr to t and pr2, as the handlers do it.
Touches(s, pr, t, pr2, X) ==
    /\ \A f \in Fds : UpIn(t, f) => UpIn(s, f) /\ t.conn[f].peer = s.conn[f].peer
    /\ \A f \in Fds \ X : UpIn(t, f) =>
          SameAt(s, t, f) /\ pr2[s.conn[f].peer] = pr[s.conn[f].peer]
    /\ \A f \in X : UpIn(t, f) => Session(t, pr2, f)
    /\ \A p \in Peers : /\ pr2[p].st = pr[p].st
                        /\ pr[p].st \notin {"there", "reset"} => pr2[p] = pr[p]
                        /\ Patient(pr2[p])

LEMMA PeersAfterType ==
    ASSUME NEW t \in Server, NEW pr \in [Peers -> Peer]
    PROVE  /\ PeersAfter(t, pr) \in [Peers -> Peer]
           /\ \A f \in Fds : UpIn(t, f) =>
                 PeersAfter(t, pr)[t.conn[f].peer] = pr[t.conn[f].peer]
           /\ \A p \in Peers :
                 \/ PeersAfter(t, pr)[p] = pr[p]
                 \/ /\ PeersAfter(t, pr)[p].st = "away" /\ PeersAfter(t, pr)[p].sent = "none"
                    /\ ~PeersAfter(t, pr)[p].waiting /\ PeersAfter(t, pr)[p].due = 0
  <1>1. \A p \in Peers : pr[p] \in Peer
    OBVIOUS
  <1>2. \A p \in Peers : LET q == [pr[p] EXCEPT !.st = "away", !.sent = "none",
                                                !.waiting = FALSE, !.due = 0]
                         IN  q \in Peer /\ q.st = "away" /\ q.sent = "none"
                             /\ ~q.waiting /\ q.due = 0
    BY <1>1 DEF Peer
  <1>3. \A f \in Fds : UpIn(t, f) => t.conn[f].peer \in Peers
    BY DEF UpIn, Server, ClientCon
  <1> QED BY <1>1, <1>2, <1>3 DEF PeersAfter

LEMMA SessionsStep ==
    ASSUME NEW s \in Server, NEW t \in Server, NEW pr \in [Peers -> Peer],
           NEW pr2 \in [Peers -> Peer], NEW X \in SUBSET Fds,
           Sessions(s, pr), Touches(s, pr, t, pr2, X),
           NEW pr3 \in {pr2, PeersAfter(t, pr2)}
    PROVE  Sessions(t, pr3) /\ pr3 \in [Peers -> Peer]
  <1>1. /\ pr3 \in [Peers -> Peer]
        /\ \A f \in Fds : UpIn(t, f) => pr3[t.conn[f].peer] = pr2[t.conn[f].peer]
        /\ \A p \in Peers : \/ pr3[p] = pr2[p]
                            \/ pr3[p].sent = "none" /\ ~pr3[p].waiting /\ pr3[p].due = 0
    BY PeersAfterType
  <1>2. ASSUME NEW f \in Fds, UpIn(t, f)
        PROVE  Session(t, pr3, f)
    <2>1. Session(t, pr2, f)
      <3>1. CASE f \in X
        BY <1>2, <3>1 DEF Touches
      <3>2. CASE f \notin X
        <4>1. Session(s, pr, f) /\ SameAt(s, t, f) /\ pr2[s.conn[f].peer] = pr[s.conn[f].peer]
          BY <1>2, <3>2 DEF Touches, Sessions
        <4> QED BY <4>1 DEF Session, SameAt
      <3> QED BY <3>1, <3>2
    <2> QED BY <1>1, <1>2, <2>1 DEF Session
  <1>3. \A f, g \in Fds : UpIn(t, f) /\ t.conn[f].peer = t.conn[g].peer => f = g
    BY DEF Touches, Sessions, UpIn
  <1>4. \A p \in Peers : /\ pr3[p].st \notin {"there", "reset"} =>
                               pr3[p].sent = "none" /\ ~pr3[p].waiting /\ pr3[p].due = 0
                         /\ Patient(pr3[p])
    <2> SUFFICES ASSUME NEW p \in Peers
                 PROVE  /\ pr3[p].st \notin {"there", "reset"} =>
                               pr3[p].sent = "none" /\ ~pr3[p].waiting /\ pr3[p].due = 0
                        /\ Patient(pr3[p])
      OBVIOUS
    <2>1. CASE pr3[p] = pr2[p]
      BY <2>1 DEF Touches, Sessions
    <2>2. CASE pr3[p].sent = "none" /\ ~pr3[p].waiting /\ pr3[p].due = 0
      BY <2>2 DEF Patient
    <2> QED BY <1>1, <2>1, <2>2
  <1> QED BY <1>1, <1>2, <1>3, <1>4 DEF Sessions

\* What a handler may do without making a lie of an event that is still in
\* the batch: one that is readable is of a peer that has gone, or of one whose
\* request no script is working on.
LEMMA ReadablesStep ==
    ASSUME srv \in Server, batch \in Seq(PollEvent), batch # <<>>, BatchOnce, Readables,
           batch' = Tail(batch),
           \A f \in Fds : f # Head(batch).fd /\ UpIn(srv', f) =>
              \/ /\ UpIn(srv, f) /\ srv'.conn[f].peer = srv.conn[f].peer
                 /\ peer'[srv.conn[f].peer].st = peer[srv.conn[f].peer].st
                 /\ srv.script[f].st = "none" =>
                       srv'.script[f].st = "none" /\ srv'.interest[f] = srv.interest[f]
              \/ srv'.interest[f] = "read" /\ srv'.script[f].st = "none"
    PROVE  BatchOnce' /\ Readables' /\ batch' \in Seq(PollEvent)
  <1>1. /\ batch' \in Seq(PollEvent) /\ DOMAIN batch' = 1 .. Len(batch) - 1
        /\ \A i \in DOMAIN batch' : batch'[i] = batch[i + 1]
        /\ DOMAIN batch = 1 .. Len(batch) /\ Len(batch) \in Nat /\ Head(batch) = batch[1]
    OBVIOUS
  <1>2. BatchOnce'
    BY <1>1 DEF BatchOnce
  <1>3. \A i \in DOMAIN batch' : /\ i + 1 \in DOMAIN batch
                                 /\ batch'[i].fd # Head(batch).fd
    <2>1. \A i \in DOMAIN batch' : i + 1 \in DOMAIN batch /\ 1 \in DOMAIN batch /\ i + 1 # 1
      BY <1>1
    <2> QED BY <1>1, <2>1 DEF BatchOnce
  <1>4. ASSUME NEW i \in DOMAIN batch', batch'[i].fd \in Fds, UpIn(srv', batch'[i].fd),
               batch'[i].readable
        PROVE  \/ peer'[srv'.conn[batch'[i].fd].peer].st = "reset"
               \/ srv'.interest[batch'[i].fd] = "read" /\ srv'.script[batch'[i].fd].st = "none"
    <2> DEFINE f == batch'[i].fd
    <2>1. \/ /\ UpIn(srv, f) /\ srv'.conn[f].peer = srv.conn[f].peer
             /\ peer'[srv.conn[f].peer].st = peer[srv.conn[f].peer].st
             /\ srv.script[f].st = "none" =>
                   srv'.script[f].st = "none" /\ srv'.interest[f] = srv.interest[f]
          \/ srv'.interest[f] = "read" /\ srv'.script[f].st = "none"
      BY <1>3, <1>4
    <2>2. UpIn(srv, f) => \/ peer[srv.conn[f].peer].st = "reset"
                          \/ srv.interest[f] = "read" /\ srv.script[f].st = "none"
      BY <1>1, <1>3, <1>4 DEF Readables, Up, UpIn
    <2> QED BY <2>1, <2>2
  <1> QED BY <1>1, <1>2, <1>4 DEF Readables, Up, UpIn

LEMMA HandlerStep ==
    ASSUME IInv, NEW fd, Dispatch(fd), sigchld' \in BOOLEAN,
           NEW t \in Server, NEW pr2 \in [Peers -> Peer], NEW X \in SUBSET Fds,
           AllOwned(t), Touches(srv, peer, t, pr2, X),
           \A f \in X \ {fd} : srv.script[f].st # "none",
           srv' = t, peer' \in {pr2, PeersAfter(t, pr2)}
    PROVE  IInv'
  <1>1. /\ srv \in Server /\ peer \in [Peers -> Peer] /\ AllOwned(srv) /\ Sessions(srv, peer)
        /\ BatchOnce /\ Readables /\ batch \in Seq(PollEvent) /\ batch # <<>>
        /\ batch' = Tail(batch) /\ phase' = phase /\ Head(batch).fd = fd
        /\ phase \in {"wait", "dispatch"}
    BY DEF IInv, TypeOK, AllOwned, Dispatch
  <1>2. Sessions(srv', peer') /\ peer' \in [Peers -> Peer]
    <2>1. Sessions(t, pr2) /\ Sessions(t, PeersAfter(t, pr2))
      BY <1>1, SessionsStep
    <2>2. PeersAfter(t, pr2) \in [Peers -> Peer]
      BY PeersAfterType
    <2> QED BY <2>1, <2>2
  <1>3. ASSUME NEW f \in Fds, f # fd, UpIn(srv', f)
        PROVE  /\ UpIn(srv, f) /\ srv'.conn[f].peer = srv.conn[f].peer
               /\ peer'[srv.conn[f].peer].st = peer[srv.conn[f].peer].st
               /\ srv.script[f].st = "none" =>
                     srv'.script[f].st = "none" /\ srv'.interest[f] = srv.interest[f]
    <2>1. UpIn(srv, f) /\ srv'.conn[f].peer = srv.conn[f].peer
      BY <1>3 DEF Touches
    <2>2. peer'[srv.conn[f].peer] = pr2[srv.conn[f].peer] /\ srv.conn[f].peer \in Peers
      <3>1. srv.conn[f].peer \in Peers
        BY <1>1, <2>1 DEF UpIn, Server, ClientCon
      <3>2. PeersAfter(t, pr2)[t.conn[f].peer] = pr2[t.conn[f].peer]
        BY <1>3, PeersAfterType
      <3> QED BY <2>1, <3>1, <3>2
    <2>3. srv.script[f].st = "none" => SameAt(srv, srv', f)
      BY <1>3 DEF Touches
    <2> QED BY <2>1, <2>2, <2>3 DEF Touches, SameAt
  <1>4. BatchOnce' /\ Readables' /\ batch' \in Seq(PollEvent)
    BY <1>1, <1>3, ReadablesStep
  <1> QED BY <1>1, <1>2, <1>4 DEF IInv, TypeOK, AllOwned

-----------------------------------------------------------------------------
(* client_write.                                                           *)

LEMMA CloseKeeps ==
    ASSUME NEW s \in Server, AllOwned(s), NEW F \in SUBSET Fds, \A f \in F : UpIn(s, f)
    PROVE  LET t == CloseClient(s, F) IN
           /\ t \in Server /\ AllOwned(t)
           /\ \A f \in F : ~UpIn(t, f)
           /\ \A f \in Fds \ F : t.conn[f] = s.conn[f] /\ t.script[f] = s.script[f]
           /\ \A f \in Fds : UpIn(t, f) => f \notin F /\ UpIn(s, f) /\ SameAt(s, t, f)
  <1> DEFINE t == CloseClient(s, F)
  <1>1. /\ t \in Server
        /\ \A f \in Fds : /\ t.conn[f] = IF f \in F THEN NoConn ELSE s.conn[f]
                          /\ t.script[f] = IF f \in F THEN NoScript ELSE s.script[f]
        /\ \A d \in Fds : /\ t.desc[d] = IF d \in Given(s, F) THEN "free" ELSE s.desc[d]
                          /\ t.interest[d] = IF d \in Given(s, F) THEN "none" ELSE s.interest[d]
    BY CloseClientFields DEF AllOwned, PipesOwned
  <1>2. AllOwned(t)
    BY CloseClientOwned
  <1> HIDE DEF t
  <1>3. ASSUME NEW f \in Fds, UpIn(t, f)
        PROVE  f \notin F /\ UpIn(s, f) /\ SameAt(s, t, f)
    <2>1. f \notin F /\ t.conn[f] = s.conn[f] /\ t.script[f] = s.script[f]
      BY <1>1, <1>3 DEF UpIn, NoConn
    <2>2. t.desc[f] = "client"
      BY <1>2, <1>3 DEF AllOwned, Owned
    <2> QED BY <1>1, <1>3, <2>1, <2>2 DEF UpIn, SameAt
  <1>4. \A f \in F : ~UpIn(t, f)
    BY <1>1 DEF UpIn, NoConn
  <1>5. \A f \in Fds \ F : t.conn[f] = s.conn[f] /\ t.script[f] = s.script[f]
    BY <1>1
  <1> QED BY <1>1, <1>2, <1>3, <1>4, <1>5 DEF t

Armed == {"off", "read", "write"}

LEMMA ArmFields ==
    ASSUME NEW s \in Server, NEW f \in Fds, NEW how \in Armed
    PROVE  LET t == Arm(s, f, how) IN
           /\ t \in Server /\ t.conn = s.conn /\ t.script = s.script /\ t.desc = s.desc
           /\ \A g \in Fds : t.interest[g] = IF g = f THEN how ELSE s.interest[g]
  BY DEF Arm, Server, Armed

LEMMA ArmedIs == "off" \in Armed /\ "read" \in Armed /\ "write" \in Armed
  BY DEF Armed

LEMMA ArmWriteFields ==
    ASSUME NEW s \in Server, NEW f \in Fds
    PROVE  LET t == Arm(s, f, "write") IN
           /\ t \in Server /\ t.conn = s.conn /\ t.script = s.script /\ t.desc = s.desc
           /\ \A g \in Fds : t.interest[g] = IF g = f THEN "write" ELSE s.interest[g]
  BY DEF Arm, Server

\* Once everything queued is sent: off the script, to the next request, or gone.
LEMMA FinalizeKeeps ==
    ASSUME NEW s \in Server, AllOwned(s), NEW f \in Fds, UpIn(s, f)
    PROVE  LET t == FinalizeResponseWrite(s, f) IN
           /\ t \in Server /\ AllOwned(t)
           /\ \A g \in Fds : UpIn(t, g) => UpIn(s, g) /\ t.conn[g].peer = s.conn[g].peer
           /\ \A g \in Fds \ {f} : UpIn(t, g) => SameAt(s, t, g)
           /\ UpIn(t, f) =>
                /\ t.conn[f] = [s.conn[f] EXCEPT !.res_ready = FALSE]
                /\ t.script[f] = s.script[f]
                /\ t.interest[f] = IF s.conn[f].cgi_active THEN "off" ELSE "read"
  <1> DEFINE k == s.conn[f]
             u == [s EXCEPT !.conn[f].res_ready = FALSE]
             t == FinalizeResponseWrite(s, f)
  <1>0. k \in ClientCon /\ [k EXCEPT !.res_ready = FALSE] \in ClientCon
    <2>1. k \in ClientCon
      BY DEF Server
    <2> HIDE DEF k
    <2> QED BY <2>1 DEF ClientCon
  <1>1. /\ u \in Server /\ u.desc = s.desc /\ u.interest = s.interest /\ u.script = s.script
        /\ \A g \in Fds : u.conn[g] = IF g = f THEN [k EXCEPT !.res_ready = FALSE] ELSE s.conn[g]
    <2>1. u = [s EXCEPT !.conn = [s.conn EXCEPT ![f] = [k EXCEPT !.res_ready = FALSE]]]
      BY DEF Server
    <2> HIDE DEF k
    <2> QED BY <1>0, <2>1 DEF Server
  <1>2. \A g \in Fds : /\ u.conn[g].peer = s.conn[g].peer /\ u.conn[g].file_fd = s.conn[g].file_fd
                       /\ u.conn[g].cgi_active = s.conn[g].cgi_active
    <2> HIDE DEF u
    <2> QED BY <1>0, <1>1 DEF ClientCon
  <1>3. t = IF k.cgi_active THEN Arm(u, f, "off")
            ELSE IF k.close_after_send \/ ~k.keep_alive THEN CloseClient(u, {f})
            ELSE Arm(u, f, "read")
    BY DEF FinalizeResponseWrite
  <1> HIDE DEF k, u, t
  <1>4. AllOwned(u) /\ UpIn(u, f)
    <2>1. SameOwners(s, u)
      BY <1>1, <1>2 DEF SameOwners
    <2> QED BY <1>2, <2>1, SameOwned DEF UpIn
  <1>5. s.interest[f] # "none"
    BY DEF AllOwned, Owned
  <1>6. ASSUME NEW how \in Armed, t = Arm(u, f, how),
               how = IF k.cgi_active THEN "off" ELSE "read"
        PROVE  /\ t \in Server /\ AllOwned(t)
               /\ \A g \in Fds : UpIn(t, g) => UpIn(s, g) /\ t.conn[g].peer = s.conn[g].peer
               /\ \A g \in Fds \ {f} : UpIn(t, g) => SameAt(s, t, g)
               /\ UpIn(t, f) =>
                    /\ t.conn[f] = [k EXCEPT !.res_ready = FALSE]
                    /\ t.script[f] = s.script[f]
                    /\ t.interest[f] = IF k.cgi_active THEN "off" ELSE "read"
    <2>1. /\ t \in Server /\ t.conn = u.conn /\ t.script = u.script /\ t.desc = u.desc
          /\ \A g \in Fds : t.interest[g] = IF g = f THEN how ELSE u.interest[g]
      <3>1. u \in Server /\ how \in Armed
        BY <1>1, <1>6
      <3>2. LET a == Arm(u, f, how) IN
            /\ a \in Server /\ a.conn = u.conn /\ a.script = u.script /\ a.desc = u.desc
            /\ \A g \in Fds : a.interest[g] = IF g = f THEN how ELSE u.interest[g]
        BY <3>1, ArmFields
      <3> QED BY <3>2, <1>6
    <2>2. SameOwners(u, t)
      BY <1>1, <1>5, <1>6, <2>1 DEF SameOwners, Armed
    <2>3. AllOwned(t)
      BY <1>1, <1>4, <2>2, SameOwned
    <2>4. \A g \in Fds : UpIn(t, g) => UpIn(s, g) /\ t.conn[g].peer = s.conn[g].peer
      BY <1>2, <2>1 DEF UpIn
    <2>5. \A g \in Fds \ {f} : SameAt(s, t, g)
      BY <1>1, <2>1 DEF SameAt
    <2>6. /\ t.conn[f] = [k EXCEPT !.res_ready = FALSE]
          /\ t.script[f] = s.script[f]
          /\ t.interest[f] = IF k.cgi_active THEN "off" ELSE "read"
      BY <1>1, <1>6, <2>1
    <2> QED BY <2>1, <2>3, <2>4, <2>5, <2>6
  <1>7. CASE k.cgi_active
    BY <1>3, <1>6, <1>7 DEF k, t, Armed
  <1>8. CASE ~k.cgi_active /\ (k.close_after_send \/ ~k.keep_alive)
    <2>1. t = CloseClient(u, {f})
      BY <1>3, <1>8
    <2>2. /\ t \in Server /\ AllOwned(t) /\ ~UpIn(t, f)
          /\ \A g \in Fds : UpIn(t, g) => g # f /\ UpIn(u, g) /\ SameAt(u, t, g)
      BY <1>1, <1>4, <2>1, CloseKeeps
    <2>3. \A g \in Fds \ {f} : SameAt(u, t, g) => SameAt(s, t, g)
      BY <1>1 DEF SameAt
    <2> QED BY <1>1, <1>2, <2>2, <2>3 DEF UpIn, SameAt, t
  <1>9. CASE ~k.cgi_active /\ ~(k.close_after_send \/ ~k.keep_alive)
    BY <1>3, <1>6, <1>9 DEF k, t, Armed
  <1> QED BY <1>7, <1>8, <1>9

LEMMA ReceivedFields ==
    ASSUME peer \in [Peers -> Peer], NEW p \in Peers, NEW n \in Nat \ {0}, n <= peer[p].due,
           Patient(peer[p])
    PROVE  /\ Received(p, n) \in [Peers -> Peer]
           /\ \A q \in Peers \ {p} : Received(p, n)[q] = peer[q]
           /\ Received(p, n)[p].st = peer[p].st /\ Received(p, n)[p].sent = peer[p].sent
           /\ Received(p, n)[p].due = peer[p].due - n
           /\ Patient(Received(p, n)[p])
  <1> DEFINE c == peer[p]
             w == c.waiting /\ c.due > n
             d == [c EXCEPT !.due = @ - n, !.waiting = w]
  <1>1. c \in Peer /\ c.due \in Nat
    BY DEF Peer
  <1>2. Received(p, n) = [peer EXCEPT ![p] = d]
    BY DEF Received, Peer
  <1>3. /\ d \in Peer /\ d.st = c.st /\ d.sent = c.sent /\ d.due = c.due - n
        /\ d.waiting = w
    <2>1. w \in BOOLEAN /\ c.due - n \in Nat
      BY <1>1
    <2> HIDE DEF c, w
    <2> QED BY <1>1, <2>1 DEF Peer
  <1>4. Patient(d)
    <2>1. c.sent = "none"
      BY <1>1 DEF Patient
    <2>2. CASE c.due = n
      BY <1>1, <1>3, <2>1, <2>2 DEF Patient
    <2>3. CASE c.due # n
      <3>1. c.due > n /\ c.due > 0
        BY <1>1, <2>3
      <3>2. c.waiting = TRUE
        BY <3>1, <1>1 DEF Patient, Peer
      <3>3. w = TRUE
        BY <3>1, <3>2
      <3> HIDE DEF d, w, c
      <3> QED BY <1>3, <2>1, <3>3 DEF Patient
    <2> QED BY <2>2, <2>3
  <1> HIDE DEF d
  <1> QED BY <1>2, <1>3, <1>4

\* The client of f is hung up on.
LEMMA CloseStep ==
    ASSUME IInv, NEW f \in Fds, Dispatch(f), UNCHANGED sigchld, UpIn(srv, f),
           Becomes(CloseClient(srv, {f}), peer)
    PROVE  IInv'
  <1> DEFINE t == CloseClient(srv, {f})
  <1>1. srv \in Server /\ AllOwned(srv) /\ Sessions(srv, peer) /\ peer \in [Peers -> Peer]
        /\ sigchld' \in BOOLEAN
    BY DEF IInv, TypeOK, AllOwned
  <1>2. /\ t \in Server /\ AllOwned(t) /\ ~UpIn(t, f)
        /\ \A g \in Fds : UpIn(t, g) => UpIn(srv, g) /\ SameAt(srv, t, g)
    BY <1>1, CloseKeeps
  <1>3. srv' = t /\ peer' \in {peer, PeersAfter(t, peer)}
    BY DEF Becomes
  <1> HIDE DEF t
  <1>4. Touches(srv, peer, t, peer, {})
    BY <1>1, <1>2 DEF Touches, Sessions, SameAt
  <1> QED BY <1>1, <1>2, <1>3, <1>4, HandlerStep

\* Everything queued for f has been sent.
LEMMA DrainedStep ==
    ASSUME IInv, NEW f \in Fds, Dispatch(f), UNCHANGED sigchld, UpIn(srv, f),
           srv.interest[f] = "write",
           NEW s \in Server, AllOwned(s), NEW pr \in [Peers -> Peer],
           \A g \in Fds \ {f} : UpIn(s, g) => UpIn(srv, g) /\ SameAt(srv, s, g),
           s.script[f] = srv.script[f],
           s.conn[f].peer = srv.conn[f].peer,
           s.conn[f].cgi_active = srv.conn[f].cgi_active,
           s.conn[f].out = 0, s.conn[f].file_fd = NoFd,
           s.conn[f].file_bytes_remaining = 0, s.conn[f].file_buf = 0,
           \A q \in Peers : /\ q # srv.conn[f].peer => pr[q] = peer[q]
                            /\ pr[q].st = peer[q].st /\ Patient(pr[q]),
           pr[srv.conn[f].peer].due = 0,
           Becomes(FinalizeResponseWrite(s, f), pr)
    PROVE  IInv'
  <1> DEFINE t == FinalizeResponseWrite(s, f)
             p == srv.conn[f].peer
  <1>1. srv \in Server /\ AllOwned(srv) /\ Sessions(srv, peer) /\ peer \in [Peers -> Peer]
        /\ sigchld' \in BOOLEAN
    BY DEF IInv, TypeOK, AllOwned
  <1>2. UpIn(s, f)
    BY DEF UpIn
  <1>3. /\ t \in Server /\ AllOwned(t)
        /\ \A g \in Fds : UpIn(t, g) => UpIn(s, g) /\ t.conn[g].peer = s.conn[g].peer
        /\ \A g \in Fds \ {f} : UpIn(t, g) => SameAt(s, t, g)
        /\ UpIn(t, f) => /\ t.conn[f] = [s.conn[f] EXCEPT !.res_ready = FALSE]
                         /\ t.script[f] = s.script[f]
                         /\ t.interest[f] = IF s.conn[f].cgi_active THEN "off" ELSE "read"
    BY <1>2, FinalizeKeeps
  <1>4. srv' = t /\ peer' \in {pr, PeersAfter(t, pr)}
    BY DEF Becomes
  <1> HIDE DEF t
  <1>5. Session(srv, peer, f) /\ p \in Peers /\ srv.conn[f] \in ClientCon /\ s.conn[f] \in ClientCon
    BY <1>1 DEF Sessions, UpIn, Server, ClientCon
  <1>6. Touches(srv, peer, t, pr, {f})
    <2>1. ASSUME NEW g \in Fds, UpIn(t, g)
          PROVE  UpIn(srv, g) /\ t.conn[g].peer = srv.conn[g].peer
      BY <1>3, <2>1 DEF SameAt
    <2>2. ASSUME NEW g \in Fds \ {f}, UpIn(t, g)
          PROVE  SameAt(srv, t, g) /\ pr[srv.conn[g].peer] = peer[srv.conn[g].peer]
      <3>1. SameAt(srv, t, g)
        BY <1>3, <2>2 DEF SameAt
      <3>2. srv.conn[g].peer \in Peers /\ srv.conn[g].peer # p
        BY <1>1, <2>1, <2>2 DEF Sessions, UpIn, Server, ClientCon
      <3> QED BY <3>1, <3>2
    <2>3. ASSUME UpIn(t, f)
          PROVE  Session(t, pr, f)
      <3>1. /\ t.conn[f].peer = p /\ t.conn[f].out = 0 /\ t.conn[f].file_fd = NoFd
            /\ t.conn[f].file_bytes_remaining = 0 /\ t.conn[f].file_buf = 0
            /\ ~t.conn[f].res_ready /\ t.conn[f].cgi_active = srv.conn[f].cgi_active
            /\ t.script[f] = srv.script[f]
            /\ t.interest[f] = IF srv.conn[f].cgi_active THEN "off" ELSE "read"
        BY <1>3, <1>5, <2>3 DEF ClientCon
      <3>2. srv.conn[f].cgi_active <=> srv.script[f].st # "none"
        BY <1>1, <1>5 DEF Session, AllOwned, PipesOwned
      <3>3. srv.script[f].st # "none" => srv.script[f].headers_complete
        BY <1>5 DEF Session
      <3>4. srv.script[f].headers_complete => srv.script[f].wrote = 0
        BY <1>5 DEF Session
      <3>5. pr[p].st \in {"there", "reset"} /\ pr[p].due = 0
        BY <1>5 DEF Session
      <3> QED BY <3>1, <3>2, <3>3, <3>4, <3>5 DEF Session
    <2>4. \A q \in Peers : /\ pr[q].st = peer[q].st
                           /\ peer[q].st \notin {"there", "reset"} => pr[q] = peer[q]
                           /\ Patient(pr[q])
      BY <1>5 DEF Session
    <2> QED BY <2>1, <2>2, <2>3, <2>4 DEF Touches
  <1> QED BY <1>1, <1>3, <1>4, <1>6, HandlerStep

LEMMA ResetKeeps ==
    ASSUME NEW s \in Server, AllOwned(s), NEW f \in Fds, UpIn(s, f)
    PROVE  LET t == ResetStaticFileStream(s, {f}) IN
           /\ t \in Server /\ AllOwned(t)
           /\ \A g \in Fds \ {f} : UpIn(t, g) => UpIn(s, g) /\ SameAt(s, t, g)
           /\ t.script = s.script /\ t.interest[f] = s.interest[f]
           /\ t.conn[f] = NoStream(s.conn[f])
  <1> DEFINE t == ResetStaticFileStream(s, {f})
  <1>1. /\ t \in Server /\ t.script = s.script
        /\ \A g \in Fds : t.conn[g] = IF g \in {f} THEN NoStream(s.conn[g]) ELSE s.conn[g]
        /\ \A d \in Fds : /\ t.desc[d] = IF d \in Files(s, {f}) THEN "free" ELSE s.desc[d]
                          /\ t.interest[d] = IF d \in Files(s, {f}) THEN "none" ELSE s.interest[d]
    BY ResetFields
  <1>2. AllOwned(t)
    BY ResetOwned
  <1>3. \A d \in Files(s, {f}) : s.desc[d] = "file"
    BY DEF Files, AllOwned, FilesOwned
  <1>4. \A g \in Fds : UpIn(s, g) => g \notin Files(s, {f})
    BY <1>3 DEF AllOwned, Owned
  <1> HIDE DEF t
  <1> QED BY <1>1, <1>2, <1>4 DEF SameAt, UpIn, t

\* A handler that sends for f, and has more to send.
LEMMA SendingStep ==
    ASSUME IInv, NEW f \in Fds, Dispatch(f), UNCHANGED sigchld, UpIn(srv, f),
           NEW s \in Server, SameOwners(srv, s), s.interest = srv.interest,
           s.script = srv.script,
           \A g \in Fds \ {f} : s.conn[g] = srv.conn[g],
           s.conn[f].cgi_active = srv.conn[f].cgi_active,
           s.conn[f].res_ready = srv.conn[f].res_ready,
           s.conn[f].out <= srv.conn[f].out,
           s.conn[f].file_fd # NoFd,
           NEW n \in Nat \ {0},
           LET k == s.conn[f] l == srv.conn[f] IN
             k.out + k.file_bytes_remaining + k.file_buf
                 = l.out + l.file_bytes_remaining + l.file_buf - n,
           Becomes(s, Received(srv.conn[f].peer, n))
    PROVE  IInv'
  <1> DEFINE p == srv.conn[f].peer
             pr == Received(p, n)
  <1>1. srv \in Server /\ AllOwned(srv) /\ Sessions(srv, peer) /\ peer \in [Peers -> Peer]
        /\ sigchld' \in BOOLEAN
    BY DEF IInv, TypeOK, AllOwned
  <1>2. AllOwned(s)
    BY <1>1, SameOwned
  <1>3. Session(srv, peer, f) /\ p \in Peers /\ srv.conn[f] \in ClientCon /\ s.conn[f] \in ClientCon
    BY <1>1 DEF Sessions, UpIn, Server, ClientCon
  <1>4. n <= peer[p].due /\ Patient(peer[p]) /\ peer[p].due \in Nat
    BY SMTT(30), <1>1, <1>3 DEF Session, Sessions, ClientCon, Peer
  <1>5. /\ pr \in [Peers -> Peer]
        /\ \A q \in Peers \ {p} : pr[q] = peer[q]
        /\ pr[p].st = peer[p].st /\ pr[p].sent = peer[p].sent
        /\ pr[p].due = peer[p].due - n
        /\ Patient(pr[p])
    BY <1>1, <1>3, <1>4, ReceivedFields
  <1>6. srv' = s /\ peer' \in {pr, PeersAfter(s, pr)}
    BY DEF Becomes
  <1> HIDE DEF pr
  <1>7. Touches(srv, peer, s, pr, {f})
    <2>1. \A g \in Fds : UpIn(s, g) => UpIn(srv, g) /\ s.conn[g].peer = srv.conn[g].peer
      BY DEF UpIn, SameOwners
    <2>2. ASSUME NEW g \in Fds \ {f}, UpIn(s, g)
          PROVE  SameAt(srv, s, g) /\ pr[srv.conn[g].peer] = peer[srv.conn[g].peer]
      <3>1. srv.conn[g].peer \in Peers /\ srv.conn[g].peer # p
        BY <1>1, <2>1, <2>2 DEF Sessions, UpIn, Server, ClientCon
      <3> QED BY <1>5, <2>2, <3>1 DEF SameAt
    <2>3. Session(s, pr, f)
      <3>1. s.conn[f].peer = p /\ s.conn[f].file_fd = srv.conn[f].file_fd
        BY DEF SameOwners
      <3>2. pr[p].due = s.conn[f].out + s.conn[f].file_bytes_remaining + s.conn[f].file_buf
        BY SMTT(30), <1>3, <1>5 DEF Session, ClientCon
      <3>3. s.conn[f].out > 0 => srv.conn[f].out > 0
        BY <1>3 DEF ClientCon
      <3>4. srv.script[f].st = "none"
        BY <1>3, <3>1 DEF Session
      <3> QED BY <1>3, <1>5, <3>1, <3>2, <3>3, <3>4 DEF Session
    <2>4. \A q \in Peers : /\ pr[q].st = peer[q].st
                           /\ peer[q].st \notin {"there", "reset"} => pr[q] = peer[q]
                           /\ Patient(pr[q])
      <3>1. peer[p].st \in {"there", "reset"}
        BY <1>3 DEF Session
      <3>2. \A q \in Peers : Patient(peer[q])
        BY <1>1 DEF Sessions
      <3> QED BY <1>5, <3>1, <3>2
    <2> QED BY <2>1, <2>2, <2>3, <2>4 DEF Touches
  <1> QED BY <1>1, <1>2, <1>5, <1>6, <1>7, HandlerStep

LEMMA ChunkStep ==
    ASSUME IInv, NEW f \in Fds, Dispatch(f), UNCHANGED sigchld, UpIn(srv, f),
           srv.conn[f].file_fd # NoFd, srv.conn[f].out = 0, WriteStaticFileChunk(f)
    PROVE  IInv'
  <1> DEFINE k == srv.conn[f]
             p == k.peer
  <1>1. srv \in Server /\ AllOwned(srv) /\ Sessions(srv, peer) /\ peer \in [Peers -> Peer]
    BY DEF IInv, TypeOK, AllOwned
  <1>2. /\ Session(srv, peer, f) /\ p \in Peers /\ k \in ClientCon
        /\ Patient(peer[p]) /\ peer[p].due \in Nat
    BY <1>1 DEF Sessions, UpIn, Server, ClientCon, Peer
  <1>3. /\ srv.interest[f] = "write" /\ srv.script[f].st = "none" /\ ~k.cgi_active
        /\ peer[p].due = k.file_bytes_remaining + k.file_buf
    BY <1>1, <1>2 DEF Session, ClientCon
  <1>4. CASE Drained(k)
    <2> DEFINE s == ResetStaticFileStream(srv, {f})
    <2>1. /\ s \in Server /\ AllOwned(s)
          /\ \A g \in Fds \ {f} : UpIn(s, g) => UpIn(srv, g) /\ SameAt(srv, s, g)
          /\ s.script = srv.script /\ s.conn[f] = NoStream(k)
      BY <1>1, ResetKeeps
    <2>2. Becomes(FinalizeResponseWrite(s, f), peer)
      BY <1>4 DEF WriteStaticFileChunk
    <2>3. /\ s.conn[f].peer = p /\ s.conn[f].cgi_active = k.cgi_active
          /\ s.conn[f].out = 0 /\ s.conn[f].file_fd = NoFd
          /\ s.conn[f].file_bytes_remaining = 0 /\ s.conn[f].file_buf = 0
      <3> HIDE DEF s
      <3> QED BY <1>2, <2>1 DEF NoStream, ClientCon
    <2>4. peer[p].due = 0
      BY <1>3, <1>4 DEF Drained
    <2>5. \A q \in Peers : Patient(peer[q])
      BY <1>1 DEF Sessions
    <2> HIDE DEF s
    <2> QED BY <1>1, <1>3, <2>1, <2>2, <2>3, <2>4, <2>5, DrainedStep
  <1>5. CASE ~Drained(k)
    <2>1. PICK n \in (IF k.file_buf > 0 THEN {0} ELSE 0 .. ToRead(k)) :
             IF k.file_buf + n = 0
               THEN Becomes(CloseClient(srv, {f}), peer)
               ELSE \E w \in 1 .. k.file_buf + n :
                      LET s == [srv EXCEPT !.conn[f].file_bytes_remaining = @ - n,
                                           !.conn[f].file_buf = @ + n - w]
                      IN  IF Drained(s.conn[f])
                            THEN Becomes(FinalizeResponseWrite(ResetStaticFileStream(s, {f}), f),
                                         Received(p, w))
                            ELSE Becomes(s, Received(p, w))
      BY <1>5 DEF WriteStaticFileChunk
    <2>2. n \in Nat /\ n <= k.file_bytes_remaining
      <3>1. k.file_bytes_remaining \in Nat /\ FileBuf \in Nat
        BY <1>2, LoopAssumption DEF ClientCon
      <3>2. n \in (IF k.file_buf > 0 THEN {0} ELSE 0 .. ToRead(k))
        BY <2>1
      <3>3. CASE k.file_buf > 0
        BY <3>1, <3>2, <3>3
      <3>4. CASE ~(k.file_buf > 0)
        <4>1. n \in 0 .. ToRead(k)
          BY <3>2, <3>4
        <4> QED BY <3>1, <4>1 DEF ToRead
      <3> QED BY <3>3, <3>4
    <2>3. CASE k.file_buf + n = 0
      BY <2>1, <2>3, CloseStep
    <2>4. CASE k.file_buf + n # 0
      <3>1. PICK w \in 1 .. k.file_buf + n :
               LET s == [srv EXCEPT !.conn[f].file_bytes_remaining = @ - n,
                                    !.conn[f].file_buf = @ + n - w]
               IN  IF Drained(s.conn[f])
                     THEN Becomes(FinalizeResponseWrite(ResetStaticFileStream(s, {f}), f),
                                  Received(p, w))
                     ELSE Becomes(s, Received(p, w))
        BY <2>1, <2>4
      <3> DEFINE s == [srv EXCEPT !.conn[f].file_bytes_remaining = @ - n,
                                  !.conn[f].file_buf = @ + n - w]
                 l == [k EXCEPT !.file_bytes_remaining = @ - n, !.file_buf = @ + n - w]
                 pr == Received(p, w)
      <3>2. /\ w \in Nat \ {0} /\ k.file_bytes_remaining - n \in Nat
            /\ k.file_buf + n - w \in Nat /\ k.file_bytes_remaining \in Nat /\ k.file_buf \in Nat
        BY <1>2, <2>2, <3>1 DEF ClientCon
      <3>3. /\ l \in ClientCon /\ l.peer = p /\ l.cgi_active = k.cgi_active /\ l.out = 0
            /\ l.res_ready = k.res_ready /\ l.file_fd = k.file_fd
            /\ l.file_bytes_remaining = k.file_bytes_remaining - n
            /\ l.file_buf = k.file_buf + n - w
        <4> HIDE DEF k
        <4> QED BY <1>2, <3>2 DEF ClientCon, k
      <3>4. /\ s \in Server /\ s.desc = srv.desc /\ s.interest = srv.interest
            /\ s.script = srv.script /\ s.conn = [srv.conn EXCEPT ![f] = l]
        <4>1. s = [srv EXCEPT !.conn = [srv.conn EXCEPT ![f] = l]]
          BY <1>1 DEF Server
        <4> HIDE DEF s, l
        <4> QED BY <1>1, <3>3, <4>1 DEF Server
      <3> HIDE DEF s, l
      <3>5. s.conn[f] = l /\ \A g \in Fds \ {f} : s.conn[g] = srv.conn[g]
        BY <1>1, <3>4 DEF Server
      <3>6. SameOwners(srv, s)
        BY <3>3, <3>4, <3>5 DEF SameOwners
      <3>7. CASE ~Drained(s.conn[f])
        <4>1. Becomes(s, pr)
          BY <3>1, <3>7 DEF s
        <4>2. LET j == s.conn[f] IN
                 j.out + j.file_bytes_remaining + j.file_buf
                   = k.out + k.file_bytes_remaining + k.file_buf - w
          BY <3>2, <3>3, <3>5
        <4>3. /\ s.conn[f].cgi_active = srv.conn[f].cgi_active
              /\ s.conn[f].res_ready = srv.conn[f].res_ready
              /\ s.conn[f].out <= srv.conn[f].out /\ s.conn[f].file_fd # NoFd
              /\ w \in Nat \ {0}
          BY <3>2, <3>3, <3>5
        <4> QED BY <3>4, <3>5, <3>6, <4>1, <4>2, <4>3, SendingStep
      <3>8. CASE Drained(s.conn[f])
        <4> DEFINE u == ResetStaticFileStream(s, {f})
        <4>1. Becomes(FinalizeResponseWrite(u, f), pr)
          BY <3>1, <3>8 DEF s
        <4>2. AllOwned(s) /\ UpIn(s, f)
          BY <1>1, <3>3, <3>5, <3>6, SameOwned DEF UpIn
        <4>3. /\ u \in Server /\ AllOwned(u)
              /\ \A g \in Fds \ {f} : UpIn(u, g) => UpIn(s, g) /\ SameAt(s, u, g)
              /\ u.script = s.script /\ u.conn[f] = NoStream(l)
          BY <3>4, <3>5, <4>2, ResetKeeps
        <4>4. /\ u.conn[f].peer = p /\ u.conn[f].cgi_active = k.cgi_active
              /\ u.conn[f].out = 0 /\ u.conn[f].file_fd = NoFd
              /\ u.conn[f].file_bytes_remaining = 0 /\ u.conn[f].file_buf = 0
          <5> HIDE DEF u
          <5> QED BY <3>3, <4>3 DEF NoStream, ClientCon
        <4>5. w = peer[p].due
          <5>1. k.file_buf + n - w = 0 /\ k.file_bytes_remaining - n = 0
            BY <3>3, <3>5, <3>8 DEF Drained
          <5>2. n \in Nat /\ w \in Nat /\ k.file_buf \in Nat /\ k.file_bytes_remaining \in Nat
            BY <2>2, <3>2
          <5>3. peer[p].due = k.file_bytes_remaining + k.file_buf
            BY <1>3
          <5>4. k.file_bytes_remaining + k.file_buf = w
            <6>1. \A a, b, i, j \in Nat : a + i - j = 0 /\ b - i = 0 => b + a = j
              OBVIOUS
            <6> HIDE DEF k
            <6> QED BY <5>1, <5>2, <6>1
          <5> QED BY <5>3, <5>4
        <4>6. /\ pr \in [Peers -> Peer]
              /\ \A q \in Peers \ {p} : pr[q] = peer[q]
              /\ pr[p].st = peer[p].st /\ pr[p].due = 0 /\ Patient(pr[p])
          <5>1. w <= peer[p].due /\ peer[p].due - w = 0 /\ w \in Nat \ {0}
            BY <1>2, <3>2, <4>5
          <5> HIDE DEF p
          <5> QED BY <1>1, <1>2, <5>1, ReceivedFields
        <4>7. \A q \in Peers : Patient(peer[q])
          BY <1>1 DEF Sessions
        <4>8. \A g \in Fds \ {f} : UpIn(u, g) => UpIn(srv, g) /\ SameAt(srv, u, g)
          BY <3>4, <3>5, <4>3 DEF SameAt, UpIn
        <4> HIDE DEF u, pr
        <4>9. \A q \in Peers : /\ q # p => pr[q] = peer[q]
                               /\ pr[q].st = peer[q].st /\ Patient(pr[q])
          BY <4>6, <4>7
        <4> QED BY SMTT(30), <1>3, <3>4, <4>1, <4>3, <4>4, <4>6, <4>8, <4>9, DrainedStep
      <3> QED BY <3>7, <3>8
    <2> QED BY <2>3, <2>4
  <1> QED BY <1>4, <1>5

LEMMA ClientWriteStep ==
    ASSUME IInv, NEW f \in Fds, ClientWrite(f)
    PROVE  IInv'
  <1> DEFINE k == srv.conn[f]
             p == k.peer
             s == [srv EXCEPT !.conn[f].out = 0]
             l == [k EXCEPT !.out = 0]
  <1>1. srv \in Server /\ AllOwned(srv) /\ Sessions(srv, peer) /\ peer \in [Peers -> Peer]
        /\ sigchld \in BOOLEAN
    BY DEF IInv, TypeOK, AllOwned
  <1>2. Dispatch(f) /\ UpIn(srv, f) /\ UNCHANGED sigchld
    BY DEF ClientWrite, ForClient, Up, UpIn
  <1>3. /\ Session(srv, peer, f) /\ p \in Peers /\ k \in ClientCon
        /\ Patient(peer[p]) /\ peer[p].due \in Nat
    BY <1>1, <1>2 DEF Sessions, UpIn, Server, ClientCon, Peer
  <1>4. CASE UNCHANGED <<srv, peer>>
    <2>1. Touches(srv, peer, srv, peer, {})
      BY <1>1 DEF Touches, Sessions, SameAt
    <2> QED BY <1>1, <1>2, <1>4, <2>1, HandlerStep
  <1>5. CASE (k.res_ready \/ k.file_fd # NoFd) /\ Becomes(CloseClient(srv, {f}), peer)
    BY <1>2, <1>5, CloseStep
  <1>6. /\ l \in ClientCon /\ l.peer = p /\ l.cgi_active = k.cgi_active /\ l.out = 0
        /\ l.res_ready = k.res_ready /\ l.file_fd = k.file_fd
        /\ l.file_bytes_remaining = k.file_bytes_remaining /\ l.file_buf = k.file_buf
    <2> HIDE DEF k
    <2> QED BY <1>3 DEF ClientCon, k
  <1>7. /\ s \in Server /\ s.desc = srv.desc /\ s.interest = srv.interest
        /\ s.script = srv.script /\ s.conn = [srv.conn EXCEPT ![f] = l]
    <2>1. s = [srv EXCEPT !.conn = [srv.conn EXCEPT ![f] = l]]
      BY <1>1 DEF Server
    <2> HIDE DEF s, l
    <2> QED BY <1>1, <1>6, <2>1 DEF Server
  <1> HIDE DEF s, l
  <1>8. s.conn[f] = l /\ \A g \in Fds \ {f} : s.conn[g] = srv.conn[g]
    BY <1>1, <1>7 DEF Server
  <1>9. SameOwners(srv, s) /\ AllOwned(s)
    <2>1. SameOwners(srv, s)
      BY <1>6, <1>7, <1>8 DEF SameOwners
    <2> QED BY <1>1, <2>1, SameOwned
  <1>10. ASSUME (k.res_ready \/ k.file_fd # NoFd), k.out > 0,
                Becomes(IF k.file_fd = NoFd THEN FinalizeResponseWrite(s, f) ELSE s,
                        Received(p, k.out))
         PROVE  IInv'
    <2>1. k.out \in Nat \ {0} /\ k.out <= peer[p].due
      BY <1>3, <1>10 DEF Session, ClientCon
    <2>2. CASE k.file_fd # NoFd
      <3>1. Becomes(s, Received(p, k.out))
        BY <1>10, <2>2
      <3>2. LET j == s.conn[f] IN
               j.out + j.file_bytes_remaining + j.file_buf
                 = k.out + k.file_bytes_remaining + k.file_buf - k.out
        BY <1>3, <1>6, <1>8 DEF ClientCon
      <3>3. s.conn[f].out <= k.out
        BY <1>6, <1>8, <2>1
      <3> QED BY <1>2, <1>6, <1>7, <1>8, <1>9, <2>1, <2>2, <3>1, <3>2, <3>3, SendingStep
    <2>3. CASE k.file_fd = NoFd
      <3> DEFINE pr == Received(p, k.out)
      <3>1. Becomes(FinalizeResponseWrite(s, f), pr)
        BY <1>10, <2>3
      <3>2. /\ srv.interest[f] = "write" /\ peer[p].due = k.out
            /\ k.file_bytes_remaining = 0 /\ k.file_buf = 0
        BY <1>3, <1>10, <2>3 DEF Session, ClientCon
      <3>3. /\ pr \in [Peers -> Peer]
            /\ \A q \in Peers \ {p} : pr[q] = peer[q]
            /\ pr[p].st = peer[p].st /\ pr[p].due = 0 /\ Patient(pr[p])
        BY <1>1, <1>3, <2>1, <3>2, ReceivedFields
      <3>4. \A q \in Peers : Patient(peer[q])
        BY <1>1 DEF Sessions
      <3> HIDE DEF pr
      <3>5. \A q \in Peers : /\ q # p => pr[q] = peer[q]
                             /\ pr[q].st = peer[q].st /\ Patient(pr[q])
        BY <3>3, <3>4
      <3>6. \A g \in Fds \ {f} : UpIn(s, g) => UpIn(srv, g) /\ SameAt(srv, s, g)
        BY <1>7, <1>8 DEF UpIn, SameAt
      <3>7. /\ s.conn[f].peer = p /\ s.conn[f].cgi_active = k.cgi_active
            /\ s.conn[f].out = 0 /\ s.conn[f].file_fd = NoFd
            /\ s.conn[f].file_bytes_remaining = 0 /\ s.conn[f].file_buf = 0
        BY <1>6, <1>8, <2>3, <3>2
      <3> QED BY <1>2, <1>7, <1>9, <3>1, <3>2, <3>3, <3>5, <3>6, <3>7, DrainedStep
    <2> QED BY <2>2, <2>3
  <1>11. CASE k.file_fd # NoFd /\ k.out = 0 /\ WriteStaticFileChunk(f)
    BY <1>2, <1>11, ChunkStep
  <1>12. ASSUME k.file_fd = NoFd, k.out = 0, k.res_ready,
                Becomes(FinalizeResponseWrite(srv, f), peer)
         PROVE  IInv'
    <2>1. /\ srv.interest[f] = "write" /\ peer[p].due = 0
          /\ k.file_bytes_remaining = 0 /\ k.file_buf = 0
      BY <1>3, <1>12 DEF Session, ClientCon
    <2>2. \A q \in Peers : Patient(peer[q])
      BY <1>1 DEF Sessions
    <2>3. \A g \in Fds \ {f} : UpIn(srv, g) => UpIn(srv, g) /\ SameAt(srv, srv, g)
      BY DEF SameAt
    <2> QED BY <1>1, <1>2, <1>12, <2>1, <2>2, <2>3, DrainedStep
  <1>13. k.out \in Nat
    BY <1>3 DEF ClientCon
  <1> QED BY <1>4, <1>5, <1>10, <1>11, <1>12, <1>13 DEF ClientWrite, s

-----------------------------------------------------------------------------
(* read_client.                                                            *)

\* Nothing of an answer is left at k.
Clean(k) == /\ ~k.res_ready /\ ~k.cgi_active /\ k.out = 0 /\ k.file_fd = NoFd
            /\ k.file_bytes_remaining = 0 /\ k.file_buf = 0

\* From s to t only the connection of f changes, and not whose it is.
OnlyAt(s, t, f) ==
    /\ \A g \in Fds \ {f} : UpIn(t, g) => UpIn(s, g) /\ SameAt(s, t, g)
    /\ t.conn[f].peer = s.conn[f].peer

\* An answer of due units has been prepared.
Answering(t, f, due) ==
    LET k == t.conn[f] IN
    /\ k.res_ready /\ ~k.cgi_active /\ k.out = 1 /\ k.file_buf = 0
    /\ due = 1 + k.file_bytes_remaining
    /\ k.file_fd = NoFd => k.file_bytes_remaining = 0
    /\ t.interest[f] = "write" /\ t.script[f].st = "none" /\ ~t.script[f].headers_complete

\* Or a script has been launched.
Launched(t, f) ==
    LET k == t.conn[f] q == t.script[f] IN
    /\ ~k.res_ready /\ k.out = 0 /\ k.file_fd = NoFd
    /\ k.file_bytes_remaining = 0 /\ k.file_buf = 0
    /\ t.interest[f] = "read" /\ q.st = "run" /\ ~q.headers_complete /\ q.wrote = 0

LEMMA QueueFields ==
    ASSUME NEW s \in Server, NEW f \in Fds
    PROVE  LET t == Queue(s, f) IN
           /\ t \in Server /\ t.desc = s.desc /\ t.interest = s.interest /\ t.script = s.script
           /\ \A g \in Fds \ {f} : t.conn[g] = s.conn[g]
           /\ t.conn[f].peer = s.conn[f].peer /\ t.conn[f].file_fd = s.conn[f].file_fd
           /\ t.conn[f].cgi_active = s.conn[f].cgi_active
           /\ t.conn[f].out = 1 /\ t.conn[f].res_ready
           /\ t.conn[f].file_bytes_remaining = s.conn[f].file_bytes_remaining
           /\ t.conn[f].file_buf = s.conn[f].file_buf
  <1> DEFINE k == s.conn[f]
             l == [k EXCEPT !.out = 1, !.res_ready = TRUE]
             t == Queue(s, f)
  <1>1. k \in ClientCon
    BY DEF Server
  <1>2. /\ l \in ClientCon /\ l.peer = k.peer /\ l.file_fd = k.file_fd
        /\ l.cgi_active = k.cgi_active /\ l.out = 1 /\ l.res_ready
        /\ l.file_bytes_remaining = k.file_bytes_remaining /\ l.file_buf = k.file_buf
    <2> HIDE DEF k
    <2> QED BY <1>1 DEF ClientCon
  <1>3. t = [s EXCEPT !.conn = [s.conn EXCEPT ![f] = l]]
    BY DEF Queue, Server
  <1> HIDE DEF l, t
  <1>4. /\ t \in Server /\ t.desc = s.desc /\ t.interest = s.interest /\ t.script = s.script
        /\ t.conn = [s.conn EXCEPT ![f] = l]
    BY <1>2, <1>3 DEF Server
  <1>5. t.conn[f] = l /\ \A g \in Fds \ {f} : t.conn[g] = s.conn[g]
    BY <1>4 DEF Server
  <1> QED BY <1>2, <1>4, <1>5 DEF t

LEMMA RespondKeeps ==
    ASSUME NEW s \in Server, AllOwned(s), NEW f \in Fds, UpIn(s, f), Clean(s.conn[f]),
           s.script[f].st = "none", s.interest[f] = "read"
    PROVE  LET t == Arm(Queue(s, f), f, "write") IN
           /\ t \in Server /\ AllOwned(t) /\ OnlyAt(s, t, f) /\ Answering(t, f, 1)
  <1> DEFINE u == Queue(s, f)
             t == Arm(u, f, "write")
  <1>1. /\ u \in Server /\ u.desc = s.desc /\ u.interest = s.interest /\ u.script = s.script
        /\ \A g \in Fds \ {f} : u.conn[g] = s.conn[g]
        /\ u.conn[f].peer = s.conn[f].peer /\ u.conn[f].file_fd = s.conn[f].file_fd
        /\ u.conn[f].cgi_active = s.conn[f].cgi_active
        /\ u.conn[f].out = 1 /\ u.conn[f].res_ready
        /\ u.conn[f].file_bytes_remaining = s.conn[f].file_bytes_remaining
        /\ u.conn[f].file_buf = s.conn[f].file_buf
    BY QueueFields
  <1> HIDE DEF u
  <1>2. /\ t \in Server /\ t.conn = u.conn /\ t.script = u.script /\ t.desc = u.desc
        /\ \A g \in Fds : t.interest[g] = IF g = f THEN "write" ELSE u.interest[g]
    <2>1. u \in Server
      BY <1>1
    <2> QED BY <2>1, ArmWriteFields
  <1> HIDE DEF t
  <1>3. SameOwners(s, t)
    BY <1>1, <1>2 DEF SameOwners
  <1>4. AllOwned(t)
    BY <1>3, SameOwned
  <1>5. OnlyAt(s, t, f)
    BY <1>1, <1>2 DEF OnlyAt, UpIn, SameAt
  <1>6. s.script[f] = NoScript
    BY DEF AllOwned, PipesOwned
  <1>7. Answering(t, f, 1)
    BY <1>1, <1>2, <1>6 DEF Answering, Clean, NoScript
  <1> QED BY <1>2, <1>4, <1>5, <1>7 DEF t, u

LEMMA LaunchKeeps ==
    ASSUME NEW s \in Server, AllOwned(s), NEW f \in Fds, UpIn(s, f), Clean(s.conn[f]),
           s.script[f].st = "none", s.interest[f] = "read", NEW o \in Launch(s, f)
    PROVE  /\ o.srv \in Server /\ AllOwned(o.srv) /\ OnlyAt(s, o.srv, f)
           /\ Launched(o.srv, f) /\ o.due = 0
  <1> DEFINE t == o.srv
  <1>1. PICK out \in NthLowest(s, 3), err \in NthLowest(s, 5) :
           t = Running(s, f, out, err) /\ o.due = 0
    BY DEF Launch
  <1> HIDE DEF t
  <1>2. out \in Fds /\ err \in Fds /\ s.desc[out] = "free" /\ s.desc[err] = "free" /\ out # err
    BY DEF NthLowest, Free
  <1>3. s.desc[f] = "client" /\ f # out /\ f # err
    BY <1>2 DEF AllOwned, Owned
  <1> DEFINE k == s.conn[f]
             l == [k EXCEPT !.cgi_active = TRUE]
             q == [NoScript EXCEPT !.st = "run", !.stdout = out, !.stderr = err]
  <1>4. k \in ClientCon
    BY DEF Server
  <1>5. /\ l \in ClientCon /\ l.peer = k.peer /\ l.file_fd = k.file_fd /\ l.cgi_active
        /\ l.out = k.out /\ l.res_ready = k.res_ready
        /\ l.file_bytes_remaining = k.file_bytes_remaining /\ l.file_buf = k.file_buf
    <2> HIDE DEF k
    <2> QED BY <1>4 DEF ClientCon
  <1>6. /\ q \in Script /\ q.st = "run" /\ q.stdout = out /\ q.stderr = err
        /\ ~q.headers_complete /\ q.wrote = 0
    BY <1>2 DEF Script, NoScript
  <1>7. t = [desc |-> [s.desc EXCEPT ![out] = "pipe", ![err] = "pipe"],
             interest |-> [s.interest EXCEPT ![out] = "read", ![err] = "read"],
             conn |-> [s.conn EXCEPT ![f] = l],
             script |-> [s.script EXCEPT ![f] = q]]
    BY <1>1 DEF Running, Arm, Open, Server
  <1> HIDE DEF l, q
  <1>8. t \in Server
    BY <1>2, <1>5, <1>6, <1>7 DEF Server
  <1>9. /\ t.desc = [s.desc EXCEPT ![out] = "pipe", ![err] = "pipe"]
        /\ t.interest = [s.interest EXCEPT ![out] = "read", ![err] = "read"]
        /\ t.conn[f] = l /\ t.script[f] = q
        /\ \A g \in Fds \ {f} : t.conn[g] = s.conn[g] /\ t.script[g] = s.script[g]
    BY <1>7 DEF Server
  <1>10. AllOwned(t)
    BY <1>2, <1>5, <1>6, <1>8, <1>9, LaunchOwned
  <1>11. OnlyAt(s, t, f)
    <2>1. \A g \in Fds \ {f} : UpIn(s, g) => t.interest[g] = s.interest[g]
      BY <1>2, <1>9 DEF AllOwned, Owned, Server
    <2> QED BY <1>5, <1>9, <2>1 DEF OnlyAt, UpIn, SameAt
  <1>12. Launched(t, f)
    <2>1. t.interest[f] = "read"
      BY <1>3, <1>9 DEF Server
    <2> QED BY <1>5, <1>6, <1>9, <2>1 DEF Launched, Clean
  <1> QED BY <1>1, <1>8, <1>10, <1>11, <1>12 DEF t

LEMMA PipesFailKeeps ==
    ASSUME NEW s \in Server, AllOwned(s), NEW f \in Fds, UpIn(s, f), Clean(s.conn[f]),
           s.script[f].st = "none", s.interest[f] = "read", NEW o \in PipesFail(s, f)
    PROVE  /\ o.srv \in Server /\ AllOwned(o.srv) /\ OnlyAt(s, o.srv, f)
           /\ Answering(o.srv, f, 1) /\ o.due = 1
  <1> DEFINE made == Lowest(s, 2 * (Cardinality(Free(s)) \div 2))
             lost == [s EXCEPT !.desc = [g \in Fds |-> IF g \in made THEN "lost" ELSE @[g]]]
             t == Arm(Queue(lost, f), f, "write")
  <1>1. o.srv = t /\ o.due = 1
    BY DEF PipesFail, Respond
  <1>2. made \in SUBSET Fds /\ \A d \in made : s.desc[d] = "free"
    BY DEF Lowest, Free
  <1> HIDE DEF made
  <1>3. /\ lost \in Server /\ AllOwned(lost)
        /\ lost.conn = s.conn /\ lost.script = s.script /\ lost.interest = s.interest
    BY <1>2, LostOwned
  <1> HIDE DEF lost
  <1>4. t \in Server /\ AllOwned(t) /\ OnlyAt(lost, t, f) /\ Answering(t, f, 1)
    BY <1>3, RespondKeeps DEF UpIn
  <1> HIDE DEF t
  <1>5. OnlyAt(s, t, f)
    BY <1>3, <1>4 DEF OnlyAt, SameAt, UpIn
  <1> QED BY <1>1, <1>4, <1>5

LEMMA StreamKeeps ==
    ASSUME NEW s \in Server, AllOwned(s), NEW f \in Fds, UpIn(s, f), Clean(s.conn[f]),
           s.script[f].st = "none", s.interest[f] = "read",
           NEW o \in StartStaticFileStream(s, f)
    PROVE  LET t == Arm(o.srv, f, "write") IN
           /\ t \in Server /\ AllOwned(t) /\ OnlyAt(s, t, f) /\ Answering(t, f, o.due)
           /\ o.due \in Nat
  <1> DEFINE r == ResetStaticFileStream(s, {f})
             u == Queue(r, f)
             t == Arm(o.srv, f, "write")
  <1>1. /\ r \in Server /\ AllOwned(r)
        /\ \A g \in Fds \ {f} : UpIn(r, g) => UpIn(s, g) /\ SameAt(s, r, g)
        /\ r.script = s.script /\ r.interest[f] = s.interest[f]
        /\ r.conn[f] = NoStream(s.conn[f])
    BY ResetKeeps
  <1>2. /\ r.conn[f].peer = s.conn[f].peer /\ r.conn[f].file_fd = NoFd
        /\ ~r.conn[f].cgi_active
        /\ r.conn[f].file_bytes_remaining = 0 /\ r.conn[f].file_buf = 0
    <2>1. s.conn[f] \in ClientCon
      BY DEF Server
    <2> HIDE DEF r
    <2> QED BY <1>1, <2>1 DEF NoStream, ClientCon, Clean
  <1> HIDE DEF r
  <1>3. /\ u \in Server /\ u.desc = r.desc /\ u.interest = r.interest /\ u.script = r.script
        /\ \A g \in Fds \ {f} : u.conn[g] = r.conn[g]
        /\ u.conn[f].peer = r.conn[f].peer /\ u.conn[f].file_fd = r.conn[f].file_fd
        /\ u.conn[f].cgi_active = r.conn[f].cgi_active
        /\ u.conn[f].out = 1 /\ u.conn[f].res_ready
        /\ u.conn[f].file_bytes_remaining = r.conn[f].file_bytes_remaining
        /\ u.conn[f].file_buf = r.conn[f].file_buf
    BY <1>1, QueueFields
  <1>4. s.script[f] = NoScript
    BY DEF AllOwned, PipesOwned
  <1>5. \/ o = [srv |-> u, due |-> 1]
        \/ \E d \in NthLowest(u, 1), n \in FileLens :
             o = Streaming(u, f, d, n)
    BY DEF StartStaticFileStream, r
  <1> HIDE DEF u
  <1>6. AllOwned(u) /\ UpIn(u, f)
    <2>1. SameOwners(r, u)
      BY <1>3 DEF SameOwners
    <2> QED BY <1>1, <1>2, <1>3, <2>1, SameOwned DEF UpIn
  <1>7. CASE o = [srv |-> u, due |-> 1]
    <2>1. /\ t \in Server /\ t.conn = u.conn /\ t.script = u.script /\ t.desc = u.desc
          /\ \A g \in Fds : t.interest[g] = IF g = f THEN "write" ELSE u.interest[g]
      <3>1. u \in Server /\ t = Arm(u, f, "write")
        BY <1>3, <1>7
      <3> QED BY <3>1, ArmWriteFields
    <2> HIDE DEF t
    <2>2. AllOwned(t)
      <3>1. SameOwners(u, t)
        BY <1>1, <1>3, <2>1 DEF SameOwners
      <3> QED BY <1>3, <1>6, <3>1, SameOwned
    <2>3. OnlyAt(s, t, f)
      BY <1>1, <1>2, <1>3, <2>1 DEF OnlyAt, UpIn, SameAt
    <2>4. Answering(t, f, 1)
      BY <1>1, <1>2, <1>3, <1>4, <2>1 DEF Answering, NoScript
    <2> QED BY <1>7, <2>1, <2>2, <2>3, <2>4 DEF t
  <1>8. ASSUME NEW d \in NthLowest(u, 1), NEW n \in FileLens,
               o = Streaming(u, f, d, n)
        PROVE  /\ t \in Server /\ AllOwned(t) /\ OnlyAt(s, t, f) /\ Answering(t, f, o.due)
               /\ o.due \in Nat
    <2> DEFINE k == u.conn[f]
               l == [k EXCEPT !.file_fd = d, !.file_bytes_remaining = n]
               w == Open(u, d, "file")
               v == [w EXCEPT !.conn[f] = [@ EXCEPT !.file_fd = d, !.file_bytes_remaining = n]]
    <2>1. d \in Fds /\ u.desc[d] = "free" /\ n \in Nat
      BY LoopAssumption DEF NthLowest, Free
    <2>2. k \in ClientCon
      BY <1>3 DEF Server
    <2>3. /\ l \in ClientCon /\ l.peer = k.peer /\ l.file_fd = d
          /\ l.cgi_active = k.cgi_active /\ l.out = k.out /\ l.res_ready = k.res_ready
          /\ l.file_bytes_remaining = n /\ l.file_buf = k.file_buf
      <3> HIDE DEF k
      <3> QED BY <2>1, <2>2 DEF ClientCon
    <2>4. v = [desc |-> [u.desc EXCEPT ![d] = "file"], interest |-> u.interest,
               conn |-> [u.conn EXCEPT ![f] = l], script |-> u.script]
      <3>1. w = [desc |-> [u.desc EXCEPT ![d] = "file"], interest |-> u.interest,
                 conn |-> u.conn, script |-> u.script]
        BY <1>3 DEF Open, Server
      <3> HIDE DEF w
      <3>2. v = [w EXCEPT !.conn = [u.conn EXCEPT ![f] = l]]
        BY <3>1
      <3> HIDE DEF v, l
      <3> QED BY <3>1, <3>2
    <2> HIDE DEF l, v
    <2>5. /\ v \in Server /\ v.desc = [u.desc EXCEPT ![d] = "file"] /\ v.script = u.script
          /\ v.interest = u.interest /\ v.conn[f] = l
          /\ \A g \in Fds \ {f} : v.conn[g] = u.conn[g]
      BY <1>3, <2>1, <2>3, <2>4 DEF Server
    <2>6. o.srv = v /\ o.due = 1 + n
      BY <1>8 DEF v, w, l, Streaming
    <2>7. /\ t \in Server /\ t.conn = v.conn /\ t.script = v.script /\ t.desc = v.desc
          /\ \A g \in Fds : t.interest[g] = IF g = f THEN "write" ELSE v.interest[g]
      <3>1. v \in Server /\ t = Arm(v, f, "write")
        BY <2>5, <2>6
      <3> QED BY <3>1, ArmWriteFields
    <2> HIDE DEF t
    <2>8. AllOwned(t)
      <3>1. u.interest[f] # "none"
        BY <1>1, <1>3
      <3>2. \A g \in Fds : /\ t.conn[g].peer = u.conn[g].peer
                           /\ t.conn[g].cgi_active = u.conn[g].cgi_active
                           /\ t.conn[g].file_fd = IF g = f THEN d ELSE u.conn[g].file_fd
                           /\ t.interest[g] = "none" <=> u.interest[g] = "none"
        BY <2>3, <2>5, <2>7, <3>1
      <3> QED BY <1>2, <1>3, <1>6, <2>1, <2>5, <2>7, <3>2, OpenFileOwned
    <2>9. OnlyAt(s, t, f)
      BY <1>1, <1>2, <1>3, <2>3, <2>5, <2>7 DEF OnlyAt, UpIn, SameAt
    <2>10. Answering(t, f, 1 + n)
      <3>1. /\ t.conn[f] = l /\ l.file_fd # NoFd /\ l.file_bytes_remaining = n
            /\ l.res_ready /\ ~l.cgi_active /\ l.out = 1 /\ l.file_buf = 0
        BY <1>2, <1>3, <2>1, <2>3, <2>5, <2>7, NoFdClosed
      <3>2. t.interest[f] = "write" /\ t.script[f] = NoScript
        BY <1>1, <1>3, <1>4, <2>5, <2>7
      <3> QED BY <3>1, <3>2 DEF Answering, NoScript
    <2> QED BY <2>1, <2>6, <2>7, <2>8, <2>9, <2>10
  <1> QED BY <1>5, <1>7, <1>8

\* Whatever is asked for, an answer is prepared or a script launched
\* (process_request).
LEMMA ProcessKeeps ==
    ASSUME NEW s \in Server, AllOwned(s), NEW f \in Fds, UpIn(s, f), Clean(s.conn[f]),
           s.script[f].st = "none", s.interest[f] = "read", NEW kind,
           NEW o \in ProcessRequest(s, f, kind)
    PROVE  /\ o.srv \in Server /\ AllOwned(o.srv) /\ OnlyAt(s, o.srv, f) /\ o.due \in Nat
           /\ (Answering(o.srv, f, o.due) \/ (Launched(o.srv, f) /\ o.due = 0))
  <1>1. CASE o = Respond(s, f)
    <2> DEFINE t == Arm(Queue(s, f), f, "write")
    <2>1. o.srv = t /\ o.due = 1
      BY <1>1 DEF Respond
    <2>2. t \in Server /\ AllOwned(t) /\ OnlyAt(s, t, f) /\ Answering(t, f, 1)
      BY RespondKeeps
    <2> HIDE DEF t
    <2>3. Answering(o.srv, f, o.due)
      BY <2>1, <2>2, Zenon
    <2>4. o.srv \in Server /\ AllOwned(o.srv) /\ OnlyAt(s, o.srv, f)
      BY <2>1, <2>2, Zenon
    <2>5. o.due \in Nat
      BY <2>1
    <2> QED BY <2>3, <2>4, <2>5
  <1>2. CASE o \in Launch(s, f)
    BY <1>2, LaunchKeeps
  <1>5. CASE o \in PipesFail(s, f)
    BY <1>5, PipesFailKeeps
  <1>3. CASE \E n \in StartStaticFileStream(s, f) : o = [n EXCEPT !.srv = Arm(@, f, "write")]
    <2>1. PICK n \in StartStaticFileStream(s, f) : o = [n EXCEPT !.srv = Arm(@, f, "write")]
      BY <1>3
    <2> DEFINE t == Arm(n.srv, f, "write")
    <2>2. o.srv = t /\ o.due = n.due
      <3>1. n = [srv |-> n.srv, due |-> n.due]
        <4> DEFINE u == Queue(ResetStaticFileStream(s, {f}), f)
        <4>1. \/ n = [srv |-> u, due |-> 1]
              \/ \E d \in NthLowest(u, 1), m \in FileLens : n = Streaming(u, f, d, m)
          BY DEF StartStaticFileStream
        <4> HIDE DEF u
        <4> QED BY <4>1 DEF Streaming
      <3> QED BY <2>1, <3>1
    <2>3. t \in Server /\ AllOwned(t) /\ OnlyAt(s, t, f) /\ Answering(t, f, n.due) /\ n.due \in Nat
      BY StreamKeeps
    <2> HIDE DEF t
    <2>4. Answering(o.srv, f, o.due)
      BY <2>2, <2>3, Zenon
    <2>5. o.srv \in Server /\ AllOwned(o.srv) /\ OnlyAt(s, o.srv, f) /\ o.due \in Nat
      BY <2>2, <2>3, Zenon
    <2> QED BY <2>4, <2>5
  <1>4. \/ o = Respond(s, f)
        \/ o \in Launch(s, f)
        \/ o \in PipesFail(s, f)
        \/ \E n \in StartStaticFileStream(s, f) : o = [n EXCEPT !.srv = Arm(@, f, "write")]
    <2>1. CASE kind = "file"
      BY <2>1 DEF ProcessRequest
    <2>2. CASE kind = "script"
      BY <2>2 DEF ProcessRequest
    <2>3. CASE kind # "file" /\ kind # "script"
      BY <2>3 DEF ProcessRequest
    <2> QED BY <2>1, <2>2, <2>3
  <1> QED BY <1>1, <1>2, <1>3, <1>4, <1>5

\* Handing f a request changes keep_alive alone before it is processed.
LEMMA KeepAliveFields ==
    ASSUME NEW s \in Server, AllOwned(s), NEW f \in Fds, UpIn(s, f), Clean(s.conn[f]),
           NEW ka \in BOOLEAN
    PROVE  LET t == [s EXCEPT !.conn[f].keep_alive = ka] IN
           /\ t \in Server /\ AllOwned(t) /\ OnlyAt(s, t, f) /\ UpIn(t, f) /\ Clean(t.conn[f])
           /\ t.script = s.script /\ t.interest = s.interest
           /\ \A g \in Fds : UpIn(t, g) => UpIn(s, g) /\ t.conn[g].peer = s.conn[g].peer
  <1> DEFINE k == s.conn[f]
             l == [k EXCEPT !.keep_alive = ka]
             t == [s EXCEPT !.conn[f].keep_alive = ka]
  <1>1. k \in ClientCon
    BY DEF Server
  <1>2. /\ l \in ClientCon /\ l.peer = k.peer /\ l.file_fd = k.file_fd
        /\ l.cgi_active = k.cgi_active /\ l.out = k.out /\ l.res_ready = k.res_ready
        /\ l.file_bytes_remaining = k.file_bytes_remaining /\ l.file_buf = k.file_buf
    <2> HIDE DEF k
    <2> QED BY <1>1 DEF ClientCon
  <1>3. t = [s EXCEPT !.conn = [s.conn EXCEPT ![f] = l]]
    BY DEF Server
  <1> HIDE DEF l, t
  <1>4. /\ t \in Server /\ t.desc = s.desc /\ t.interest = s.interest /\ t.script = s.script
        /\ t.conn = [s.conn EXCEPT ![f] = l]
    BY <1>2, <1>3 DEF Server
  <1>5. t.conn[f] = l /\ \A g \in Fds \ {f} : t.conn[g] = s.conn[g]
    BY <1>4 DEF Server
  <1>6. SameOwners(s, t)
    BY <1>2, <1>4, <1>5 DEF SameOwners
  <1>7. AllOwned(t)
    BY <1>6, SameOwned
  <1>8. OnlyAt(s, t, f) /\ UpIn(t, f) /\ Clean(t.conn[f])
    BY <1>2, <1>4, <1>5 DEF OnlyAt, UpIn, SameAt, Clean
  <1>9. \A g \in Fds : UpIn(t, g) => UpIn(s, g) /\ t.conn[g].peer = s.conn[g].peer
    BY <1>6 DEF SameOwners, UpIn
  <1> QED BY <1>4, <1>7, <1>8, <1>9 DEF t

\* The request of f's client has been answered, or a script launched for it.
LEMMA RequestStep ==
    ASSUME IInv, NEW f \in Fds, Dispatch(f), UNCHANGED sigchld, UpIn(srv, f),
           peer[srv.conn[f].peer].sent # "none",
           NEW s \in Server, OnlyAt(srv, s, f),
           NEW t \in Server, AllOwned(t), OnlyAt(s, t, f), NEW due \in Nat,
           Answering(t, f, due) \/ (Launched(t, f) /\ due = 0),
           Becomes(t, [peer EXCEPT ![srv.conn[f].peer].sent = "none",
                                   ![srv.conn[f].peer].due = due])
    PROVE  IInv'
  <1> DEFINE p == srv.conn[f].peer
             c == [peer[p] EXCEPT !.sent = "none", !.due = due]
             pr == [peer EXCEPT ![p].sent = "none", ![p].due = due]
  <1>1. srv \in Server /\ AllOwned(srv) /\ Sessions(srv, peer) /\ peer \in [Peers -> Peer]
        /\ sigchld' \in BOOLEAN
    BY DEF IInv, TypeOK, AllOwned
  <1>2. /\ Session(srv, peer, f) /\ p \in Peers /\ peer[p] \in Peer /\ Patient(peer[p])
    BY <1>1 DEF Sessions, UpIn, Server, ClientCon
  <1>3. peer[p].st \in {"there", "reset"} /\ peer[p].waiting
    BY <1>2 DEF Session, Patient
  <1>4. pr = [peer EXCEPT ![p] = c]
    BY <1>1
  <1>5. /\ c \in Peer /\ c.st = peer[p].st /\ c.sent = "none" /\ c.due = due
        /\ c.waiting = peer[p].waiting
    <2> HIDE DEF p
    <2> QED BY <1>2 DEF Peer
  <1>6. srv' = t /\ peer' \in {pr, PeersAfter(t, pr)}
    BY DEF Becomes
  <1> HIDE DEF c, pr
  <1>7. pr \in [Peers -> Peer] /\ pr[p] = c /\ \A q \in Peers \ {p} : pr[q] = peer[q]
    BY <1>1, <1>2, <1>4, <1>5
  <1>8. t.conn[f].peer = p /\ t.conn[f] \in ClientCon
    BY DEF OnlyAt, Server
  <1>9. Session(t, pr, f)
    <2>1. CASE Answering(t, f, due)
      <3>1. t.conn[f].out + t.conn[f].file_bytes_remaining + t.conn[f].file_buf = due
        BY SMTT(30), <1>8, <2>1 DEF Answering, ClientCon
      <3>2. /\ ~t.conn[f].cgi_active /\ t.interest[f] = "write" /\ t.conn[f].res_ready
            /\ t.script[f].st = "none" /\ ~t.script[f].headers_complete
            /\ t.conn[f].file_buf = 0
            /\ t.conn[f].file_fd = NoFd => t.conn[f].file_bytes_remaining = 0
        BY <2>1 DEF Answering
      <3> QED BY <1>3, <1>5, <1>7, <1>8, <3>1, <3>2 DEF Session
    <2>2. CASE Launched(t, f) /\ due = 0
      <3>1. t.conn[f].out + t.conn[f].file_bytes_remaining + t.conn[f].file_buf = 0
        BY <2>2 DEF Launched
      <3>2. pr[p].st = peer[p].st /\ pr[p].due = 0 /\ pr[p].sent = "none" /\ pr[p].waiting
        BY <1>3, <1>5, <1>7, <2>2
      <3> HIDE DEF p
      <3>3. /\ ~t.conn[f].res_ready /\ t.conn[f].out = 0 /\ t.conn[f].file_fd = NoFd
            /\ t.conn[f].file_bytes_remaining = 0 /\ t.conn[f].file_buf = 0
            /\ t.interest[f] = "read" /\ t.script[f].st = "run"
            /\ ~t.script[f].headers_complete /\ t.script[f].wrote = 0
        BY <2>2 DEF Launched
      <3> QED BY <1>3, <1>8, <3>1, <3>2, <3>3 DEF Session
    <2> QED BY <2>1, <2>2
  <1>10. Touches(srv, peer, t, pr, {f})
    <2>1. ASSUME NEW g \in Fds, UpIn(t, g)
          PROVE  UpIn(srv, g) /\ t.conn[g].peer = srv.conn[g].peer
      <3>1. CASE g = f
        BY <1>8, <3>1
      <3>2. CASE g # f
        BY <2>1, <3>2 DEF OnlyAt, SameAt
      <3> QED BY <3>1, <3>2
    <2>2. ASSUME NEW g \in Fds \ {f}, UpIn(t, g)
          PROVE  SameAt(srv, t, g) /\ pr[srv.conn[g].peer] = peer[srv.conn[g].peer]
      <3>1. SameAt(srv, t, g)
        BY <2>2 DEF SameAt, OnlyAt
      <3>2. srv.conn[g].peer \in Peers /\ srv.conn[g].peer # p
        BY <1>1, <2>1, <2>2 DEF Sessions, UpIn, Server, ClientCon
      <3> QED BY <1>7, <3>1, <3>2
    <2>3. \A q \in Peers : /\ pr[q].st = peer[q].st
                           /\ peer[q].st \notin {"there", "reset"} => pr[q] = peer[q]
                           /\ Patient(pr[q])
      <3>1. \A q \in Peers : Patient(peer[q])
        BY <1>1 DEF Sessions
      <3>2. Patient(c)
        BY <1>3, <1>5 DEF Patient
      <3> QED BY <1>3, <1>5, <1>7, <3>1, <3>2
    <2> QED BY <1>9, <2>1, <2>2, <2>3 DEF Touches
  <1> QED BY <1>1, <1>6, <1>7, <1>10, HandlerStep

\* What is read of a client that has not gone is a request, and nothing of an
\* earlier answer is left.
LEMMA AskedIsClean ==
    ASSUME IInv, NEW f \in Fds, Dispatch(f), Head(batch).readable, UpIn(srv, f),
           peer[srv.conn[f].peer].st # "reset"
    PROVE  srv.interest[f] = "read" /\ srv.script[f].st = "none" /\ Clean(srv.conn[f])
  <1>1. srv.interest[f] = "read" /\ srv.script[f].st = "none"
    <2>1. batch \in Seq(PollEvent) /\ batch # <<>> /\ Head(batch).fd = f
      BY DEF IInv, TypeOK, Dispatch
    <2>2. 1 \in DOMAIN batch /\ Head(batch) = batch[1]
      BY <2>1
    <2> QED BY <2>1, <2>2 DEF IInv, Readables, Up, UpIn
  <1>2. Session(srv, peer, f) /\ srv.conn[f] \in ClientCon
    BY DEF IInv, TypeOK, Sessions, Server
  <1> QED BY <1>1, <1>2 DEF Session, Clean, ClientCon

LEMMA ReadClientStep ==
    ASSUME IInv, NEW f \in Fds, ReadClient(f)
    PROVE  IInv'
  <1> DEFINE p == srv.conn[f].peer
  <1>1. Dispatch(f) /\ Head(batch).readable /\ UpIn(srv, f) /\ UNCHANGED sigchld
    BY DEF ReadClient, ForClient, Up, UpIn
  <1>2. srv \in Server /\ AllOwned(srv)
    BY DEF IInv, TypeOK, AllOwned
  <1>3. CASE peer[p].sent = "none" \/ peer[p].st = "reset"
    BY <1>1, <1>3, CloseStep DEF ReadClient
  <1>4. CASE ~(peer[p].sent = "none" \/ peer[p].st = "reset")
    <2>1. PICK ka \in BOOLEAN :
             \E o \in ProcessRequest([srv EXCEPT !.conn[f].keep_alive = ka], f, peer[p].sent) :
                 Becomes(o.srv, [peer EXCEPT ![p].sent = "none", ![p].due = o.due])
      BY <1>4 DEF ReadClient
    <2> DEFINE s == [srv EXCEPT !.conn[f].keep_alive = ka]
    <2>2. PICK o \in ProcessRequest(s, f, peer[p].sent) :
             Becomes(o.srv, [peer EXCEPT ![p].sent = "none", ![p].due = o.due])
      BY <2>1
    <2>3. srv.interest[f] = "read" /\ srv.script[f].st = "none" /\ Clean(srv.conn[f])
      BY <1>1, <1>4, AskedIsClean
    <2>4. /\ s \in Server /\ AllOwned(s) /\ OnlyAt(srv, s, f) /\ UpIn(s, f) /\ Clean(s.conn[f])
          /\ s.script = srv.script /\ s.interest = srv.interest
      BY <1>1, <1>2, <2>3, KeepAliveFields
    <2> HIDE DEF s
    <2>5. s.script[f].st = "none" /\ s.interest[f] = "read"
      BY <2>3, <2>4
    <2>6. /\ o.srv \in Server /\ AllOwned(o.srv) /\ OnlyAt(s, o.srv, f) /\ o.due \in Nat
          /\ (Answering(o.srv, f, o.due) \/ (Launched(o.srv, f) /\ o.due = 0))
      BY <2>2, <2>4, <2>5, ProcessKeeps
    <2> QED BY <1>1, <1>4, <2>2, <2>4, <2>6, RequestStep
  <1> QED BY <1>3, <1>4

-----------------------------------------------------------------------------
(* The scripts.                                                            *)

LEMMA CleanupKeeps ==
    ASSUME NEW s \in Server, AllOwned(s), NEW F \in SUBSET Fds,
           \A f \in F : s.script[f].st # "none",
           NEW reason, reason # "ClientGone"
    PROVE  LET t == CleanupProcess(s, F, reason) IN
           /\ t \in Server /\ AllOwned(t)
           /\ \A g \in Fds : UpIn(t, g) => UpIn(s, g) /\ t.conn[g].peer = s.conn[g].peer
           /\ \A g \in Fds \ F : UpIn(t, g) => SameAt(s, t, g)
           /\ \A f \in F : /\ t.conn[f] = AfterScript(s.conn[f], s.script[f], reason)
                           /\ t.script[f] = NoScript
                           /\ t.interest[f] = IF t.conn[f].res_ready \/ t.conn[f].out > 0
                                                THEN "write" ELSE "read"
  <1> DEFINE t == CleanupProcess(s, F, reason)
  <1>1. /\ t \in Server
        /\ \A f \in Fds :
             /\ t.conn[f] = IF f \in F THEN AfterScript(s.conn[f], s.script[f], reason)
                            ELSE s.conn[f]
             /\ t.script[f] = IF f \in F THEN NoScript ELSE s.script[f]
        /\ \A d \in Fds :
             /\ t.desc[d] = IF d \in AllPipes(s, F) THEN "free" ELSE s.desc[d]
             /\ t.interest[d] = IF d \in F
                   THEN IF t.conn[d].res_ready \/ t.conn[d].out > 0 THEN "write" ELSE "read"
                   ELSE IF d \in AllPipes(s, F) THEN "none" ELSE s.interest[d]
    BY CleanupFields
  <1>2. AllOwned(t)
    BY CleanupOwned
  <1> HIDE DEF t
  <1>3. ASSUME NEW g \in Fds
        PROVE  t.conn[g].peer = s.conn[g].peer
    <2>1. s.conn[g] \in ClientCon /\ s.script[g] \in Script
      BY DEF Server
    <2>2. AfterScript(s.conn[g], s.script[g], reason).peer = s.conn[g].peer
      BY <2>1, AfterScriptFields
    <2> QED BY <1>1, <2>2
  <1>4. ASSUME NEW g \in Fds \ F, UpIn(t, g)
        PROVE  SameAt(s, t, g)
    <2>1. t.desc[g] = "client"
      BY <1>2, <1>4 DEF AllOwned, Owned
    <2>2. g \notin AllPipes(s, F)
      BY <1>1, <2>1
    <2> QED BY <1>1, <2>2 DEF SameAt
  <1> QED BY <1>1, <1>2, <1>3, <1>4 DEF UpIn, t

\* What the end of its script leaves of f's connection: the rest of a response
\* that has begun, or an error page.
LEMMA EndedSession ==
    ASSUME NEW s \in Server, NEW t \in Server, NEW pr \in [Peers -> Peer],
           NEW pr2 \in [Peers -> Peer], NEW f \in Fds, UpIn(s, f), Session(s, pr, f),
           s.script[f].st # "none", NEW reason, reason # "ClientGone",
           t.conn[f] = AfterScript(s.conn[f], s.script[f], reason),
           t.script[f] = NoScript,
           t.interest[f] = (IF t.conn[f].res_ready \/ t.conn[f].out > 0
                              THEN "write" ELSE "read"),
           pr2[s.conn[f].peer].st = pr[s.conn[f].peer].st,
           pr2[s.conn[f].peer].due = (IF s.script[f].headers_complete
                                        THEN pr[s.conn[f].peer].due ELSE 1)
    PROVE  Session(t, pr2, f)
  <1> DEFINE k == s.conn[f]
             q == s.script[f]
             l == AfterScript(k, q, reason)
             p == k.peer
  <1>1. k \in ClientCon /\ q \in Script /\ p \in Peers
    BY DEF Server, ClientCon, UpIn
  <1>2. k.file_fd = NoFd /\ k.file_bytes_remaining = 0 /\ k.file_buf = 0
    BY DEF Session
  <1>3. /\ pr[p].st \in {"there", "reset"} /\ pr[p].due = k.out
        /\ k.out > 0 => k.res_ready
    BY <1>1, <1>2 DEF Session, ClientCon
  <1>4. /\ l.peer = p /\ l.file_fd = NoFd /\ l.file_bytes_remaining = 0 /\ l.file_buf = 0
        /\ ~l.cgi_active /\ l \in ClientCon
    <2>1. LET a == AfterScript(k, q, reason) IN
           /\ a \in ClientCon
           /\ a.peer = k.peer /\ a.file_fd = k.file_fd /\ ~a.cgi_active
           /\ a.file_bytes_remaining = k.file_bytes_remaining /\ a.file_buf = k.file_buf
      BY <1>1, AfterScriptFields
    <2> QED BY <1>2, <2>1
  <1>5. l.out = (IF q.headers_complete THEN k.out ELSE 1) /\ (l.out > 0 => l.res_ready)
    <2> HIDE DEF k, q
    <2>1. CASE q.headers_complete
      <3>1. l.out = k.out /\ (k.res_ready => l.res_ready)
        BY <1>1, <2>1 DEF AfterScript, ClientCon
      <3> QED BY <1>3, <2>1, <3>1 DEF k
    <2>2. CASE ~q.headers_complete
      BY <1>1, <2>2 DEF AfterScript, ClientCon
    <2> QED BY <2>1, <2>2
  <1> HIDE DEF l
  <1>6. pr2[p].due = l.out
    BY <1>3, <1>5
  <1>7. t.interest[f] = IF l.res_ready THEN "write" ELSE "read"
    BY <1>5 DEF l
  <1>8. t.conn[f] = l
    BY DEF l
  <1>9. l.out + l.file_bytes_remaining + l.file_buf = l.out
    BY <1>4 DEF ClientCon
  <1> HIDE DEF k, q
  <1> QED BY <1>3, <1>4, <1>5, <1>6, <1>7, <1>8, <1>9 DEF Session, NoScript, k

\* A script whose headers are not complete has a client that waits for all of
\* its answer.
LEMMA HeadlessScript ==
    ASSUME srv \in Server, AllOwned(srv), Sessions(srv, peer), peer \in [Peers -> Peer],
           NEW f \in Fds, srv.script[f].st # "none"
    PROVE  /\ UpIn(srv, f) /\ Session(srv, peer, f) /\ srv.conn[f].peer \in Peers
           /\ ~srv.script[f].headers_complete =>
                 /\ srv.interest[f] = "read" /\ ~srv.conn[f].res_ready /\ srv.conn[f].out = 0
                 /\ peer[srv.conn[f].peer].due = 0 /\ peer[srv.conn[f].peer].sent = "none"
                 /\ peer[srv.conn[f].peer].waiting
           /\ peer[srv.conn[f].peer].st \in {"there", "reset"}
  <1> DEFINE k == srv.conn[f]
             p == k.peer
  <1>1. UpIn(srv, f) /\ Session(srv, peer, f) /\ k \in ClientCon /\ p \in Peers
    <2>1. UpIn(srv, f)
      BY DEF AllOwned, PipesOwned
    <2> QED BY <2>1 DEF Sessions, UpIn, Server, ClientCon
  <1>2. /\ peer[p].due = k.out /\ (k.out > 0 => k.res_ready)
        /\ peer[p].st \in {"there", "reset"}
    BY <1>1 DEF Session, ClientCon
  <1>3. ASSUME ~srv.script[f].headers_complete
        PROVE  /\ srv.interest[f] = "read" /\ ~k.res_ready /\ k.out = 0
               /\ peer[p].due = 0 /\ peer[p].sent = "none" /\ peer[p].waiting
    <2>1. srv.interest[f] = "read"
      BY <1>1, <1>3 DEF Session
    <2>2. ~k.res_ready
      BY <1>1, <2>1 DEF Session
    <2>3. k.out = 0
      BY <1>1, <1>2, <2>2 DEF ClientCon
    <2>4. peer[p].sent = "none" /\ peer[p].waiting
      BY <1>1, <2>1 DEF Session
    <2> QED BY <1>2, <2>1, <2>2, <2>3, <2>4
  <1> QED BY <1>1, <1>2, <1>3

\* An error page is due to the client of every script in H.
Paged(H) == [p \in Peers |-> IF \E f \in H : srv.conn[f].peer = p
                               THEN [peer[p] EXCEPT !.due = 1] ELSE peer[p]]

LEMMA PagedFields ==
    ASSUME srv \in Server, AllOwned(srv), Sessions(srv, peer), peer \in [Peers -> Peer],
           NEW H \in SUBSET Fds,
           \A f \in H : srv.script[f].st # "none" /\ ~srv.script[f].headers_complete
    PROVE  /\ Paged(H) \in [Peers -> Peer]
           /\ \A f \in H : Paged(H)[srv.conn[f].peer].due = 1
           /\ \A g \in Fds \ H : UpIn(srv, g) =>
                 Paged(H)[srv.conn[g].peer] = peer[srv.conn[g].peer]
           /\ \A p \in Peers : /\ Paged(H)[p].st = peer[p].st
                               /\ peer[p].st \notin {"there", "reset"} => Paged(H)[p] = peer[p]
                               /\ Patient(Paged(H)[p])
  <1>1. \A p \in Peers : LET c == [peer[p] EXCEPT !.due = 1] IN
           /\ c \in Peer /\ c.due = 1 /\ c.st = peer[p].st
           /\ c.sent = peer[p].sent /\ c.waiting = peer[p].waiting
    <2>1. \A p \in Peers : peer[p] \in Peer
      OBVIOUS
    <2> QED BY <2>1 DEF Peer
  <1>2. \A f \in H : /\ srv.conn[f].peer \in Peers
                     /\ peer[srv.conn[f].peer].sent = "none" /\ peer[srv.conn[f].peer].waiting
                     /\ peer[srv.conn[f].peer].st \in {"there", "reset"}
    BY HeadlessScript
  <1>3. Paged(H) \in [Peers -> Peer]
    BY <1>1 DEF Paged
  <1>4. \A f \in H : Paged(H)[srv.conn[f].peer].due = 1
    BY <1>1, <1>2 DEF Paged
  <1>5. ASSUME NEW g \in Fds \ H, UpIn(srv, g)
        PROVE  Paged(H)[srv.conn[g].peer] = peer[srv.conn[g].peer]
    <2>1. srv.conn[g].peer \in Peers
      BY <1>5 DEF UpIn, Server, ClientCon
    <2>2. \A f \in H : srv.conn[f].peer # srv.conn[g].peer
      BY <1>5 DEF Sessions
    <2> QED BY <2>1, <2>2 DEF Paged
  <1>6. ASSUME NEW p \in Peers
        PROVE  /\ Paged(H)[p].st = peer[p].st
               /\ peer[p].st \notin {"there", "reset"} => Paged(H)[p] = peer[p]
               /\ Patient(Paged(H)[p])
    <2>1. CASE \E f \in H : srv.conn[f].peer = p
      <3>1. Paged(H)[p] = [peer[p] EXCEPT !.due = 1]
        BY <2>1 DEF Paged
      <3>2. peer[p].sent = "none" /\ peer[p].waiting /\ peer[p].st \in {"there", "reset"}
        BY <1>2, <2>1
      <3> QED BY <1>1, <3>1, <3>2 DEF Patient
    <2>2. CASE ~ \E f \in H : srv.conn[f].peer = p
      <3>1. Paged(H)[p] = peer[p]
        BY <2>2 DEF Paged
      <3> QED BY <3>1 DEF Sessions
    <2> QED BY <2>1, <2>2
  <1> QED BY <1>3, <1>4, <1>5, <1>6

Held == srv \in Server /\ AllOwned(srv) /\ Sessions(srv, peer) /\ peer \in [Peers -> Peer]

\* Scripts that are ended without their clients being gone.
LEMMA EndedTouches ==
    ASSUME Held,
           NEW s \in Server, AllOwned(s),
           \A g \in Fds : UpIn(s, g) => UpIn(srv, g) /\ SameAt(srv, s, g),
           NEW F \in SUBSET Fds, \A f \in F : UpIn(s, f) /\ s.script[f].st # "none",
           NEW reason, reason # "ClientGone"
    PROVE  LET t == CleanupProcess(s, F, reason)
               pr == Paged({f \in F : ~srv.script[f].headers_complete})
           IN  t \in Server /\ AllOwned(t) /\ pr \in [Peers -> Peer]
               /\ Touches(srv, peer, t, pr, F)
  <1> DEFINE t == CleanupProcess(s, F, reason)
             H == {f \in F : ~srv.script[f].headers_complete}
             pr == Paged(H)
  <1>1. /\ t \in Server /\ AllOwned(t)
        /\ \A g \in Fds : UpIn(t, g) => UpIn(s, g) /\ t.conn[g].peer = s.conn[g].peer
        /\ \A g \in Fds \ F : UpIn(t, g) => SameAt(s, t, g)
        /\ \A f \in F : /\ t.conn[f] = AfterScript(s.conn[f], s.script[f], reason)
                        /\ t.script[f] = NoScript
                        /\ t.interest[f] = IF t.conn[f].res_ready \/ t.conn[f].out > 0
                                             THEN "write" ELSE "read"
    <2>1. \A f \in F : s.script[f].st # "none"
      OBVIOUS
    <2> QED BY ZenonT(40), <2>1, CleanupKeeps
  <1>2. H \in SUBSET Fds /\ \A f \in H : srv.script[f].st # "none"
                                         /\ ~srv.script[f].headers_complete
    BY DEF SameAt
  <1>0. srv \in Server /\ AllOwned(srv) /\ Sessions(srv, peer) /\ peer \in [Peers -> Peer]
    BY DEF Held
  <1>3. /\ pr \in [Peers -> Peer]
        /\ \A f \in H : pr[srv.conn[f].peer].due = 1
        /\ \A g \in Fds \ H : UpIn(srv, g) => pr[srv.conn[g].peer] = peer[srv.conn[g].peer]
        /\ \A p \in Peers : /\ pr[p].st = peer[p].st
                            /\ peer[p].st \notin {"there", "reset"} => pr[p] = peer[p]
                            /\ Patient(pr[p])
    <2> HIDE DEF H
    <2> QED BY <1>0, <1>2, PagedFields
  <1> HIDE DEF t, pr
  <1>4. ASSUME NEW f \in F
        PROVE  Session(t, pr, f)
    <2>1. UpIn(s, f) /\ UpIn(srv, f) /\ SameAt(srv, s, f) /\ s.script[f].st # "none"
      OBVIOUS
    <2>2. Session(s, peer, f)
      BY <1>0, <2>1 DEF Sessions, Session, SameAt
    <2>3. s.conn[f].peer \in Peers /\ s.conn[f] = srv.conn[f] /\ s.script[f] = srv.script[f]
      BY <2>1 DEF UpIn, Server, ClientCon, SameAt
    <2>4. pr[s.conn[f].peer].st = peer[s.conn[f].peer].st
      BY <1>3, <2>3
    <2>5. pr[s.conn[f].peer].due = IF s.script[f].headers_complete
                                     THEN peer[s.conn[f].peer].due ELSE 1
      BY <1>3, <2>1, <2>3
    <2>6. t.interest[f] = (IF t.conn[f].res_ready \/ t.conn[f].out > 0 THEN "write" ELSE "read")
      BY <1>1
    <2>7. peer \in [Peers -> Peer]
      BY <1>0
    <2> QED BY ZenonT(40), <1>1, <1>3, <2>1, <2>2, <2>4, <2>5, <2>6, <2>7, EndedSession
  <1>5. Touches(srv, peer, t, pr, F)
    <2>1. ASSUME NEW g \in Fds, UpIn(t, g)
          PROVE  UpIn(srv, g) /\ t.conn[g].peer = srv.conn[g].peer
      BY <1>1, <2>1 DEF SameAt
    <2>2. ASSUME NEW g \in Fds \ F, UpIn(t, g)
          PROVE  SameAt(srv, t, g) /\ pr[srv.conn[g].peer] = peer[srv.conn[g].peer]
      BY <1>1, <1>3, <2>1, <2>2 DEF SameAt
    <2> QED BY <1>3, <1>4, <2>1, <2>2 DEF Touches
  <1> QED BY <1>1, <1>3, <1>5 DEF t, pr

LEMMA HandleSignalPipeStep ==
    ASSUME IInv, HandleSignalPipe
    PROVE  IInv'
  <1> DEFINE failed == {f \in Fds : srv.script[f].st = "failed"
                                    /\ ~srv.script[f].headers_complete}
             H == {f \in failed : ~srv.script[f].headers_complete}
             reason == "ExecFailure"
             t == CleanupProcess(srv, failed, reason)
             pr == Paged(H)
  <1>1. srv \in Server /\ AllOwned(srv) /\ Sessions(srv, peer) /\ peer \in [Peers -> Peer]
    BY DEF IInv, TypeOK, AllOwned
  <1>2. Dispatch(Signal) /\ sigchld' \in BOOLEAN
    BY DEF HandleSignalPipe
  <1>3. srv' = t /\ peer' = pr
    <2>1. H = failed
      OBVIOUS
    <2> QED BY <2>1 DEF HandleSignalPipe, Paged
  <1>4. \A f \in failed : UpIn(srv, f) /\ srv.script[f].st # "none"
    BY <1>1 DEF AllOwned, PipesOwned
  <1>5. t \in Server /\ AllOwned(t) /\ pr \in [Peers -> Peer] /\ Touches(srv, peer, t, pr, failed)
    <2>1. failed \in SUBSET Fds /\ reason # "ClientGone"
      OBVIOUS
    <2>2. \A g \in Fds : UpIn(srv, g) => UpIn(srv, g) /\ SameAt(srv, srv, g)
      BY DEF SameAt
    <2> HIDE DEF failed, reason
    <2>3. Held
      BY <1>1 DEF Held
    <2> QED BY <1>1, <1>4, <2>1, <2>2, <2>3, EndedTouches
  <1>6. failed \in SUBSET Fds
    OBVIOUS
  <1> HIDE DEF t, pr, failed
  <1> QED BY <1>1, <1>2, <1>3, <1>4, <1>5, <1>6, HandlerStep

\* n more units are announced to p.
LEMMA AnnouncedFields ==
    ASSUME peer \in [Peers -> Peer], NEW p \in Peers, NEW n \in Nat, Patient(peer[p]),
           n > 0 => peer[p].waiting /\ peer[p].sent = "none"
    PROVE  LET pr == [peer EXCEPT ![p].due = @ + n] IN
           /\ pr \in [Peers -> Peer]
           /\ \A r \in Peers \ {p} : pr[r] = peer[r]
           /\ pr[p].st = peer[p].st /\ pr[p].sent = peer[p].sent
           /\ pr[p].waiting = peer[p].waiting /\ pr[p].due = peer[p].due + n
           /\ Patient(pr[p])
  <1> DEFINE c == peer[p]
             d == [c EXCEPT !.due = @ + n]
             pr == [peer EXCEPT ![p].due = @ + n]
  <1>1. c \in Peer /\ c.due \in Nat
    BY DEF Peer
  <1>2. pr = [peer EXCEPT ![p] = d]
    OBVIOUS
  <1>3. /\ d \in Peer /\ d.st = c.st /\ d.sent = c.sent /\ d.waiting = c.waiting
        /\ d.due = c.due + n
    <2> HIDE DEF c
    <2> QED BY <1>1 DEF Peer
  <1>4. Patient(d)
    <2>1. CASE n = 0
      BY <1>1, <1>3, <2>1 DEF Patient
    <2>2. CASE n # 0
      <3>1. c.waiting /\ c.sent = "none"
        BY <2>2
      <3> HIDE DEF d
      <3> QED BY <1>3, <3>1 DEF Patient
    <2> QED BY <2>1, <2>2
  <1> HIDE DEF d
  <1> QED BY <1>2, <1>3, <1>4

LEMMA ForwardFields ==
    ASSUME NEW s \in Server, AllOwned(s), NEW f \in Fds, s.script[f].st # "none"
    PROVE  LET t == Forward(s, f) IN
           /\ t \in Server /\ AllOwned(t) /\ OnlyAt(s, t, f)
           /\ t.conn[f].out = s.conn[f].out + 1 /\ t.conn[f].res_ready
           /\ t.conn[f].file_fd = s.conn[f].file_fd
           /\ t.conn[f].cgi_active = s.conn[f].cgi_active
           /\ t.conn[f].file_bytes_remaining = s.conn[f].file_bytes_remaining
           /\ t.conn[f].file_buf = s.conn[f].file_buf
           /\ t.script[f].st = s.script[f].st /\ t.script[f].headers_complete
           /\ t.script[f].wrote = 0 /\ t.interest[f] = "write"
  <1> DEFINE k == s.conn[f]
             q == s.script[f]
             l == [k EXCEPT !.out = @ + 1, !.res_ready = TRUE]
             r == [q EXCEPT !.wrote = 0, !.headers_complete = TRUE]
             u == [s EXCEPT !.script[f] = r, !.conn[f] = l]
             t == Forward(s, f)
  <1>1. k \in ClientCon /\ q \in Script
    BY DEF Server
  <1>2. /\ l \in ClientCon /\ l.peer = k.peer /\ l.file_fd = k.file_fd
        /\ l.cgi_active = k.cgi_active /\ l.out = k.out + 1 /\ l.res_ready
        /\ l.file_bytes_remaining = k.file_bytes_remaining /\ l.file_buf = k.file_buf
    <2>1. k.out + 1 \in Nat
      BY <1>1 DEF ClientCon
    <2> DEFINE n == k.out + 1
    <2>2. l = [k EXCEPT !.out = n, !.res_ready = TRUE]
      OBVIOUS
    <2> HIDE DEF k, n, l
    <2> QED BY <1>1, <2>1, <2>2 DEF ClientCon, n
  <1>3. /\ r \in Script /\ r.st = q.st /\ r.stdout = q.stdout /\ r.stderr = q.stderr
        /\ r.wrote = 0 /\ r.headers_complete
    <2> HIDE DEF q
    <2> QED BY <1>1 DEF Script
  <1>4. u = [s EXCEPT !.script = [s.script EXCEPT ![f] = r], !.conn = [s.conn EXCEPT ![f] = l]]
    <2> HIDE DEF l, r
    <2> QED OBVIOUS
  <1>6. t = Arm(u, f, "write")
    BY DEF Forward, u
  <1> HIDE DEF l, r, u
  <1>5. /\ u \in Server /\ u.desc = s.desc /\ u.interest = s.interest
        /\ u.script = [s.script EXCEPT ![f] = r] /\ u.conn = [s.conn EXCEPT ![f] = l]
    BY <1>2, <1>3, <1>4 DEF Server
  <1>7. /\ t \in Server /\ t.conn = u.conn /\ t.script = u.script /\ t.desc = u.desc
        /\ \A g \in Fds : t.interest[g] = IF g = f THEN "write" ELSE u.interest[g]
    BY <1>5, <1>6, ArmWriteFields
  <1> HIDE DEF t
  <1>8. /\ t.conn[f] = l /\ t.script[f] = r
        /\ \A g \in Fds \ {f} : t.conn[g] = s.conn[g] /\ t.script[g] = s.script[g]
    BY <1>5, <1>7 DEF Server
  <1>9. s.interest[f] # "none"
    BY DEF AllOwned, Owned, PipesOwned
  <1>10. SameOwners(s, t)
    <2> SUFFICES ASSUME NEW g \in Fds
                 PROVE  /\ t.conn[g].peer = s.conn[g].peer
                        /\ t.conn[g].file_fd = s.conn[g].file_fd
                        /\ t.interest[g] = "none" <=> s.interest[g] = "none"
                        /\ t.script[g].stdout = s.script[g].stdout
                        /\ t.script[g].stderr = s.script[g].stderr
                        /\ t.script[g].st = "none" <=> s.script[g].st = "none"
                        /\ t.script[g].st = "none" => t.script[g] = s.script[g]
                        /\ t.script[g].st # "none" => t.conn[g].cgi_active = s.conn[g].cgi_active
      BY <1>5, <1>7 DEF SameOwners
    <2>1. CASE g = f
      BY <1>2, <1>3, <1>7, <1>8, <1>9, <2>1
    <2>2. CASE g # f
      BY <1>5, <1>7, <1>8, <2>2
    <2> QED BY <2>1, <2>2
  <1>11. AllOwned(t)
    BY <1>10, SameOwned
  <1>12. OnlyAt(s, t, f)
    BY <1>2, <1>5, <1>7, <1>8 DEF OnlyAt, SameAt, UpIn
  <1> QED BY <1>2, <1>3, <1>7, <1>8, <1>11, <1>12 DEF t

\* The server once what stdout held is forwarded, and the peers once it is
\* announced.
Passed(f) == IF srv.script[f].wrote = 0 THEN srv ELSE Forward(srv, f)
Announced(p, n) == [peer EXCEPT ![p].due = @ + n]

LEMMA PassedKeeps ==
    ASSUME Held, NEW f \in Fds, srv.script[f].st # "none"
    PROVE  LET s == Passed(f) n == srv.script[f].wrote p == srv.conn[f].peer IN
           /\ s \in Server /\ AllOwned(s) /\ OnlyAt(srv, s, f) /\ UpIn(s, f)
           /\ s.script[f].st = srv.script[f].st
           /\ s.script[f].headers_complete <=> srv.script[f].headers_complete \/ n # 0
           /\ n \in {0, 1} /\ p \in Peers /\ Patient(peer[p])
           /\ n # 0 => peer[p].waiting /\ peer[p].sent = "none"
           /\ ~s.script[f].headers_complete =>
                 n = 0 /\ peer[p].due = 0 /\ peer[p].waiting /\ peer[p].sent = "none"
           /\ Session(s, Announced(p, n), f)
  <1> DEFINE s == Passed(f)
             n == srv.script[f].wrote
             p == srv.conn[f].peer
  <1>1. srv \in Server /\ AllOwned(srv) /\ Sessions(srv, peer) /\ peer \in [Peers -> Peer]
    BY DEF Held
  <1>2. /\ UpIn(srv, f) /\ Session(srv, peer, f) /\ p \in Peers
        /\ ~srv.script[f].headers_complete =>
              /\ srv.interest[f] = "read" /\ ~srv.conn[f].res_ready /\ srv.conn[f].out = 0
              /\ peer[p].due = 0 /\ peer[p].sent = "none" /\ peer[p].waiting
        /\ peer[p].st \in {"there", "reset"}
    BY <1>1, HeadlessScript
  <1>3. n \in {0, 1} /\ Patient(peer[p]) /\ srv.script[f] \in Script
    BY <1>1, <1>2 DEF Server, Script, Sessions
  <1>4. n # 0 => ~srv.script[f].headers_complete
    BY <1>2 DEF Session
  <1>5. /\ Announced(p, n) \in [Peers -> Peer] /\ Announced(p, n)[p].st = peer[p].st
        /\ Announced(p, n)[p].sent = peer[p].sent
        /\ Announced(p, n)[p].waiting = peer[p].waiting
        /\ Announced(p, n)[p].due = peer[p].due + n /\ peer[p].due \in Nat
    <2>1. n \in Nat /\ (n > 0 => peer[p].waiting /\ peer[p].sent = "none")
      BY <1>2, <1>3, <1>4
    <2>2. peer[p].due \in Nat
      BY <1>1, <1>2 DEF Peer
    <2> HIDE DEF n, p
    <2> QED BY <1>1, <1>2, <1>3, <2>1, <2>2, AnnouncedFields DEF Announced
  <1>6. CASE n = 0
    <2>1. s = srv
      BY <1>6 DEF Passed
    <2>2. Session(srv, Announced(p, n), f)
      <3>1. Announced(p, n)[p].due = peer[p].due
        BY <1>5, <1>6
      <3> QED BY <1>2, <1>5, <3>1 DEF Session
    <2>3. OnlyAt(srv, srv, f)
      BY DEF OnlyAt, SameAt
    <2> QED BY <1>1, <1>2, <1>3, <1>6, <2>1, <2>2, <2>3
  <1>7. CASE n # 0
    <2>1. s = Forward(srv, f) /\ n = 1
      BY <1>3, <1>7 DEF Passed
    <2>2. /\ s \in Server /\ AllOwned(s) /\ OnlyAt(srv, s, f)
          /\ s.conn[f].out = srv.conn[f].out + 1 /\ s.conn[f].res_ready
          /\ s.conn[f].file_fd = srv.conn[f].file_fd
          /\ s.conn[f].file_bytes_remaining = srv.conn[f].file_bytes_remaining
          /\ s.conn[f].file_buf = srv.conn[f].file_buf
          /\ s.script[f].st = srv.script[f].st /\ s.script[f].headers_complete
          /\ s.script[f].wrote = 0 /\ s.interest[f] = "write"
      BY <1>1, <2>1, ForwardFields
    <2>3. s.conn[f].peer = p /\ UpIn(s, f)
      BY <1>2, <2>2 DEF OnlyAt, UpIn
    <2> HIDE DEF s
    <2>4. Session(s, Announced(p, n), f)
      <3>1. /\ s.conn[f].out = 1 /\ s.conn[f].file_fd = NoFd
            /\ s.conn[f].file_bytes_remaining = 0 /\ s.conn[f].file_buf = 0
        BY <1>2, <1>4, <1>7, <2>2 DEF Session
      <3>2. Announced(p, n)[p].due = 1 /\ Announced(p, n)[p].st \in {"there", "reset"}
        BY <1>2, <1>4, <1>5, <1>7, <2>1
      <3>3. s.conn[f].out + s.conn[f].file_bytes_remaining + s.conn[f].file_buf = 1
        BY <3>1
      <3> HIDE DEF n, p
      <3> QED BY <2>2, <2>3, <3>1, <3>2, <3>3 DEF Session
    <2> QED BY <1>2, <1>3, <1>4, <1>7, <2>2, <2>3, <2>4 DEF s
  <1> QED BY <1>6, <1>7

LEMMA HandleStdoutStep ==
    ASSUME IInv, NEW f \in Fds, HandleStdout(f)
    PROVE  IInv'
  <1> DEFINE q == srv.script[f]
             p == srv.conn[f].peer
             fd == q.stdout
             s == Passed(f)
             pr == Announced(p, q.wrote)
             answered == s.script[f].headers_complete
             due == q.wrote + IF q.st # "run" /\ ~answered THEN 1 ELSE 0
             reason == IF answered THEN "Normal" ELSE "InvalidHeaders"
             t == IF q.st = "run" THEN s ELSE CleanupProcess(s, {f}, reason)
             pr2 == Announced(p, due)
  <1>0. Held
    BY DEF IInv, TypeOK, AllOwned, Held
  <1>1. srv \in Server /\ AllOwned(srv) /\ Sessions(srv, peer) /\ peer \in [Peers -> Peer]
    BY <1>0 DEF Held
  <1>2. Dispatch(fd) /\ fd # NoFd /\ sigchld' \in BOOLEAN
    BY DEF HandleStdout, IInv, TypeOK
  <1>3. q.st # "none"
    BY <1>1, <1>2 DEF AllOwned, PipesOwned, NoScript
  <1>4. srv' = t /\ peer' = pr2
    BY DEF HandleStdout, Passed, Announced
  <1>5. /\ s \in Server /\ AllOwned(s) /\ OnlyAt(srv, s, f) /\ UpIn(s, f)
        /\ s.script[f].st = q.st
        /\ answered <=> q.headers_complete \/ q.wrote # 0
        /\ q.wrote \in {0, 1} /\ p \in Peers /\ Patient(peer[p])
        /\ q.wrote # 0 => peer[p].waiting /\ peer[p].sent = "none"
        /\ ~answered => q.wrote = 0 /\ peer[p].due = 0 /\ peer[p].waiting /\ peer[p].sent = "none"
        /\ Session(s, pr, f)
    <2> HIDE DEF s
    <2> QED BY <1>0, <1>3, PassedKeeps DEF s
  <1>6. UpIn(srv, f) /\ peer[p].st \in {"there", "reset"} /\ s.conn[f].peer = p
    BY <1>1, <1>3, <1>5, HeadlessScript DEF OnlyAt
  <1> HIDE DEF s
  <1>7. due \in Nat /\ (due > 0 => peer[p].waiting /\ peer[p].sent = "none")
    BY <1>5
  <1> HIDE DEF due
  <1>8. /\ pr2 \in [Peers -> Peer]
        /\ \A r \in Peers \ {p} : pr2[r] = peer[r]
        /\ pr2[p].st = peer[p].st /\ pr2[p].due = peer[p].due + due /\ Patient(pr2[p])
    BY <1>1, <1>5, <1>7, AnnouncedFields DEF Announced
  <1>9. /\ pr \in [Peers -> Peer]
        /\ pr[p].st = peer[p].st /\ pr[p].due = peer[p].due + q.wrote
    <2>1. q.wrote \in Nat /\ (q.wrote > 0 => peer[p].waiting /\ peer[p].sent = "none")
      BY <1>5
    <2> HIDE DEF q
    <2> QED BY <1>1, <1>5, <2>1, AnnouncedFields DEF Announced
  <1> HIDE DEF pr, pr2
  <1>10. /\ t \in Server /\ AllOwned(t) /\ Session(t, pr2, f)
         /\ \A g \in Fds : UpIn(t, g) => UpIn(s, g) /\ t.conn[g].peer = s.conn[g].peer
         /\ \A g \in Fds \ {f} : UpIn(t, g) => SameAt(s, t, g)
    <2>1. CASE q.st = "run"
      <3>1. t = s /\ due = q.wrote
        BY <1>5, <2>1 DEF due
      <3>2. Session(s, pr2, f)
        <4>1. pr2 = pr
          BY <3>1 DEF pr, pr2
        <4> QED BY <1>5, <4>1
      <3> HIDE DEF t
      <3> QED BY <1>5, <3>1, <3>2 DEF SameAt
    <2>2. CASE q.st # "run"
      <3>1. t = CleanupProcess(s, {f}, reason)
        BY <2>2
      <3>2. reason # "ClientGone" /\ s.script[f].st # "none"
        BY <1>3, <1>5
      <3>3. due = IF answered THEN q.wrote ELSE 1
        BY <1>5, <2>2 DEF due
      <3> HIDE DEF t, reason
      <3>4. /\ t \in Server /\ AllOwned(t)
            /\ \A g \in Fds : UpIn(t, g) => UpIn(s, g) /\ t.conn[g].peer = s.conn[g].peer
            /\ \A g \in Fds \ {f} : UpIn(t, g) => SameAt(s, t, g)
            /\ \A g \in {f} : /\ t.conn[g] = AfterScript(s.conn[g], s.script[g], reason)
                              /\ t.script[g] = NoScript
                              /\ t.interest[g] = IF t.conn[g].res_ready \/ t.conn[g].out > 0
                                                   THEN "write" ELSE "read"
        <4>1. \A g \in {f} : s.script[g].st # "none"
          BY <3>2
        <4>2. s \in Server /\ AllOwned(s) /\ {f} \in SUBSET Fds
          BY <1>5
        <4> QED BY ZenonT(40), <3>1, <3>2, <4>1, <4>2, CleanupKeeps
      <3>5. pr2[p].due = IF answered THEN pr[p].due ELSE 1
        BY SMTT(30), <1>5, <1>8, <1>9, <3>3
      <3>6. Session(t, pr2, f)
        <4>1. s \in Server /\ UpIn(s, f) /\ Session(s, pr, f)
          BY <1>5
        <4>2. pr \in [Peers -> Peer] /\ pr2 \in [Peers -> Peer] /\ pr2[p].st = pr[p].st
          BY <1>8, <1>9
        <4>3. /\ t.conn[f] = AfterScript(s.conn[f], s.script[f], reason)
              /\ t.script[f] = NoScript
              /\ t.interest[f] = (IF t.conn[f].res_ready \/ t.conn[f].out > 0
                                    THEN "write" ELSE "read")
          BY <3>4
        <4> QED BY ZenonT(40), <1>6, <3>2, <3>4, <3>5, <4>1, <4>2, <4>3, EndedSession
      <3> QED BY <3>4, <3>6
    <2> QED BY <2>1, <2>2
  <1> HIDE DEF t
  <1>11. Touches(srv, peer, t, pr2, {f})
    <2>1. ASSUME NEW g \in Fds, UpIn(t, g)
          PROVE  UpIn(srv, g) /\ t.conn[g].peer = srv.conn[g].peer
      <3>1. CASE g = f
        BY <1>6, <1>10, <2>1, <3>1
      <3>2. CASE g # f
        BY <1>5, <1>10, <2>1, <3>2 DEF OnlyAt, SameAt
      <3> QED BY <3>1, <3>2
    <2>2. ASSUME NEW g \in Fds \ {f}, UpIn(t, g)
          PROVE  SameAt(srv, t, g) /\ pr2[srv.conn[g].peer] = peer[srv.conn[g].peer]
      <3>1. SameAt(srv, t, g)
        BY <1>5, <1>10, <2>2 DEF OnlyAt, SameAt
      <3>2. srv.conn[g].peer \in Peers /\ srv.conn[g].peer # p
        BY <1>1, <1>6, <2>1, <2>2 DEF Sessions, UpIn, Server, ClientCon
      <3> QED BY <1>8, <3>1, <3>2
    <2>3. \A r \in Peers : /\ pr2[r].st = peer[r].st
                           /\ peer[r].st \notin {"there", "reset"} => pr2[r] = peer[r]
                           /\ Patient(pr2[r])
      <3>1. \A r \in Peers : Patient(peer[r])
        BY <1>1 DEF Sessions
      <3> QED BY <1>6, <1>8, <3>1
    <2> QED BY <1>10, <2>1, <2>2, <2>3 DEF Touches
  <1>12. \A g \in {f} \ {fd} : srv.script[g].st # "none"
    BY <1>3
  <1> HIDE DEF fd, q
  <1> QED BY <1>2, <1>4, <1>8, <1>10, <1>11, <1>12, HandlerStep

\* Events that change nothing.
LEMMA NothingStep ==
    ASSUME IInv, NEW fd, Dispatch(fd), UNCHANGED <<srv, peer, sigchld>>
    PROVE  IInv'
  <1>1. srv \in Server /\ AllOwned(srv) /\ Sessions(srv, peer) /\ peer \in [Peers -> Peer]
        /\ sigchld' \in BOOLEAN
    BY DEF IInv, TypeOK, AllOwned
  <1>2. Touches(srv, peer, srv, peer, {})
    BY <1>1 DEF Touches, Sessions, SameAt
  <1> QED BY <1>1, <1>2, HandlerStep

LEMMA HandleStderrStep ==
    ASSUME IInv, NEW f \in Fds, HandleStderr(f)
    PROVE  IInv'
  <1> DEFINE fd == srv.script[f].stderr
             q == [srv.script[f] EXCEPT !.stderr = NoFd]
             c == Close(srv, {fd})
             t == [c EXCEPT !.script[f].stderr = NoFd]
  <1>1. srv \in Server /\ AllOwned(srv) /\ Sessions(srv, peer) /\ peer \in [Peers -> Peer]
        /\ sigchld' \in BOOLEAN
    BY DEF IInv, TypeOK, AllOwned, HandleStderr
  <1>2. Dispatch(fd) /\ fd # NoFd /\ UNCHANGED <<peer, sigchld>>
    BY DEF HandleStderr
  <1>3. CASE srv.script[f].st = "run"
    <2>1. srv' = srv
      BY <1>3 DEF HandleStderr
    <2> HIDE DEF fd
    <2> QED BY <1>2, <2>1, NothingStep
  <1>4. CASE srv.script[f].st # "run"
    <2>1. srv' = t
      BY <1>4 DEF HandleStderr
    <2>2. fd \in Fds /\ srv.script[f] \in Script
      BY <1>1, <1>2 DEF Server, Script
    <2>3. /\ q \in Script /\ q.st = srv.script[f].st /\ q.stdout = srv.script[f].stdout
          /\ q.wrote = srv.script[f].wrote /\ q.headers_complete = srv.script[f].headers_complete
      BY <2>2 DEF Script
    <2>4. /\ c \in Server /\ c.conn = srv.conn /\ c.script = srv.script
          /\ \A d \in Fds : /\ c.desc[d] = IF d \in {fd} THEN "free" ELSE srv.desc[d]
                            /\ c.interest[d] = IF d \in {fd} THEN "none" ELSE srv.interest[d]
      <3>1. {fd} \in SUBSET Fds
        BY <2>2
      <3> HIDE DEF fd
      <3> QED BY <1>1, <3>1, CloseFields
    <2> HIDE DEF c
    <2>5. /\ t \in Server /\ t.conn = c.conn /\ t.desc = c.desc /\ t.interest = c.interest
          /\ t.script = [srv.script EXCEPT ![f] = q]
      <3>1. t = [c EXCEPT !.script = [srv.script EXCEPT ![f] = q]]
        BY <2>4
      <3> HIDE DEF t, q
      <3> QED BY <2>3, <2>4, <3>1 DEF Server
    <2> HIDE DEF t
    <2>6. t.script[f] = q /\ \A g \in Fds \ {f} : t.script[g] = srv.script[g]
      BY <1>1, <2>5 DEF Server
    <2>7. AllOwned(t)
      <3>1. t \in Server /\ t.conn = srv.conn /\ srv \in Server /\ AllOwned(srv)
        BY <1>1, <2>4, <2>5
      <3>2. \A g \in Fds :
               /\ t.desc[g] = IF g = fd THEN "free" ELSE srv.desc[g]
               /\ t.interest[g] = IF g = fd THEN "none" ELSE srv.interest[g]
               /\ g # f => t.script[g] = srv.script[g]
        BY <2>4, <2>5, <2>6
      <3>3. t.script[f] = [srv.script[f] EXCEPT !.stderr = NoFd]
        BY <2>6
      <3> QED BY <1>2, <3>1, <3>2, <3>3, StderrOwned
    <2>8. srv.desc[fd] = "pipe"
      BY <1>1, <1>2 DEF AllOwned, PipesOwned, Pipes
    <2>9. \A g \in Fds : UpIn(srv, g) => g # fd
      BY <1>1, <2>8 DEF AllOwned, Owned
    <2> HIDE DEF fd, q
    <2>10. Touches(srv, peer, t, peer, {f})
      <3>1. \A g \in Fds : UpIn(t, g) => UpIn(srv, g) /\ t.conn[g].peer = srv.conn[g].peer
        BY <2>4, <2>5 DEF UpIn
      <3>2. ASSUME NEW g \in Fds \ {f}, UpIn(t, g)
            PROVE  SameAt(srv, t, g)
        BY <2>4, <2>5, <2>6, <2>9, <3>1, <3>2 DEF SameAt
      <3>3. ASSUME UpIn(t, f)
            PROVE  Session(t, peer, f)
        <4>1. Session(srv, peer, f) /\ UpIn(srv, f)
          BY <1>1, <3>1, <3>3 DEF Sessions
        <4>2. t.interest[f] = srv.interest[f] /\ t.conn[f] = srv.conn[f]
          BY <2>4, <2>5, <2>9, <4>1
        <4> QED BY <2>3, <2>6, <4>1, <4>2 DEF Session
      <3> QED BY <1>1, <3>1, <3>2, <3>3 DEF Touches, Sessions
    <2>11. \A g \in {f} \ {fd} : srv.script[g].st # "none"
      BY <1>1, <1>2 DEF AllOwned, PipesOwned, NoScript, fd
    <2> QED BY <1>1, <1>2, <2>1, <2>5, <2>7, <2>10, <2>11, HandlerStep
  <1> QED BY <1>3, <1>4

LEMMA IgnoreStep ==
    ASSUME IInv, NEW f \in Fds, Ignore(f)
    PROVE  IInv'
  BY NothingStep DEF Ignore, ForClient

-----------------------------------------------------------------------------
(* new_connection, the sweeps and wait().                                  *)

LEMMA NewConnectionStep ==
    ASSUME IInv, NewConnection
    PROVE  IInv'
  <1> DEFINE fds == Lowest(srv, Cardinality(Knocking))
  <1>1. srv \in Server /\ AllOwned(srv) /\ Sessions(srv, peer) /\ peer \in [Peers -> Peer]
        /\ batch \in Seq(PollEvent) /\ BatchOnce /\ Readables /\ phase \in {"wait", "dispatch"}
    BY DEF IInv, TypeOK, AllOwned
  <1>2. Dispatch(Listen) /\ sigchld' \in BOOLEAN
    BY DEF NewConnection, IInv, TypeOK
  <1>3. PICK who \in Injection(fds, Knocking) :
             /\ srv' = [srv EXCEPT
                   !.desc = [f \in Fds |-> IF f \in fds THEN "client" ELSE @[f]],
                   !.interest = [f \in Fds |-> IF f \in fds THEN "read" ELSE @[f]],
                   !.conn = [f \in Fds |-> IF f \in fds THEN [NoConn EXCEPT !.peer = who[f]]
                                           ELSE @[f]]]
             /\ peer' = [p \in Peers |-> IF \E f \in fds : who[f] = p
                                           THEN [peer[p] EXCEPT !.st = "there"] ELSE peer[p]]
    BY DEF NewConnection
  <1>4. fds \in SUBSET Fds /\ \A f \in fds : srv.desc[f] = "free"
    BY DEF Lowest, Free
  <1>5. /\ \A f \in fds : who[f] \in Peers /\ peer[who[f]].st = "knocking"
        /\ \A f, g \in fds : who[f] = who[g] => f = g
    BY <1>3 DEF Injection, IsInjective, Knocking
  <1> HIDE DEF fds
  <1> DEFINE t == srv'
             pr == peer'
             conn == [f \in Fds |-> IF f \in fds THEN [NoConn EXCEPT !.peer = who[f]]
                                    ELSE srv.conn[f]]
             desc == [f \in Fds |-> IF f \in fds THEN "client" ELSE srv.desc[f]]
             interest == [f \in Fds |-> IF f \in fds THEN "read" ELSE srv.interest[f]]
  <1>6. \A p \in Peers : LET c == [NoConn EXCEPT !.peer = p] IN
           /\ c \in ClientCon /\ c.peer = p /\ c.file_fd = NoFd /\ ~c.cgi_active
           /\ ~c.res_ready /\ c.out = 0 /\ c.file_bytes_remaining = 0 /\ c.file_buf = 0
    BY DEF NoConn, ClientCon, NoFd
  <1>7. /\ t \in Server /\ t.script = srv.script
        /\ \A f \in Fds : /\ t.desc[f] = IF f \in fds THEN "client" ELSE srv.desc[f]
                          /\ t.interest[f] = IF f \in fds THEN "read" ELSE srv.interest[f]
                          /\ t.conn[f] = IF f \in fds THEN [NoConn EXCEPT !.peer = who[f]]
                                         ELSE srv.conn[f]
    <2>1. conn \in [Fds -> ClientCon]
      BY <1>1, <1>5, <1>6 DEF Server
    <2>2. desc \in [Fds -> {"free", "client", "file", "pipe", "lost"}]
          /\ interest \in [Fds -> {"none", "off", "read", "write"}]
      BY <1>1 DEF Server
    <2>3. t = [srv EXCEPT !.desc = desc, !.interest = interest, !.conn = conn]
      BY <1>3
    <2>4. /\ t \in Server /\ t.script = srv.script /\ t.desc = desc /\ t.interest = interest
          /\ t.conn = conn
      <3> HIDE DEF t, desc, interest, conn
      <3> QED BY <1>1, <2>1, <2>2, <2>3 DEF Server
    <2> HIDE DEF t
    <2> QED BY <2>4
  <1>8. \A p \in Peers : LET c == [peer[p] EXCEPT !.st = "there"] IN
           /\ c \in Peer /\ c.st = "there" /\ c.sent = peer[p].sent
           /\ c.waiting = peer[p].waiting /\ c.due = peer[p].due
    <2>1. \A p \in Peers : peer[p] \in Peer
      BY <1>1
    <2> QED BY <2>1 DEF Peer
  <1>9. /\ pr \in [Peers -> Peer]
        /\ \A p \in Peers :
              pr[p] = IF \E f \in fds : who[f] = p THEN [peer[p] EXCEPT !.st = "there"]
                      ELSE peer[p]
    BY <1>1, <1>3, <1>8
  <1> HIDE DEF t, pr
  <1>10. \A f \in Fds : f \in fds => /\ ~UpIn(srv, f) /\ srv.script[f] = NoScript
                                     /\ UpIn(t, f) /\ t.conn[f].peer = who[f]
                                     /\ t.conn[f].file_fd = NoFd
    <2>1. \A f \in fds : ~UpIn(srv, f) /\ srv.script[f] = NoScript
      BY <1>1, <1>4 DEF AllOwned, Owned, PipesOwned
    <2>2. \A f \in fds : UpIn(t, f) /\ t.conn[f].peer = who[f] /\ t.conn[f].file_fd = NoFd
      <3> SUFFICES ASSUME NEW f \in fds
                   PROVE  UpIn(t, f) /\ t.conn[f].peer = who[f] /\ t.conn[f].file_fd = NoFd
        OBVIOUS
      <3>1. f \in Fds /\ who[f] \in Peers /\ who[f] # NoPeer
        BY <1>4, <1>5, LoopAssumption
      <3>2. t.conn[f] = [NoConn EXCEPT !.peer = who[f]]
        BY <1>7, <3>1
      <3>3. t.conn[f].peer = who[f] /\ t.conn[f].file_fd = NoFd
        BY <1>6, <3>1, <3>2
      <3> QED BY <3>1, <3>3 DEF UpIn
    <2> QED BY <2>1, <2>2
  <1>11. AllOwned(t)
    <2>1. \A f \in Fds :
             /\ t.desc[f] = IF f \in fds THEN "client" ELSE srv.desc[f]
             /\ t.interest[f] = IF f \in fds THEN "read" ELSE srv.interest[f]
             /\ f \in fds => UpIn(t, f) /\ t.conn[f].file_fd = NoFd
             /\ f \notin fds => t.conn[f] = srv.conn[f]
      BY <1>7, <1>10
    <2> QED BY <1>1, <1>4, <1>7, <2>1, AcceptOwned
  <1>12. \A f \in Fds : f \notin fds => SameAt(srv, t, f) /\ (UpIn(t, f) <=> UpIn(srv, f))
    BY <1>7 DEF SameAt, UpIn
  <1>13. \A f \in Fds : UpIn(srv, f) =>
            /\ srv.conn[f].peer \in Peers /\ peer[srv.conn[f].peer].st \in {"there", "reset"}
            /\ pr[srv.conn[f].peer] = peer[srv.conn[f].peer]
    <2>1. \A f \in Fds : UpIn(srv, f) =>
             srv.conn[f].peer \in Peers /\ peer[srv.conn[f].peer].st \in {"there", "reset"}
      BY <1>1 DEF Sessions, Session, UpIn, Server, ClientCon
    <2> QED BY <1>5, <1>9, <2>1
  <1>14. Sessions(t, pr)
    <2>1. ASSUME NEW f \in Fds, UpIn(t, f)
          PROVE  Session(t, pr, f)
      <3>1. CASE f \in fds
        <4> DEFINE p == who[f]
                   k == t.conn[f]
        <4>1. p \in Peers /\ peer[p].st = "knocking" /\ peer[p].due = 0 /\ pr[p].st = "there"
              /\ pr[p].due = 0
          <5>1. p \in Peers /\ peer[p].st = "knocking"
            BY <1>5, <3>1
          <5>2. peer[p].due = 0
            BY <1>1, <5>1 DEF Sessions
          <5>3. pr[p] = [peer[p] EXCEPT !.st = "there"]
            BY <1>9, <3>1, <5>1
          <5> HIDE DEF p
          <5> QED BY <1>8, <5>1, <5>2, <5>3
        <4>2. /\ k.peer = p /\ k.file_fd = NoFd /\ ~k.cgi_active
              /\ ~k.res_ready /\ k.out = 0 /\ k.file_bytes_remaining = 0 /\ k.file_buf = 0
          BY <1>6, <1>7, <3>1, <4>1
        <4>3. t.script[f] = NoScript /\ t.interest[f] = "read"
          BY <1>7, <1>10, <3>1
        <4>4. k.out + k.file_bytes_remaining + k.file_buf = 0
          BY <4>2
        <4> HIDE DEF p
        <4> QED BY <4>1, <4>2, <4>3, <4>4 DEF Session, NoScript
      <3>2. CASE f \notin fds
        BY <1>1, <1>12, <1>13, <2>1, <3>2 DEF Sessions, Session, SameAt
      <3> QED BY <3>1, <3>2
    <2>2. ASSUME NEW f \in Fds, NEW g \in Fds, UpIn(t, f), t.conn[f].peer = t.conn[g].peer
          PROVE  f = g
      <3>1. UpIn(t, g)
        BY <2>2 DEF UpIn
      <3>2. CASE f \in fds /\ g \in fds
        BY <1>5, <1>10, <2>2, <3>2
      <3>3. CASE f \in fds /\ g \notin fds
        BY <1>5, <1>10, <1>12, <1>13, <2>2, <3>1, <3>3 DEF SameAt
      <3>4. CASE f \notin fds /\ g \in fds
        BY <1>5, <1>10, <1>12, <1>13, <2>2, <3>1, <3>4 DEF SameAt
      <3>5. CASE f \notin fds /\ g \notin fds
        BY <1>1, <1>12, <2>2, <3>5 DEF SameAt, Sessions
      <3> QED BY <3>2, <3>3, <3>4, <3>5
    <2>3. ASSUME NEW p \in Peers
          PROVE  /\ pr[p].st \notin {"there", "reset"} =>
                       pr[p].sent = "none" /\ ~pr[p].waiting /\ pr[p].due = 0
                 /\ Patient(pr[p])
      <3>1. Patient(peer[p])
        BY <1>1 DEF Sessions
      <3>2. CASE \E f \in fds : who[f] = p
        BY <1>8, <1>9, <3>1, <3>2 DEF Patient
      <3>3. CASE ~ \E f \in fds : who[f] = p
        BY <1>1, <1>9, <3>1, <3>3 DEF Sessions
      <3> QED BY <3>2, <3>3
    <2> QED BY <2>1, <2>2, <2>3 DEF Sessions
  <1>15. BatchOnce' /\ Readables' /\ batch' \in Seq(PollEvent)
    <2>1. batch # <<>> /\ batch' = Tail(batch)
      BY <1>2 DEF Dispatch
    <2>2. ASSUME NEW f \in Fds, UpIn(t, f)
          PROVE  \/ /\ UpIn(srv, f) /\ t.conn[f].peer = srv.conn[f].peer
                    /\ pr[srv.conn[f].peer].st = peer[srv.conn[f].peer].st
                    /\ srv.script[f].st = "none" =>
                          t.script[f].st = "none" /\ t.interest[f] = srv.interest[f]
                 \/ t.interest[f] = "read" /\ t.script[f].st = "none"
      <3>1. CASE f \in fds
        <4>1. t.interest[f] = "read" /\ t.script[f] = NoScript
          BY <1>7, <1>10, <3>1
        <4> QED BY <4>1 DEF NoScript
      <3>2. CASE f \notin fds
        BY <1>12, <1>13, <2>2, <3>2 DEF SameAt
      <3> QED BY <3>1, <3>2
    <2> QED BY <1>1, <2>1, <2>2, ReadablesStep DEF t, pr
  <1>16. phase' = phase
    BY <1>2 DEF Dispatch
  <1> QED BY <1>1, <1>2, <1>7, <1>9, <1>11, <1>14, <1>15, <1>16 DEF IInv, TypeOK, AllOwned, t, pr

LEMMA SweepStep ==
    ASSUME IInv, Sweep
    PROVE  IInv'
  <1>1. srv \in Server /\ AllOwned(srv) /\ Sessions(srv, peer) /\ peer \in [Peers -> Peer]
        /\ sigchld' \in BOOLEAN /\ Held
    BY DEF IInv, TypeOK, AllOwned, Sweep, Held
  <1>2. phase' = "wait" /\ batch' = <<>>
    BY DEF Sweep
  <1>3. PICK idle \in (IF Expiry THEN SUBSET (Conns \ DrainedClients) ELSE {{}}) :
         LET gone == DrainedClients \cup idle
             running == {f \in Fds \ gone : srv.script[f].st # "none"}
         IN  \E late \in IF Expiry THEN SUBSET running ELSE {{}} :
               Becomes(CleanupProcess(CloseClient(srv, gone), late, "Timeout"),
                       [p \in Peers |->
                          IF \E f \in late : /\ srv.conn[f].peer = p
                                             /\ ~srv.script[f].headers_complete
                            THEN [peer[p] EXCEPT !.due = 1] ELSE peer[p]])
    BY DEF Sweep
  <1> DEFINE gone == DrainedClients \cup idle
             running == {f \in Fds \ gone : srv.script[f].st # "none"}
  <1>4. PICK late \in (IF Expiry THEN SUBSET running ELSE {{}}) :
               Becomes(CleanupProcess(CloseClient(srv, gone), late, "Timeout"),
                       [p \in Peers |->
                          IF \E f \in late : /\ srv.conn[f].peer = p
                                             /\ ~srv.script[f].headers_complete
                            THEN [peer[p] EXCEPT !.due = 1] ELSE peer[p]])
    BY <1>3
  <1>5. gone \in SUBSET Fds /\ \A f \in gone : UpIn(srv, f)
    <2>1. idle \subseteq Conns
      BY <1>3
    <2> QED BY <2>1 DEF DrainedClients, Conns, Up, UpIn
  <1>6. late \in SUBSET Fds /\ \A f \in late : f \notin gone /\ srv.script[f].st # "none"
    <2>1. late \subseteq running
      BY <1>4
    <2> QED BY <2>1
  <1> HIDE DEF gone
  <1> DEFINE s == CloseClient(srv, gone)
             reason == "Timeout"
             H == {f \in late : ~srv.script[f].headers_complete}
             t == CleanupProcess(s, late, reason)
             pr == Paged(H)
  <1>7. srv' = t /\ peer' = PeersAfter(t, pr)
    <2>1. pr = [p \in Peers |->
                          IF \E f \in late : /\ srv.conn[f].peer = p
                                             /\ ~srv.script[f].headers_complete
                            THEN [peer[p] EXCEPT !.due = 1] ELSE peer[p]]
      BY DEF Paged
    <2> QED BY <1>4, <2>1 DEF Becomes
  <1>8. /\ s \in Server /\ AllOwned(s)
        /\ \A f \in Fds \ gone : s.conn[f] = srv.conn[f] /\ s.script[f] = srv.script[f]
        /\ \A f \in Fds : UpIn(s, f) => f \notin gone /\ UpIn(srv, f) /\ SameAt(srv, s, f)
    BY <1>1, <1>5, CloseKeeps
  <1>9. \A f \in late : UpIn(s, f) /\ s.script[f].st # "none"
    BY <1>6, <1>8 DEF AllOwned, PipesOwned
  <1>10. t \in Server /\ AllOwned(t) /\ pr \in [Peers -> Peer] /\ Touches(srv, peer, t, pr, late)
    <2>1. reason # "ClientGone"
      OBVIOUS
    <2> HIDE DEF s, reason
    <2>2. s \in Server /\ AllOwned(s) /\ Held
          /\ \A g \in Fds : UpIn(s, g) => UpIn(srv, g) /\ SameAt(srv, s, g)
      BY <1>1, <1>8
    <2> QED BY <1>6, <1>9, <2>1, <2>2, EndedTouches
  <1> HIDE DEF t, pr
  <1>11. Sessions(srv', peer') /\ peer' \in [Peers -> Peer]
    <2>1. peer' \in {pr, PeersAfter(t, pr)}
      BY <1>7
    <2> QED BY <1>1, <1>6, <1>7, <1>10, <2>1, SessionsStep
  <1>12. BatchOnce' /\ Readables' /\ batch' \in Seq(PollEvent)
    BY <1>2 DEF BatchOnce, Readables
  <1> QED BY <1>1, <1>2, <1>7, <1>10, <1>11, <1>12 DEF IInv, TypeOK, AllOwned

-----------------------------------------------------------------------------
(* The peers and the scripts.                                              *)

\* A peer moves without the server having done anything.
LEMMA PeerStep ==
    ASSUME IInv, UNCHANGED <<srv, sigchld, batch, phase>>, NEW p \in Peers,
           NEW c \in Peer, peer' = [peer EXCEPT ![p] = c],
           c.due = peer[p].due, Patient(c),
           \/ peer[p].st \in {"there", "reset"} /\ c.st \in {"there", "reset"}
           \/ /\ peer[p].st \notin {"there", "reset"}
              /\ c.sent = "none" /\ ~c.waiting
           ,
           peer[p].st = "reset" => c.st = "reset",
           peer[p].waiting => c.waiting /\ c.sent = peer[p].sent
    PROVE  IInv'
  <1>1. /\ srv \in Server /\ AllOwned(srv) /\ Sessions(srv, peer) /\ peer \in [Peers -> Peer]
        /\ BatchOnce /\ Readables
    BY DEF IInv, TypeOK, AllOwned
  <1>2. /\ peer' \in [Peers -> Peer] /\ peer'[p] = c
        /\ \A q \in Peers \ {p} : peer'[q] = peer[q]
    BY <1>1
  <1>3. \A f \in Fds : UpIn(srv, f) =>
           srv.conn[f].peer \in Peers /\ peer[srv.conn[f].peer].st \in {"there", "reset"}
    BY <1>1 DEF Sessions, Session, UpIn, Server, ClientCon
  <1>4. ASSUME NEW f \in Fds, UpIn(srv, f)
        PROVE  Session(srv, peer', f)
    <2>1. Session(srv, peer, f)
      BY <1>1, <1>4 DEF Sessions
    <2>2. CASE srv.conn[f].peer = p
      <3>1. c.st \in {"there", "reset"}
        BY <1>3, <1>4, <2>2
      <3> QED BY <1>2, <2>1, <2>2, <3>1 DEF Session
    <2>3. CASE srv.conn[f].peer # p
      BY <1>2, <1>3, <1>4, <2>1, <2>3 DEF Session
    <2> QED BY <2>2, <2>3
  <1>5. Sessions(srv, peer')
    <2>1. \A q \in Peers : Patient(peer'[q])
      BY <1>1, <1>2 DEF Sessions
    <2>2. ASSUME NEW q \in Peers, peer'[q].st \notin {"there", "reset"}
          PROVE  peer'[q].sent = "none" /\ ~peer'[q].waiting /\ peer'[q].due = 0
      <3>1. CASE q = p
        BY <1>1, <1>2, <2>2, <3>1 DEF Sessions
      <3>2. CASE q # p
        BY <1>1, <1>2, <2>2, <3>2 DEF Sessions
      <3> QED BY <3>1, <3>2
    <2> QED BY <1>1, <1>4, <2>1, <2>2 DEF Sessions
  <1>6. Readables'
    <2>1. \A f \in Fds : UpIn(srv, f) /\ peer[srv.conn[f].peer].st = "reset"
                            => peer'[srv.conn[f].peer].st = "reset"
      BY <1>2, <1>3
    <2> QED BY <1>1, <2>1 DEF Readables, Up, UpIn
  <1> QED BY <1>1, <1>2, <1>5, <1>6 DEF IInv, TypeOK, BatchOnce, AllOwned

LEMMA PeersStep ==
    ASSUME IInv, NEW p \in Peers, PeerConnects(p) \/ PeerAsks(p) \/ PeerResets(p)
    PROVE  IInv'
  <1> DEFINE c == peer[p]
  <1>1. c \in Peer /\ Patient(c) /\ peer \in [Peers -> Peer]
        /\ (c.st \notin {"there", "reset"} => c.sent = "none" /\ ~c.waiting /\ c.due = 0)
    BY DEF IInv, TypeOK, Sessions
  <1>2. CASE PeerConnects(p)
    <2> DEFINE d == [c EXCEPT !.st = "knocking"]
    <2>1. /\ d \in Peer /\ d.st = "knocking" /\ d.due = c.due /\ d.sent = c.sent
          /\ d.waiting = c.waiting
      BY <1>1 DEF Peer
    <2>2. peer' = [peer EXCEPT ![p] = d] /\ c.st = "away"
          /\ UNCHANGED <<srv, sigchld, batch, phase>>
      BY <1>2, <1>1 DEF PeerConnects
    <2> HIDE DEF d
    <2>3. Patient(d)
      BY <1>1, <2>1 DEF Patient
    <2> QED BY <1>1, <2>1, <2>2, <2>3, PeerStep
  <1>3. CASE PeerAsks(p)
    <2>1. PICK k \in Kinds : peer' = [peer EXCEPT ![p].sent = k, ![p].waiting = TRUE,
                                                  ![p].asked = @ + 1]
      BY <1>3 DEF PeerAsks
    <2> DEFINE n == c.asked + 1
               d == [c EXCEPT !.sent = k, !.waiting = TRUE, !.asked = n]
    <2>2. c.st = "there" /\ ~c.waiting /\ n \in 0 .. MaxRequests
          /\ UNCHANGED <<srv, sigchld, batch, phase>>
      <3>1. c.asked \in 0 .. MaxRequests /\ c.asked < MaxRequests
        BY <1>1, <1>3 DEF PeerAsks, Peer
      <3>2. n \in 0 .. MaxRequests
        BY <3>1, LoopAssumption
      <3> QED BY <1>3, <3>2 DEF PeerAsks
    <2>3. peer' = [peer EXCEPT ![p] = d]
      BY <1>1, <2>1
    <2>4. /\ d \in Peer /\ d.st = "there" /\ d.due = c.due /\ d.sent = k /\ d.waiting
      <3> HIDE DEF n, c
      <3> QED BY <1>1, <2>2 DEF Peer
    <2> HIDE DEF d, n
    <2>5. Patient(d)
      <3>1. c.due = 0
        BY <1>1, <2>2 DEF Patient, Peer
      <3> QED BY <2>4, <3>1 DEF Patient
    <2> QED BY <1>1, <2>2, <2>3, <2>4, <2>5, PeerStep
  <1>4. CASE PeerResets(p)
    <2> DEFINE d == [c EXCEPT !.st = "reset"]
    <2>1. /\ d \in Peer /\ d.st = "reset" /\ d.due = c.due /\ d.sent = c.sent
          /\ d.waiting = c.waiting
      BY <1>1 DEF Peer
    <2>2. peer' = [peer EXCEPT ![p] = d] /\ c.st = "there"
          /\ UNCHANGED <<srv, sigchld, batch, phase>>
      BY <1>4, <1>1 DEF PeerResets
    <2> HIDE DEF d
    <2>3. Patient(d)
      BY <1>1, <2>1 DEF Patient
    <2> QED BY <1>1, <2>1, <2>2, <2>3, PeerStep
  <1> QED BY <1>2, <1>3, <1>4

\* A script that runs moves: what it wrote, or its state.
LEMMA ScriptStep ==
    ASSUME IInv, UNCHANGED <<peer, batch, phase>>, sigchld' \in BOOLEAN,
           NEW f \in Fds, srv.script[f].st = "run",
           NEW q \in Script, srv' = [srv EXCEPT !.script = [srv.script EXCEPT ![f] = q]],
           q.st # "none", q.stdout = srv.script[f].stdout, q.stderr = srv.script[f].stderr,
           q.headers_complete = srv.script[f].headers_complete,
           q.headers_complete => q.wrote = 0
    PROVE  IInv'
  <1> DEFINE t == srv'
  <1>1. /\ srv \in Server /\ AllOwned(srv) /\ Sessions(srv, peer) /\ peer \in [Peers -> Peer]
        /\ BatchOnce /\ Readables
    BY DEF IInv, TypeOK, AllOwned
  <1>2. /\ t \in Server /\ t.conn = srv.conn /\ t.desc = srv.desc /\ t.interest = srv.interest
        /\ t.script[f] = q /\ \A g \in Fds \ {f} : t.script[g] = srv.script[g]
    BY <1>1 DEF Server
  <1> HIDE DEF t
  <1>3. SameOwners(srv, t)
    <2> SUFFICES ASSUME NEW g \in Fds
                 PROVE  /\ t.script[g].stdout = srv.script[g].stdout
                        /\ t.script[g].stderr = srv.script[g].stderr
                        /\ t.script[g].st = "none" <=> srv.script[g].st = "none"
                        /\ t.script[g].st = "none" => t.script[g] = srv.script[g]
      BY <1>2 DEF SameOwners
    <2>1. CASE g = f
      BY <1>2, <2>1
    <2>2. CASE g # f
      BY <1>2, <2>2
    <2> QED BY <2>1, <2>2
  <1>4. AllOwned(t)
    BY <1>1, <1>3, SameOwned
  <1>5. Sessions(t, peer)
    <2>1. ASSUME NEW g \in Fds, UpIn(t, g)
          PROVE  Session(t, peer, g)
      <3>1. Session(srv, peer, g)
        BY <1>1, <1>2, <2>1 DEF Sessions, UpIn
      <3>2. CASE g = f
        BY <1>2, <3>1, <3>2 DEF Session
      <3>3. CASE g # f
        BY <1>2, <3>1, <3>3 DEF Session
      <3> QED BY <3>2, <3>3
    <2> QED BY <1>1, <1>2, <2>1 DEF Sessions, UpIn
  <1>6. Readables'
    <2>1. \A g \in Fds : srv.script[g].st = "none" => t.script[g].st = "none"
      BY <1>2
    <2> QED BY <1>1, <1>2, <2>1 DEF Readables, Up, t
  <1> QED BY <1>1, <1>2, <1>4, <1>5, <1>6 DEF IInv, TypeOK, BatchOnce, AllOwned, t

LEMMA ScriptsStep ==
    ASSUME IInv, NEW f \in Fds, ScriptWrites(f) \/ ScriptExits(f)
    PROVE  IInv'
  <1> DEFINE q == srv.script[f]
  <1>1. srv \in Server /\ q \in Script /\ sigchld \in BOOLEAN
    BY DEF IInv, TypeOK, Server
  <1>2. q.st = "run"
    BY DEF ScriptWrites, ScriptExits
  <1>3. CASE ScriptWrites(f)
    <2> DEFINE r == [q EXCEPT !.wrote = 1]
    <2>1. /\ r \in Script /\ r.st = q.st /\ r.stdout = q.stdout /\ r.stderr = q.stderr
          /\ r.headers_complete = q.headers_complete
      BY <1>1 DEF Script
    <2>2. srv' = [srv EXCEPT !.script = [srv.script EXCEPT ![f] = r]]
          /\ ~q.headers_complete /\ UNCHANGED <<peer, sigchld, batch, phase>>
      BY <1>3, <1>1 DEF ScriptWrites
    <2> HIDE DEF r
    <2> QED BY <1>1, <1>2, <2>1, <2>2, ScriptStep
  <1>4. CASE ScriptExits(f)
    <2>1. PICK st \in {"exited", "failed"} : srv' = [srv EXCEPT !.script[f].st = st]
      BY <1>4 DEF ScriptExits
    <2> DEFINE r == [q EXCEPT !.st = st]
    <2>2. /\ r \in Script /\ r.st = st /\ r.stdout = q.stdout /\ r.stderr = q.stderr
          /\ r.headers_complete = q.headers_complete /\ r.wrote = q.wrote
      BY <1>1 DEF Script
    <2>3. srv' = [srv EXCEPT !.script = [srv.script EXCEPT ![f] = r]]
          /\ sigchld' = TRUE /\ UNCHANGED <<peer, batch, phase>>
      BY <1>4, <1>1, <2>1 DEF ScriptExits
    <2>4. q.headers_complete => q.wrote = 0
      BY <1>1, <1>2, HeadlessScript DEF IInv, TypeOK, AllOwned, Session
    <2> HIDE DEF r
    <2> QED BY <1>1, <1>2, <2>1, <2>2, <2>3, <2>4, ScriptStep
  <1> QED BY <1>3, <1>4

-----------------------------------------------------------------------------
(* wait().                                                                 *)

\* What epoll may report, one case for each kind of descriptor.
Reported(e) ==
    \/ \E f \in Conns : peer[srv.conn[f].peer].st = "reset" /\ e = Event(f, TRUE, TRUE)
    \/ \E f \in Conns : /\ peer[srv.conn[f].peer].st # "reset" /\ srv.interest[f] = "read"
                        /\ peer[srv.conn[f].peer].sent # "none" /\ e = Event(f, TRUE, FALSE)
    \/ \E f \in Conns : /\ peer[srv.conn[f].peer].st = "there" /\ srv.interest[f] = "write"
                        /\ e = Event(f, FALSE, TRUE)
    \/ \E f \in Fds : /\ srv.script[f].st \notin {"exited", "failed"} /\ srv.script[f].wrote > 0
                      /\ e = Event(srv.script[f].stdout, TRUE, FALSE)
    \/ \E f \in Fds : \E fd \in Pipes(srv, f) :
          srv.script[f].st \in {"exited", "failed"} /\ e = Event(fd, TRUE, TRUE)
    \/ e = Event(Listen, TRUE, FALSE)
    \/ e = Event(Signal, TRUE, FALSE)

LEMMA ReadyIsReported ==
    ASSUME NEW e \in Ready \cup Writable
    PROVE  Reported(e)
  <1>1. CASE e \in Writable
    BY <1>1 DEF Writable, Reported
  <1>2. CASE e \in Ready
    <2> DEFINE gone == {f \in Conns : peer[srv.conn[f].peer].st = "reset"}
               asked == {f \in Conns \ gone : /\ srv.interest[f] = "read"
                                              /\ peer[srv.conn[f].peer].sent # "none"}
               ended == {f \in Fds : srv.script[f].st \in {"exited", "failed"}}
               wrote == {g \in Fds \ ended : srv.script[g].wrote > 0}
    <2>1. \/ \E f \in gone : e = Event(f, TRUE, TRUE)
          \/ \E f \in asked : e = Event(f, TRUE, FALSE)
          \/ \E f \in wrote : e = Event(srv.script[f].stdout, TRUE, FALSE)
          \/ \E fd \in UNION {Pipes(srv, f) : f \in ended} : e = Event(fd, TRUE, TRUE)
          \/ e = Event(Listen, TRUE, FALSE)
          \/ e = Event(Signal, TRUE, FALSE)
      BY <1>2 DEF Ready
    <2>2. (\E fd \in UNION {Pipes(srv, f) : f \in ended} : e = Event(fd, TRUE, TRUE)) =>
             \E f \in Fds : \E fd \in Pipes(srv, f) :
                srv.script[f].st \in {"exited", "failed"} /\ e = Event(fd, TRUE, TRUE)
      OBVIOUS
    <2> QED BY <2>1, <2>2 DEF Reported
  <1> QED BY <1>1, <1>2

\* An event is known by its descriptor.
Expected(fd) ==
    IF fd \in {Listen, Signal} THEN Event(fd, TRUE, FALSE)
    ELSE IF UpIn(srv, fd)
      THEN IF peer[srv.conn[fd].peer].st = "reset" THEN Event(fd, TRUE, TRUE)
           ELSE IF srv.interest[fd] = "read" THEN Event(fd, TRUE, FALSE)
           ELSE Event(fd, FALSE, TRUE)
    ELSE IF \E f \in Fds : fd \in Pipes(srv, f) /\ srv.script[f].st \in {"exited", "failed"}
      THEN Event(fd, TRUE, TRUE) ELSE Event(fd, TRUE, FALSE)

\* What an event that is readable says of its client.
Sound(e) ==
    /\ e \in PollEvent
    /\ e = Expected(e.fd)
    /\ e.fd \in Fds /\ Up(e.fd) /\ e.readable =>
          \/ peer[srv.conn[e.fd].peer].st = "reset"
          \/ srv.interest[e.fd] = "read" /\ srv.script[e.fd].st = "none"

LEMMA EventFields ==
    ASSUME NEW fd
    PROVE  /\ Event(fd, TRUE, TRUE).fd = fd /\ Event(fd, TRUE, FALSE).fd = fd
           /\ Event(fd, FALSE, TRUE).fd = fd /\ ~Event(fd, FALSE, TRUE).readable
           /\ fd \in Fds \cup {Listen, Signal} =>
                 /\ Event(fd, TRUE, TRUE) \in PollEvent /\ Event(fd, TRUE, FALSE) \in PollEvent
                 /\ Event(fd, FALSE, TRUE) \in PollEvent
  BY DEF Event, PollEvent

LEMMA ReportedOnce ==
    ASSUME IInv, NEW e, Reported(e)
    PROVE  Sound(e)
  <1>1. srv \in Server /\ AllOwned(srv) /\ Sessions(srv, peer)
    BY DEF IInv, TypeOK, AllOwned
  <1>4. Listen \notin Fds /\ Signal \notin Fds
    BY LoopAssumption DEF Listen, Signal
  <1>5. \A f \in Fds : \A fd \in Pipes(srv, f) : fd \in Fds /\ ~UpIn(srv, fd)
    BY <1>1, PipesType DEF AllOwned, Owned, PipesOwned
  <1>6. ASSUME NEW f \in Conns, peer[srv.conn[f].peer].st = "reset", e = Event(f, TRUE, TRUE)
        PROVE  Sound(e)
    <2>1. f \in Fds /\ UpIn(srv, f) /\ f \notin {Listen, Signal}
      BY <1>4 DEF Conns, Up, UpIn
    <2>2. e.fd = f /\ e \in PollEvent
      BY <1>6, <2>1, EventFields
    <2>3. Expected(f) = e
      BY <1>6, <2>1 DEF Expected
    <2> QED BY <1>6, <2>2, <2>3 DEF Sound
  <1>7. ASSUME NEW f \in Conns, peer[srv.conn[f].peer].st # "reset", srv.interest[f] = "read",
               peer[srv.conn[f].peer].sent # "none", e = Event(f, TRUE, FALSE)
        PROVE  Sound(e)
    <2>1. f \in Fds /\ UpIn(srv, f) /\ Session(srv, peer, f) /\ f \notin {Listen, Signal}
      BY <1>1, <1>4 DEF Conns, Up, UpIn, Sessions
    <2>2. srv.script[f].st = "none"
      BY <1>7, <2>1 DEF Session
    <2>3. e.fd = f /\ e \in PollEvent
      BY <1>7, <2>1, EventFields
    <2>4. Expected(f) = e
      BY <1>7, <2>1 DEF Expected
    <2> QED BY <1>7, <2>2, <2>3, <2>4 DEF Sound
  <1>8. ASSUME NEW f \in Conns, peer[srv.conn[f].peer].st = "there", srv.interest[f] = "write",
               e = Event(f, FALSE, TRUE)
        PROVE  Sound(e)
    <2>1. f \in Fds /\ UpIn(srv, f) /\ f \notin {Listen, Signal}
      BY <1>4 DEF Conns, Up, UpIn
    <2>2. e.fd = f /\ e \in PollEvent /\ ~e.readable
      BY <1>8, <2>1, EventFields
    <2>3. Expected(f) = e
      BY <1>8, <2>1 DEF Expected
    <2> QED BY <2>2, <2>3 DEF Sound
  <1>9. ASSUME NEW f \in Fds, srv.script[f].st \notin {"exited", "failed"},
               srv.script[f].wrote > 0, e = Event(srv.script[f].stdout, TRUE, FALSE)
        PROVE  Sound(e)
    <2> DEFINE fd == srv.script[f].stdout
    <2>1. srv.script[f].st # "none"
      BY <1>1, <1>9 DEF AllOwned, PipesOwned, NoScript
    <2>2. fd \in Pipes(srv, f)
      BY <1>1, <2>1 DEF AllOwned, PipesOwned, Pipes
    <2>3. fd \in Fds /\ ~UpIn(srv, fd) /\ fd \notin {Listen, Signal}
      BY <1>4, <1>5, <2>2
    <2>4. ~ \E g \in Fds : fd \in Pipes(srv, g) /\ srv.script[g].st \in {"exited", "failed"}
      BY <1>1, <1>9, <2>2, <2>3 DEF AllOwned, PipesOwned
    <2>5. e = Event(fd, TRUE, FALSE)
      BY <1>9
    <2> HIDE DEF fd
    <2>6. e.fd = fd /\ e \in PollEvent
      BY <2>3, <2>5, EventFields
    <2>7. Expected(fd) = e
      BY <2>3, <2>4, <2>5 DEF Expected
    <2> QED BY <2>3, <2>6, <2>7 DEF Sound, Up, UpIn
  <1>10. ASSUME NEW f \in Fds, NEW fd \in Pipes(srv, f), srv.script[f].st \in {"exited", "failed"},
                e = Event(fd, TRUE, TRUE)
         PROVE  Sound(e)
    <2>1. fd \in Fds /\ ~UpIn(srv, fd) /\ fd \notin {Listen, Signal}
      BY <1>4, <1>5
    <2>2. e.fd = fd /\ e \in PollEvent
      BY <1>10, <2>1, EventFields
    <2>3. Expected(fd) = e
      BY <1>10, <2>1 DEF Expected
    <2> QED BY <2>1, <2>2, <2>3 DEF Sound, Up, UpIn
  <1>11. ASSUME NEW fd \in {Listen, Signal}, e = Event(fd, TRUE, FALSE)
         PROVE  Sound(e)
    <2>1. e.fd = fd /\ e \in PollEvent
      BY <1>11, EventFields
    <2>2. Expected(fd) = e
      BY <1>11 DEF Expected
    <2> QED BY <1>4, <2>1, <2>2 DEF Sound
  <1>12. \/ \E f \in Conns : peer[srv.conn[f].peer].st = "reset" /\ e = Event(f, TRUE, TRUE)
         \/ \E f \in Conns : /\ peer[srv.conn[f].peer].st # "reset"
                              /\ srv.interest[f] = "read"
                              /\ peer[srv.conn[f].peer].sent # "none"
                              /\ e = Event(f, TRUE, FALSE)
         \/ \E f \in Conns : /\ peer[srv.conn[f].peer].st = "there"
                              /\ srv.interest[f] = "write" /\ e = Event(f, FALSE, TRUE)
         \/ \E f \in Fds : /\ srv.script[f].st \notin {"exited", "failed"}
                            /\ srv.script[f].wrote > 0
                            /\ e = Event(srv.script[f].stdout, TRUE, FALSE)
         \/ \E f \in Fds : \E fd \in Pipes(srv, f) :
               srv.script[f].st \in {"exited", "failed"} /\ e = Event(fd, TRUE, TRUE)
         \/ \E fd \in {Listen, Signal} : e = Event(fd, TRUE, FALSE)
    BY DEF Reported
  <1> QED BY <1>6, <1>7, <1>8, <1>9, <1>10, <1>11, <1>12

LEMMA WaitStep ==
    ASSUME IInv, Wait
    PROVE  IInv'
  <1>1. PICK room \in SUBSET Writable :
           \E E \in kSubset(Min({MaxEvents, Cardinality(Ready \cup room)}), Ready \cup room) :
              batch' \in SetToSeqs(E)
    BY DEF Wait
  <1>2. PICK E \in kSubset(Min({MaxEvents, Cardinality(Ready \cup room)}), Ready \cup room) :
           batch' \in SetToSeqs(E)
    BY <1>1
  <1>3. \A e \in E : Sound(e)
    <2>1. E \subseteq Ready \cup Writable
      BY <1>1, <1>2 DEF kSubset
    <2>2. \A e \in E : Reported(e)
      BY <2>1, ReadyIsReported
    <2> QED BY <2>2, ReportedOnce
  <1>4. IsFiniteSet(E)
    <2> DEFINE T == Fds \cup {Listen, Signal}
               fd == [e \in E |-> e.fd]
    <2>1. IsFiniteSet(T)
      <3>1. IsFiniteSet({Listen, Signal})
        <4>1. IsFiniteSet({Listen}) /\ IsFiniteSet({Signal})
          BY FS_Singleton
        <4>2. {Listen, Signal} = {Listen} \cup {Signal}
          OBVIOUS
        <4> QED BY ZenonT(40), <4>1, <4>2, FS_Union
      <3> QED BY <3>1, LoopAssumption, FS_Union
    <2>2. fd \in [E -> T]
      BY <1>3 DEF Sound, PollEvent
    <2>3. \A a, b \in E : fd[a] = fd[b] => a = b
      <3>1. \A a \in E : fd[a] = a.fd /\ a = Expected(a.fd)
        BY <1>3 DEF Sound
      <3> QED BY <3>1, Zenon
    <2>4. fd \in Injection(E, T)
      BY <2>2, <2>3 DEF Injection, IsInjective
    <2> HIDE DEF fd, T
    <2> QED BY <2>1, <2>4, FS_Injection
  <1> DEFINE n == Cardinality(E)
  <1>5. n \in Nat
    BY <1>4, FS_CardinalityType
  <1>6. /\ batch' \in [1 .. n -> E]
        /\ \A i, j \in 1 .. n : i # j => batch'[i] # batch'[j]
    BY <1>2 DEF SetToSeqs
  <1> HIDE DEF n
  <1>7. DOMAIN batch' = 1 .. n /\ \A i \in 1 .. n : batch'[i] \in E
    BY <1>6
  <1>8. batch' \in Seq(PollEvent)
    BY <1>3, <1>5, <1>6, <1>7 DEF Sound
  <1>9. BatchOnce'
    <2>1. \A i, j \in 1 .. n : batch'[i].fd = batch'[j].fd => batch'[i] = batch'[j]
      <3>1. \A a \in E : a = Expected(a.fd)
        BY <1>3 DEF Sound
      <3> QED BY <1>7, <3>1, Zenon
    <2> QED BY <1>6, <1>7, <2>1 DEF BatchOnce
  <1>10. UNCHANGED <<srv, peer, sigchld>> /\ phase' = "dispatch"
    BY DEF Wait
  <1>11. Readables'
    BY <1>3, <1>7, <1>10 DEF Sound, Readables, Up
  <1> QED BY <1>8, <1>9, <1>10, <1>11
        DEF IInv, TypeOK, Owned, FilesOwned, PipesOwned, Sessions, Session, UpIn, Pipes

-----------------------------------------------------------------------------
(* The invariant holds initially, of every step, and implies the rest.     *)

\* A server that has just started (main), and nobody connected to it.
LEMMA NewServerHolds ==
    ASSUME NEW s, s = NewServer, NEW pr,
           \A p \in Peers : /\ pr[p].st = "away" /\ pr[p].sent = "none"
                            /\ ~pr[p].waiting /\ pr[p].due = 0
    PROVE  s \in Server /\ AllOwned(s) /\ Sessions(s, pr)
  <1>1. /\ s \in Server
        /\ \A f \in Fds : /\ s.desc[f] = "free" /\ s.interest[f] = "none"
                          /\ s.conn[f] = NoConn /\ s.script[f] = NoScript
    BY NoConnType DEF NewServer, Server
  <1>2. NoConn.peer = NoPeer /\ NoConn.file_fd = NoFd
    BY DEF NoConn
  <1>3. NoScript.st = "none" /\ NoScript.stdout = NoFd /\ NoScript.stderr = NoFd
    BY DEF NoScript
  <1>4. \A f \in Fds : ~UpIn(s, f) /\ Pipes(s, f) = {}
    BY <1>1, <1>2, <1>3 DEF UpIn, Pipes
  <1>5. Owned(s)
    BY <1>1, <1>4 DEF Owned
  <1>6. FilesOwned(s)
    BY <1>1, <1>2 DEF FilesOwned
  <1>7. PipesOwned(s)
    BY <1>1, <1>3, <1>4 DEF PipesOwned
  <1>8. Sessions(s, pr)
    BY <1>4 DEF Sessions, Patient
  <1> QED BY <1>1, <1>5, <1>6, <1>7, <1>8 DEF AllOwned

LEMMA NoBatch ==
    ASSUME batch = <<>>
    PROVE  BatchOnce /\ Readables /\ batch \in Seq(PollEvent)
  BY DEF BatchOnce, Readables

LEMMA InitHolds == Init => IInv
  <1> SUFFICES ASSUME Init PROVE IInv
    OBVIOUS
  <1>1. /\ peer \in [Peers -> Peer]
        /\ \A p \in Peers : /\ peer[p].st = "away" /\ peer[p].sent = "none"
                            /\ ~peer[p].waiting /\ peer[p].due = 0
    BY LoopAssumption DEF Init, Peer
  <1>2. srv = NewServer /\ sigchld = FALSE /\ batch = <<>> /\ phase = "wait"
    BY DEF Init
  <1>3. srv \in Server /\ AllOwned(srv) /\ Sessions(srv, peer)
    BY <1>1, <1>2, NewServerHolds
  <1>4. BatchOnce /\ Readables /\ batch \in Seq(PollEvent)
    BY <1>2, NoBatch
  <1>5. TypeOK
    <2>1. FALSE \in BOOLEAN
      OBVIOUS
    <2> QED BY <1>1, <1>2, <1>3, <1>4, <2>1 DEF TypeOK
  <1> QED BY <1>3, <1>4, <1>5 DEF IInv, AllOwned

\* The server ends, and with it every connection, and is started anew.
LEMMA AcceptFailsStep ==
    ASSUME IInv, AcceptFails
    PROVE  IInv'
  <1>1. /\ srv' = NewServer /\ sigchld' = FALSE /\ batch' = <<>> /\ phase' = "wait"
        /\ peer' = [p \in Peers |-> [peer[p] EXCEPT !.st = "away", !.sent = "none",
                                                    !.waiting = FALSE, !.due = 0]]
    BY DEF AcceptFails
  <1>2. /\ peer' \in [Peers -> Peer]
        /\ \A p \in Peers : /\ peer'[p].st = "away" /\ peer'[p].sent = "none"
                            /\ ~peer'[p].waiting /\ peer'[p].due = 0
    <2>1. \A p \in Peers : peer[p] \in Peer
      BY DEF IInv, TypeOK
    <2>2. \A p \in Peers : LET c == [peer[p] EXCEPT !.st = "away", !.sent = "none",
                                                    !.waiting = FALSE, !.due = 0]
                           IN  c \in Peer /\ c.st = "away" /\ c.sent = "none"
                               /\ ~c.waiting /\ c.due = 0
      BY <2>1 DEF Peer
    <2> QED BY <1>1, <2>2
  <1>3. srv' \in Server /\ AllOwned(srv') /\ Sessions(srv', peer')
    <2> DEFINE s == srv'
               pr == peer'
    <2>1. s = NewServer /\ \A p \in Peers : /\ pr[p].st = "away" /\ pr[p].sent = "none"
                                             /\ ~pr[p].waiting /\ pr[p].due = 0
      BY <1>1, <1>2
    <2> HIDE DEF s, pr
    <2>2. s \in Server /\ AllOwned(s) /\ Sessions(s, pr)
      BY <2>1, NewServerHolds
    <2> QED BY <2>2 DEF s, pr
  <1>4. BatchOnce' /\ Readables' /\ batch' \in Seq(PollEvent)
    <2>1. batch' \in Seq(PollEvent) /\ DOMAIN batch' = 1 .. Len(batch') /\ Len(batch') = 0
      <3> DEFINE b == batch'
      <3>1. b = <<>>
        BY <1>1
      <3> HIDE DEF b
      <3>2. b \in Seq(PollEvent) /\ DOMAIN b = 1 .. Len(b) /\ Len(b) = 0
        BY <3>1
      <3> QED BY <3>2 DEF b
    <2> QED BY <2>1 DEF BatchOnce, Readables
  <1> QED BY <1>1, <1>2, <1>3, <1>4 DEF IInv, TypeOK, AllOwned

LEMMA EventStep ==
    ASSUME IInv, NEW f \in Fds, HandleEvent(f)
    PROVE  IInv'
  BY HandleStdoutStep, HandleStderrStep, ReadClientStep, ClientWriteStep, IgnoreStep
     DEF HandleEvent

LEMMA RunStep ==
    ASSUME IInv, Run
    PROVE  IInv'
  BY WaitStep, HandleSignalPipeStep, NewConnectionStep, AcceptFailsStep, SweepStep,
     EventStep DEF Run

LEMMA EnvironmentStep ==
    ASSUME IInv, Environment
    PROVE  IInv'
  BY PeersStep, ScriptsStep DEF Environment

LEMMA StutterStep ==
    ASSUME IInv, UNCHANGED vars
    PROVE  IInv'
  BY SMTT(30) DEF vars, IInv, TypeOK, Owned, FilesOwned, PipesOwned, Sessions, Session, Patient, UpIn,
         Pipes, BatchOnce, Readables, Up

LEMMA IInvIsInductive == IInv /\ [Next]_vars => IInv'
  BY RunStep, EnvironmentStep, StutterStep DEF Next

\* What holds in every state of the event loop: each descriptor has its owner,
\* each connection and its peer agree on what is due, and no batch names a
\* descriptor twice or a client that is being answered as readable.
THEOREM InvariantHolds == Spec => []IInv
  BY InitHolds, IInvIsInductive, PTL DEF Spec

\* Every table of the server and every count keep their types (TypeOK).
THEOREM TypeCorrect == Spec => []TypeOK
  <1>1. IInv => TypeOK
    BY DEF IInv
  <1> QED BY <1>1, InvariantHolds, PTL

\* However many descriptors there are and whatever numbers are reused, each
\* open one is owned by one entry of the server's tables and each entry owns open
\* ones, but for the pipe ends a launch without the six descriptors it needs
\* loses: those are nobody's, watched by nobody, and the only leak
\* (close_client, reset_static_file_stream, cleanupProcess, launch).
THEOREM OwnsDescriptors == Spec => []DescriptorsOwned
  <1>1. ASSUME IInv PROVE DescriptorsOwned
    <2> DEFINE files == {f \in Conns : srv.conn[f].file_fd # NoFd}
               scripts == {f \in Fds : srv.script[f].st # "none"}
    <2>1. srv \in Server /\ Owned(srv) /\ FilesOwned(srv) /\ PipesOwned(srv)
      BY <1>1 DEF IInv, TypeOK
    <2>2. \A f \in Fds : f \in Conns <=> UpIn(srv, f)
      BY DEF Conns, Up, UpIn
    <2>3. {f \in Fds : srv.desc[f] = "client"} = Conns
      BY <2>1, <2>2 DEF Owned, Conns
    <2>4. {f \in Fds : srv.desc[f] = "file"} = {srv.conn[f].file_fd : f \in files}
      <3>1. \A f \in files : /\ srv.conn[f].file_fd \in Fds
                             /\ srv.desc[srv.conn[f].file_fd] = "file"
        BY <2>1 DEF FilesOwned, Conns, Server, ClientCon
      <3>2. \A d \in Fds : srv.desc[d] = "file" => \E f \in files : srv.conn[f].file_fd = d
        BY <2>1, <2>2, NoFdClosed DEF FilesOwned
      <3> QED BY <3>1, <3>2
    <2>5. \A f, g \in files : srv.conn[f].file_fd = srv.conn[g].file_fd => f = g
      BY <2>1 DEF FilesOwned, Conns
    <2>6. {f \in Fds : srv.desc[f] = "pipe"} = UNION {Pipes(srv, f) : f \in scripts}
      <3>1. \A f \in Fds : Pipes(srv, f) # {} => f \in scripts
        BY <2>1 DEF PipesOwned, Pipes, NoScript
      <3>2. \A f \in scripts : Pipes(srv, f) \subseteq Fds
        BY <2>1, PipesType
      <3> QED BY <2>1, <3>1, <3>2 DEF PipesOwned
    <2>7. \A f, g \in scripts : Pipes(srv, f) \cap Pipes(srv, g) # {} => f = g
      <3>1. \A f \in scripts : Pipes(srv, f) \subseteq Fds
        BY <2>1, PipesType
      <3> QED BY <2>1, <3>1 DEF PipesOwned
    <2>8. \A f \in scripts : Up(f) /\ srv.conn[f].cgi_active
      BY <2>1, <2>2 DEF PipesOwned, Conns
    <2> QED BY <2>1, <2>3, <2>4, <2>5, <2>6, <2>7, <2>8 DEF DescriptorsOwned, Owned
  <1> QED BY <1>1, InvariantHolds, PTL

\* A kept connection owes nothing of the last answer when the server listens
\* for the next request (write_static_file_chunk, finalize_response_write).
THEOREM ListensAfterWholeAnswer == Spec => []NextRequestAfterWholeAnswer
  <1>1. ASSUME IInv PROVE NextRequestAfterWholeAnswer
    <2> SUFFICES ASSUME NEW f \in Conns, srv.interest[f] = "read", ~srv.conn[f].cgi_active
                 PROVE  LET k == srv.conn[f] IN
                        peer[k.peer].due = 0 /\ ~k.res_ready /\ k.out = 0 /\ k.file_fd = NoFd
      BY <1>1 DEF NextRequestAfterWholeAnswer, IInv
    <2>1. f \in Fds /\ UpIn(srv, f)
      BY DEF Conns, Up, UpIn
    <2>2. Session(srv, peer, f) /\ srv.conn[f] \in ClientCon
      BY <1>1, <2>1 DEF IInv, TypeOK, Sessions, Server
    <2> QED BY <2>2 DEF Session, ClientCon
  <1> QED BY <1>1, InvariantHolds, PTL

\* No socket is watched for room with nothing to send, and none is left
\* unwatched but by a script that runs (client_write, cleanupProcess).
THEOREM WatchesWithReason == Spec => []WatchedWithReason
  <1>1. ASSUME IInv PROVE WatchedWithReason
    <2> SUFFICES ASSUME NEW f \in Conns
                 PROVE  /\ srv.interest[f] = "write" => srv.conn[f].res_ready
                        /\ srv.interest[f] = "off" =>
                              srv.conn[f].cgi_active /\ srv.script[f].st # "none"
      BY DEF WatchedWithReason
    <2>1. f \in Fds /\ UpIn(srv, f)
      BY DEF Conns, Up, UpIn
    <2>2. Session(srv, peer, f) /\ PipesOwned(srv)
      BY <1>1, <2>1 DEF IInv, Sessions
    <2> QED BY <2>1, <2>2 DEF Session, PipesOwned, NoScript
  <1> QED BY <1>1, InvariantHolds, PTL

=============================================================================
