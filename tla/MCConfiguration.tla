-------------------------- MODULE MCConfiguration ---------------------------
(* Small instances of Configuration for TLC: the factors of the units and   *)
(* the width of size_t are scaled down, values stand on both sides of every *)
(* limit.                                                                   *)
EXTENDS Configuration

MCSizeUnits == [none |-> 1, K |-> 4, M |-> 16, G |-> 64]
MCTimeUnits == [ms |-> 1, s |-> 3, m |-> 12]

Value(n, unit) == [n |-> n, unit |-> unit]
Address(ip, port) == [ip |-> ip, port |-> port]

\* Three addresses on one port, one of them for all interfaces, one on another.
MCServerValues ==
    [listen |-> {Address("any", 80), Address("lo", 80), Address("eth", 80), Address("lo", 81)},
     root |-> {"www", "pub", "none"}, index |-> {"home"},
     client_max_body_size |-> {Value(0, "none"), Value(3, "G"), Value(4, "G"), Value(256, "none")},
     timeout |-> {Value(0, "s"), Value(1, "ms"), Value(20, "m"), Value(21, "m")},
     cgi_timeout |-> {Value(0, "ms"), Value(7, "s"), Value(85, "s"), Value(86, "s")},
     cgi_idle_timeout |-> {Value(1, "ms"), Value(240, "ms"), Value(241, "ms")}]

MCLocationValues ==
    [root |-> {"www", "pub", "none"}, index |-> {"home"},
     client_max_body_size |-> {Value(2, "K"), Value(16, "M")},
     upload_path |-> {"pub", "none"}, return |-> {"www", "pub"}]

\* What belongs together: several servers differ in their addresses, servers
\* with limits have locations with limits, the others have directories.
Limits == {"client_max_body_size", "timeout", "cgi_timeout", "cgi_idle_timeout"}

MCTogether ==
    LET reading == block \in {"server", "location"}
        locations == serv.locations \o (IF block = "location" THEN <<loc>> ELSE <<>>)
        about == {DOMAIN b.said : b \in {serv} \cup Range(locations)}
    IN  /\ Len(servers) + (IF reading THEN 1 ELSE 0) > 1 =>
             \A s \in Range(servers) \cup {serv} :
               DOMAIN s.said \subseteq {"listen", "root"} /\ locations \o s.locations = <<>>
        /\ \/ (UNION about) \cap Limits = {}
           \/ /\ Len(locations) <= 1
              /\ \A l \in Range(locations) : DOMAIN l.said \subseteq Limits
              /\ "index" \notin DOMAIN serv.said /\ serv.root \in {NoPath, "www"}
              /\ serv.listen_port \in {<<>>, <<Address("any", 80)>>}
        /\ locations # <<>> => serv.listen_port \in {<<>>, <<Address("any", 80)>>}
=============================================================================
