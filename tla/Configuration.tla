--------------------------- MODULE Configuration ----------------------------
(***************************************************************************)
(* How CatSurf comes up (tools/src/configParser, Server::init): the file   *)
(* is read one directive at a time into servers and locations, a location  *)
(* taking over what its server has said so far; then every address gets a  *)
(* listening socket.  Whatever is wrong ends the program.                  *)
(*                                                                         *)
(* A directive is its name and its value; how lines are cut into words,    *)
(* and directives no other directive or limit depends on (error_page,      *)
(* server_name, allow_methods, autoindex, botdetect, the cgi_ paths, the   *)
(* global ones), are left out.  A path stands for what resolveConfigPath   *)
(* makes of it.  Numbers are as written, with the factors of their units.  *)
(***************************************************************************)
EXTENDS Integers, Sequences, SequencesExt

CONSTANTS
    ServerValues,      \* what may follow each directive of a server block
    LocationValues,    \* and of a location block
    Paths, NoPath,     \* resolved paths
    Directories,       \* those that are directories
    AnyAddress,        \* INADDR_ANY
    DefaultIndex,      \* "index.html"
    SizeUnits,         \* factors: none, "K", "M", "G"
    TimeUnits,         \* factors, in milliseconds: "ms", "s" (or none), "m"
    Day,               \* 24 hours in milliseconds
    SizeMax,           \* std::numeric_limits<size_t>::max()
    MaxServers, MaxLocations    \* bounds: blocks

ASSUME ConfigurationAssumption ==
    /\ NoPath \notin Paths /\ Directories \subseteq Paths
    /\ SizeUnits \in [{"none", "K", "M", "G"} -> Nat \ {0}]
    /\ TimeUnits \in [{"ms", "s", "m"} -> Nat \ {0}]
    /\ {Day, SizeMax, MaxServers, MaxLocations} \subseteq Nat
    /\ DOMAIN ServerValues \subseteq {"listen", "root", "index", "client_max_body_size",
                                      "timeout", "cgi_timeout", "cgi_idle_timeout"}
    /\ DOMAIN LocationValues \subseteq {"root", "index", "client_max_body_size",
                                        "upload_path", "return"}
    /\ \A values \in {ServerValues, LocationValues} :
         \A key \in DOMAIN values : \A v \in values[key] :
             /\ key = "root" => v \in Paths
             /\ key = "client_max_body_size" => v \in [n : Nat, unit : DOMAIN SizeUnits]
             /\ key \in {"timeout", "cgi_timeout", "cgi_idle_timeout"} =>
                  v \in [n : Nat, unit : DOMAIN TimeUnits]
    /\ 60 * TimeUnits["s"] <= Day    \* the client's timeout, if none is written

VARIABLES
    block,      \* what is being read: "outside", "server", "location"; then
                \* "parsed", "serving"; "refused" after an exception
    serv,       \* the server being read
    loc,        \* the location being read
    servers,    \* those that have been read
    sockets,    \* listen_sockets: their addresses
    at          \* where the loops of init() stand: a server, one of its addresses

vars == <<block, serv, loc, servers, sockets, at>>

Second == TimeUnits["s"]

\* said: the directives there have been (duplicateCheck), with their values.
NewServer ==
    [listen_port |-> <<>>, root |-> NoPath, index |-> DefaultIndex,
     client_max_body_size |-> SizeUnits["M"], timeout |-> 60, cgi_timeout |-> 30 * Second,
     cgi_idle_timeout |-> 5 * Second, locations |-> <<>>, said |-> <<>>]

\* A location starts with what its server has at that point.
LocationDefaults(path) ==
    [path |-> path, root |-> serv.root, index |-> serv.index,
     client_max_body_size |-> serv.client_max_body_size, upload_path |-> NoPath,
     return |-> NoPath, said |-> <<>>]

Init ==
    /\ block = "outside" /\ servers = <<>> /\ sockets = <<>> /\ at = <<1, 1>>
    /\ serv = NewServer /\ loc = LocationDefaults(NoPath)

-----------------------------------------------------------------------------
(* Values.                                                                 *)

Fits(v, factor) == v.n <= SizeMax /\ v.n <= SizeMax \div factor

\* Variant: the product is not looked at.
IsSizeUnchecked(v) == v.n <= SizeMax

IsSize(v) == Fits(v, SizeUnits[v.unit])

ParseSize(v) == (v.n * SizeUnits[v.unit]) % (SizeMax + 1)

\* Variant: zero is a time.
IsTimeOrZero(v) == Fits(v, TimeUnits[v.unit]) /\ v.n * TimeUnits[v.unit] <= Day

IsTime(v) == /\ v.n # 0
             /\ Fits(v, TimeUnits[v.unit])
             /\ v.n * TimeUnits[v.unit] <= Day

ParseTime(v) == (v.n * TimeUnits[v.unit]) % (SizeMax + 1)

\* The client's timeout is in whole seconds, and not less than one.
InSeconds(duration) == IF duration < Second THEN 1 ELSE duration \div Second

ValidateType(key, value) ==
    CASE key = "client_max_body_size" -> IsSize(value)
      [] key \in {"timeout", "cgi_timeout", "cgi_idle_timeout"} -> IsTime(value)
      [] OTHER -> TRUE

Say(said, key, value) ==
    [k \in DOMAIN said \cup {key} |-> IF k = key THEN value ELSE said[k]]

\* Variant: a directive may come twice.
RepeatedNever(said, key) == FALSE

Repeated(said, key) == key \in DOMAIN said

-----------------------------------------------------------------------------
(* Reading.                                                                *)

Refuse == block' = "refused" /\ UNCHANGED <<serv, loc, servers, sockets, at>>

\* Anything a line of the file may have wrong by itself, and its early end.
Malformed == block \in {"outside", "server", "location"} /\ Refuse

OpenServer ==
    /\ block = "outside" /\ Len(servers) < MaxServers
    /\ block' = "server" /\ serv' = NewServer
    /\ UNCHANGED <<loc, servers, sockets, at>>

SetServerDirective(key, value) ==
    LET s == [serv EXCEPT !.said = Say(@, key, value)]
    IN  CASE key = "listen"               -> [s EXCEPT !.listen_port = Append(@, value)]
          [] key = "root"                 -> [s EXCEPT !.root = value]
          [] key = "index"                -> [s EXCEPT !.index = value]
          [] key = "client_max_body_size" -> [s EXCEPT !.client_max_body_size = ParseSize(value)]
          [] key = "timeout"              -> [s EXCEPT !.timeout = InSeconds(ParseTime(value))]
          [] key = "cgi_timeout"          -> [s EXCEPT !.cgi_timeout = ParseTime(value)]
          [] key = "cgi_idle_timeout"     -> [s EXCEPT !.cgi_idle_timeout = ParseTime(value)]

ServerDirective(key, value) ==
    /\ block = "server"
    /\ IF Repeated(serv.said, key) \/ ~ValidateType(key, value) THEN Refuse
       ELSE /\ serv' = SetServerDirective(key, value)
            /\ UNCHANGED <<block, loc, servers, sockets, at>>

OpenLocation(path) ==
    /\ block = "server" /\ Len(serv.locations) < MaxLocations
    /\ block' = "location" /\ loc' = LocationDefaults(path)
    /\ UNCHANGED <<serv, servers, sockets, at>>

SetLocDirective(key, value) ==
    LET l == [loc EXCEPT !.said = Say(@, key, value)]
    IN  CASE key = "root"                 -> [l EXCEPT !.root = value]
          [] key = "index"                -> [l EXCEPT !.index = value]
          [] key = "client_max_body_size" -> [l EXCEPT !.client_max_body_size = ParseSize(value)]
          [] key = "upload_path"          -> [l EXCEPT !.upload_path = value]
          [] key = "return"               -> [l EXCEPT !.return = value]

LocationDirective(key, value) ==
    /\ block = "location"
    /\ IF Repeated(loc.said, key) \/ ~ValidateType(key, value) THEN Refuse
       ELSE /\ loc' = SetLocDirective(key, value)
            /\ UNCHANGED <<block, serv, servers, sockets, at>>

\* Variant: the upload directory is looked for when it is first used.
LocationHoldsLate(l) == l.root \in Directories \cup {NoPath} /\ l.return # l.path

\* What a location's end asks for; a root may still be to come, in the server.
LocationHolds(l) ==
    /\ l.root \in Directories \cup {NoPath}
    /\ l.upload_path \in Directories \cup {NoPath}
    /\ l.return = NoPath \/ l.return # l.path

CloseLocation ==
    /\ block = "location"
    /\ IF ~LocationHolds(loc) THEN Refuse
       ELSE /\ block' = "server"
            /\ serv' = [serv EXCEPT !.locations = Append(@, loc)]
            /\ UNCHANGED <<loc, servers, sockets, at>>

CloseServer ==
    /\ block = "server"
    /\ IF serv.listen_port = <<>> \/ serv.root \notin Directories THEN Refuse
       ELSE /\ block' = "outside" /\ servers' = Append(servers, serv)
            /\ UNCHANGED <<serv, loc, sockets, at>>

EndOfFile ==
    /\ block = "outside"
    /\ IF servers = <<>> THEN Refuse
       ELSE block' = "parsed" /\ UNCHANGED <<serv, loc, servers, sockets, at>>

-----------------------------------------------------------------------------
(* Server::init.                                                           *)

\* Variant: servers on one port share its socket, whatever the address.
ServedPort(address) == \E i \in DOMAIN sockets : sockets[i].port = address.port

\* A socket there is serves every server with the same address.
Served(address) == \E i \in DOMAIN sockets : sockets[i] = address

\* The kernel takes one socket for an address, and none beside one for all.
Bindable(address) ==
    \A i \in DOMAIN sockets : sockets[i].port = address.port =>
        sockets[i].ip # address.ip /\ AnyAddress \notin {sockets[i].ip, address.ip}

\* One address of one server; bind() may also fail because another program
\* has the address.
Listen ==
    /\ block = "parsed" /\ at[1] \in DOMAIN servers
    /\ LET ports == servers[at[1]].listen_port
           address == ports[at[2]]
       IN  \/ /\ sockets' = IF Served(address) THEN sockets ELSE Append(sockets, address)
              /\ Served(address) \/ Bindable(address)
              /\ at' = IF at[2] < Len(ports) THEN <<at[1], at[2] + 1>> ELSE <<at[1] + 1, 1>>
              /\ UNCHANGED <<block, serv, loc, servers>>
           \/ ~Served(address) /\ Refuse

Serve ==
    /\ block = "parsed" /\ at[1] > Len(servers)
    /\ block' = "serving" /\ UNCHANGED <<serv, loc, servers, sockets, at>>

Next ==
    \/ Malformed \/ OpenServer \/ CloseServer \/ CloseLocation \/ EndOfFile \/ Listen \/ Serve
    \/ \E key \in DOMAIN ServerValues : \E value \in ServerValues[key] :
         ServerDirective(key, value)
    \/ \E path \in Paths : OpenLocation(path)
    \/ \E key \in DOMAIN LocationValues : \E value \in LocationValues[key] :
         LocationDirective(key, value)

Spec == Init /\ [][Next]_vars

-----------------------------------------------------------------------------
(* Router::mapURI's choice of a root.                                      *)

EffectiveRoot(s, l) == IF l.root # NoPath THEN l.root ELSE s.root

-----------------------------------------------------------------------------
(* Properties.                                                             *)

Serving(P(_)) == block = "serving" => \A i \in DOMAIN servers : P(servers[i])

\* Types; and each server that has been read listens on one address, though it
\* keeps a list of them (duplicateCheck).
TypeOK ==
    /\ block \in {"outside", "server", "location", "parsed", "serving", "refused"}
    /\ \A s \in Range(servers) \cup {serv} :
         /\ s.root \in Paths \cup {NoPath} /\ Len(s.locations) <= MaxLocations
         /\ {s.client_max_body_size, s.timeout, s.cgi_timeout, s.cgi_idle_timeout} \subseteq Nat
    /\ Len(servers) <= MaxServers
    /\ \A s \in Range(servers) : Len(s.listen_port) = 1
    /\ block \notin {"parsed", "serving", "refused"} => sockets = <<>>

\* The root of a location is the one it names, else its server's, wherever in
\* the block the server names it; and a server that has come up finds it, and
\* every upload directory (parseServer, parseLocation, setLocationDefaults,
\* mapURI).  Routing assumes this.
RootsAreThere ==
    Serving(LAMBDA s : \A i \in DOMAIN s.locations :
        LET l == s.locations[i] IN
        /\ EffectiveRoot(s, l) = IF "root" \in DOMAIN l.said THEN l.said.root ELSE s.said.root
        /\ EffectiveRoot(s, l) \in Directories
        /\ l.upload_path \in Directories \cup {NoPath})

\* No server comes up with a timeout switched off, over 24 hours, or cut to
\* nothing by rounding or by the width of size_t: CgiManager and EventLoop rely
\* on both of a script's timeouts and on the client's. And a limit on bodies is
\* the number that was written, not what is left of it after it has wrapped
\* around (isTime, parseTime, isSize, parseSize).
LimitsInForce ==
    Serving(LAMBDA s :
        /\ s.timeout \in 1 .. Day \div Second
        /\ \A key \in {"cgi_timeout", "cgi_idle_timeout"} :
             /\ s[key] \in 1 .. Day
             /\ key \in DOMAIN s.said =>
                  s[key] = s.said[key].n * TimeUnits[s.said[key].unit]
        /\ \A b \in {s} \cup Range(s.locations) :
             "client_max_body_size" \in DOMAIN b.said =>
               LET v == b.said.client_max_body_size
               IN  b.client_max_body_size = v.n * SizeUnits[v.unit])

\* Every address a server is to listen on has one socket, which servers with
\* the same address share, and no other address has one (init).
EveryServerListens ==
    /\ TypeOK
    /\ Serving(LAMBDA s : \A i \in DOMAIN s.listen_port :
           \E j \in DOMAIN sockets : sockets[j] = s.listen_port[i])
    /\ \A i, j \in DOMAIN sockets : sockets[i] = sockets[j] => i = j
    /\ \A j \in DOMAIN sockets : \E i \in DOMAIN servers :
           \E k \in DOMAIN servers[i].listen_port : servers[i].listen_port[k] = sockets[j]
=============================================================================
