------------------------ MODULE ConfigurationProofs -------------------------
(* Proofs about Configuration, for every set of values the directives may   *)
(* have, every width of size_t and any number of blocks.                    *)
EXTENDS Configuration, TLAPS, SequenceTheorems

-----------------------------------------------------------------------------
(* Types.                                                                  *)

\* What may follow a directive.
ServersValues == UNION {ServerValues[k] : k \in DOMAIN ServerValues}
LocationsValues == UNION {LocationValues[k] : k \in DOMAIN LocationValues}
Values == ServersValues \cup LocationsValues

Keys == DOMAIN ServerValues \cup DOMAIN LocationValues

Said == UNION {[D -> Values] : D \in SUBSET Keys}

LocationType ==
    [path : Paths \cup {NoPath}, root : Paths \cup {NoPath}, index : Values \cup {DefaultIndex},
     client_max_body_size : Nat, upload_path : Values \cup {NoPath},
     return : Values \cup {NoPath}, said : Said]

ServerType ==
    [listen_port : Seq(Values), root : Paths \cup {NoPath}, index : Values \cup {DefaultIndex},
     client_max_body_size : Nat, timeout : Nat, cgi_timeout : Nat, cgi_idle_timeout : Nat,
     locations : Seq(LocationType), said : Said]

Types ==
    /\ block \in {"outside", "server", "location", "parsed", "serving", "refused"}
    /\ serv \in ServerType /\ loc \in LocationType /\ servers \in Seq(ServerType)

-----------------------------------------------------------------------------
(* What has been read so far.                                              *)

SizeAsSaid(b) ==
    "client_max_body_size" \in DOMAIN b.said =>
        /\ b.said.client_max_body_size \in [n : Nat, unit : DOMAIN SizeUnits]
        /\ b.client_max_body_size =
             b.said.client_max_body_size.n * SizeUnits[b.said.client_max_body_size.unit]

RootSaid(b) == "root" \in DOMAIN b.said => b.said.root \in Paths

\* A location of the server s, which may go on.
LocationRead(s, l) ==
    /\ RootSaid(l) /\ SizeAsSaid(l)
    /\ IF "root" \in DOMAIN l.said THEN l.root = l.said.root
       ELSE l.root = NoPath \/ ("root" \in DOMAIN s.said /\ l.root = s.said.root)

TimesInForce(s) ==
    /\ s.timeout \in 1 .. Day \div Second
    /\ \A key \in {"cgi_timeout", "cgi_idle_timeout"} :
         /\ s[key] \in 1 .. Day
         /\ key \in DOMAIN s.said => s[key] = s.said[key].n * TimeUnits[s.said[key].unit]

LocationsRead(s) ==
    \A i \in DOMAIN s.locations :
        LocationRead(s, s.locations[i]) /\ LocationHolds(s.locations[i])

\* A server, which may go on.
ServerRead(s) ==
    /\ RootSaid(s) /\ SizeAsSaid(s) /\ TimesInForce(s) /\ LocationsRead(s)
    /\ s.root = IF "root" \in DOMAIN s.said THEN s.said.root ELSE NoPath
    /\ Len(s.listen_port) = IF "listen" \in DOMAIN s.said THEN 1 ELSE 0
    /\ Len(s.locations) <= MaxLocations

ServerClosed(s) == ServerRead(s) /\ s.root \in Directories /\ Len(s.listen_port) = 1

\* The sockets there are, and the loops of init() so far: a server has one
\* address, the first of its list.
Listening ==
    /\ sockets \in Seq(Values) /\ at \in (Nat \ {0}) \X {1}
    /\ block \notin {"parsed", "serving", "refused"} => sockets = <<>> /\ at[1] = 1
    /\ \A i, j \in DOMAIN sockets : sockets[i] = sockets[j] => i = j
    /\ \A j \in DOMAIN sockets :
         \E i \in DOMAIN servers : servers[i].listen_port[1] = sockets[j]
    /\ \A i \in DOMAIN servers :
         i < at[1] => \E j \in DOMAIN sockets : sockets[j] = servers[i].listen_port[1]
    /\ block = "serving" => at[1] > Len(servers)

\* The inductive invariant.
IInv ==
    /\ Types
    /\ ServerRead(serv)
    /\ block = "location" => LocationRead(serv, loc) /\ Len(serv.locations) < MaxLocations
    /\ \A i \in DOMAIN servers : ServerClosed(servers[i])
    /\ Len(servers) <= MaxServers
    /\ block \in {"server", "location"} => Len(servers) < MaxServers
    /\ Listening

-----------------------------------------------------------------------------
(* Values.                                                                 *)

LEMMA DivisionGrows ==
    ASSUME NEW a \in Nat, NEW b \in Nat, NEW s \in Nat \ {0}, a <= b
    PROVE  a \div s <= b \div s
BY SMT

LEMMA Fitting ==
    ASSUME NEW n \in Nat, NEW m \in Nat, NEW f \in Nat \ {0}, n <= m \div f
    PROVE  n * f \in Nat /\ (n * f) % (m + 1) = n * f
<1>1. n * f \in Nat /\ n * f <= m
  BY SMT
<1>2. QED
  BY <1>1, SMT

\* A size that is accepted is kept as it is written.
LEMMA SizeKept ==
    ASSUME NEW v \in [n : Nat, unit : DOMAIN SizeUnits], IsSize(v)
    PROVE  ParseSize(v) \in Nat /\ ParseSize(v) = v.n * SizeUnits[v.unit]
<1>1. SizeUnits[v.unit] \in Nat \ {0} /\ v.n \in Nat /\ SizeMax \in Nat
  BY ConfigurationAssumption
<1>2. v.n <= SizeMax \div SizeUnits[v.unit]
  BY DEF IsSize, Fits
<1>3. QED
  BY <1>1, <1>2, Fitting DEF ParseSize

\* A time that is accepted is kept as it is written, and in force.
LEMMA TimeKept ==
    ASSUME NEW v \in [n : Nat, unit : DOMAIN TimeUnits], IsTime(v)
    PROVE  /\ ParseTime(v) = v.n * TimeUnits[v.unit]
           /\ ParseTime(v) \in 1 .. Day
           /\ InSeconds(ParseTime(v)) \in 1 .. Day \div Second
<1>1. /\ TimeUnits[v.unit] \in Nat \ {0} /\ Second \in Nat \ {0}
      /\ v.n \in Nat \ {0} /\ SizeMax \in Nat /\ Day \in Nat
  BY ConfigurationAssumption DEF IsTime, Second
<1>2. v.n <= SizeMax \div TimeUnits[v.unit] /\ v.n * TimeUnits[v.unit] <= Day
  BY DEF IsTime, Fits
<1>3. ParseTime(v) = v.n * TimeUnits[v.unit]
  BY <1>1, <1>2, Fitting DEF ParseTime
<1>4. v.n * TimeUnits[v.unit] \in Nat \ {0}
  BY <1>1, SMT
<1>5. ParseTime(v) \in 1 .. Day
  BY <1>1, <1>2, <1>3, <1>4
<1>6. Second <= Day
  BY <1>1, ConfigurationAssumption DEF Second
<1>7. CASE ParseTime(v) < Second
  <2>1. Second \div Second <= Day \div Second
    BY <1>1, <1>6, DivisionGrows
  <2>2. Second \div Second = 1 /\ Day \div Second \in Nat
    BY <1>1, SMT
  <2>3. QED
    BY <1>3, <1>5, <1>7, <2>1, <2>2 DEF InSeconds
<1>8. CASE ~(ParseTime(v) < Second)
  <2>1. ParseTime(v) \div Second <= Day \div Second
    BY <1>1, <1>5, DivisionGrows
  <2>2. ParseTime(v) \div Second \in Nat \ {0} /\ Day \div Second \in Nat
    BY <1>1, <1>5, <1>8, SMT
  <2>3. QED
    BY <1>3, <1>5, <1>8, <2>1, <2>2 DEF InSeconds
<1>9. QED
  BY <1>3, <1>5, <1>7, <1>8

\* A directive that is said is remembered with its value, and the others are
\* remembered as before.
LEMMA Saying ==
    ASSUME NEW said \in Said, NEW key \in Keys, NEW value \in Values
    PROVE  /\ Say(said, key, value) \in Said
           /\ DOMAIN Say(said, key, value) = DOMAIN said \cup {key}
           /\ Say(said, key, value)[key] = value
           /\ \A k \in DOMAIN said \ {key} : Say(said, key, value)[k] = said[k]
<1>1. PICK D \in SUBSET Keys : said \in [D -> Values]
  BY DEF Said
<1>2. Say(said, key, value) \in [D \cup {key} -> Values]
  BY <1>1 DEF Say
<1>3. Say(said, key, value) \in Said
  BY <1>2 DEF Said
<1>4. QED
  BY <1>1, <1>3 DEF Say

\* The values of the file's directives.
LEMMA ServerValue ==
    ASSUME NEW key \in DOMAIN ServerValues, NEW value \in ServerValues[key]
    PROVE  /\ key \in Keys /\ value \in Values
           /\ key = "root" => value \in Paths
           /\ key = "client_max_body_size" => value \in [n : Nat, unit : DOMAIN SizeUnits]
           /\ key \in {"timeout", "cgi_timeout", "cgi_idle_timeout"} =>
                value \in [n : Nat, unit : DOMAIN TimeUnits]
BY ConfigurationAssumption DEF Keys, Values, ServersValues

LEMMA LocationValue ==
    ASSUME NEW key \in DOMAIN LocationValues, NEW value \in LocationValues[key]
    PROVE  /\ key \in Keys /\ value \in Values
           /\ key = "root" => value \in Paths
           /\ key = "client_max_body_size" => value \in [n : Nat, unit : DOMAIN SizeUnits]
<1>1. key \in Keys /\ value \in LocationsValues
  BY DEF Keys, LocationsValues
<1>2. \A k \in DOMAIN LocationValues : \A v \in LocationValues[k] :
        /\ k = "root" => v \in Paths
        /\ k = "client_max_body_size" => v \in [n : Nat, unit : DOMAIN SizeUnits]
  BY ConfigurationAssumption
<1>3. QED
  BY <1>1, <1>2 DEF Values

-----------------------------------------------------------------------------
(* Blocks.                                                                 *)

LEMMA NothingSaid == <<>> \in Said /\ DOMAIN <<>> = {}
<1>1. <<>> \in [{} -> Values] /\ DOMAIN <<>> = {}
  OBVIOUS
<1>2. QED
  BY <1>1 DEF Said

\* A server begins with every timeout in force.
LEMMA NewServerRead == NewServer \in ServerType /\ ServerRead(NewServer)
<1>1. /\ Second \in Nat \ {0} /\ Day \in Nat /\ 60 * Second <= Day /\ SizeUnits["M"] \in Nat
      /\ MaxLocations \in Nat
  BY ConfigurationAssumption DEF Second
<1>2. 60 \in 1 .. Day \div Second
  <2>1. (60 * Second) \div Second <= Day \div Second
    BY <1>1, DivisionGrows
  <2>2. (60 * Second) \div Second = 60 /\ Day \div Second \in Nat
    BY <1>1, SMT
  <2>3. QED
    BY <2>1, <2>2
<1>3. 30 * Second \in 1 .. Day /\ 5 * Second \in 1 .. Day
  BY <1>1
<1>4. NewServer \in ServerType
  BY <1>1, NothingSaid DEF NewServer, ServerType
<1>5. TimesInForce(NewServer)
  BY <1>2, <1>3, NothingSaid DEF TimesInForce, NewServer
<1>6. QED
  BY <1>1, <1>4, <1>5, NothingSaid
  DEF NewServer, ServerRead, RootSaid, SizeAsSaid, LocationsRead

LEMMA NewLocationRead ==
    ASSUME NEW path \in Paths \cup {NoPath}, serv \in ServerType, ServerRead(serv)
    PROVE  LocationDefaults(path) \in LocationType /\ LocationRead(serv, LocationDefaults(path))
<1>1. LocationDefaults(path) \in LocationType
  BY NothingSaid DEF LocationDefaults, LocationType, ServerType
<1>2. QED
  BY <1>1, NothingSaid
  DEF LocationDefaults, LocationRead, RootSaid, SizeAsSaid, ServerRead

\* What a location has read stays right while its server's root, if it has been
\* said, stays the same.
LEMMA LocationsStay ==
    ASSUME NEW s \in ServerType, NEW t \in ServerType, LocationsRead(s),
           t.locations = s.locations,
           "root" \in DOMAIN s.said =>
             "root" \in DOMAIN t.said /\ t.said.root = s.said.root
    PROVE  LocationsRead(t)
BY DEF LocationsRead, LocationRead

-----------------------------------------------------------------------------
(* Directives.                                                             *)

LEMMA ServerDirectiveRead ==
    ASSUME serv \in ServerType, ServerRead(serv),
           NEW key \in DOMAIN ServerValues, NEW value \in ServerValues[key],
           ~Repeated(serv.said, key), ValidateType(key, value)
    PROVE  /\ SetServerDirective(key, value) \in ServerType
           /\ ServerRead(SetServerDirective(key, value))
           /\ SetServerDirective(key, value).locations = serv.locations
<1> DEFINE t == SetServerDirective(key, value)
           said == Say(serv.said, key, value)
<1>1. /\ key \in Keys /\ value \in Values /\ serv.said \in Said
      /\ key \in {"listen", "root", "index", "client_max_body_size",
                  "timeout", "cgi_timeout", "cgi_idle_timeout"}
  BY ServerValue, ConfigurationAssumption DEF ServerType
<1>2. /\ said \in Said /\ said[key] = value
      /\ key \notin DOMAIN serv.said /\ DOMAIN said = DOMAIN serv.said \cup {key}
      /\ \A k \in DOMAIN serv.said : said[k] = serv.said[k]
  <2>1. /\ said \in Said /\ said[key] = value
        /\ DOMAIN said = DOMAIN serv.said \cup {key}
        /\ \A k \in DOMAIN serv.said \ {key} : said[k] = serv.said[k]
    BY ZenonT(40), <1>1, Saying
  <2>2. key \notin DOMAIN serv.said
    BY DEF Repeated
  <2>3. QED
    BY <2>1, <2>2
<1> HIDE DEF said
<1>3. /\ t.said = said /\ t.locations = serv.locations
      /\ t.listen_port = IF key = "listen" THEN Append(serv.listen_port, value)
                         ELSE serv.listen_port
      /\ t.root = IF key = "root" THEN value ELSE serv.root
      /\ t.index = IF key = "index" THEN value ELSE serv.index
      /\ t.client_max_body_size = IF key = "client_max_body_size" THEN ParseSize(value)
                                  ELSE serv.client_max_body_size
      /\ t.timeout = IF key = "timeout" THEN InSeconds(ParseTime(value)) ELSE serv.timeout
      /\ t.cgi_timeout = IF key = "cgi_timeout" THEN ParseTime(value) ELSE serv.cgi_timeout
      /\ t.cgi_idle_timeout = IF key = "cgi_idle_timeout" THEN ParseTime(value)
                              ELSE serv.cgi_idle_timeout
      /\ t = [listen_port |-> t.listen_port, root |-> t.root, index |-> t.index,
              client_max_body_size |-> t.client_max_body_size, timeout |-> t.timeout,
              cgi_timeout |-> t.cgi_timeout, cgi_idle_timeout |-> t.cgi_idle_timeout,
              locations |-> t.locations, said |-> t.said]
  BY <1>1 DEF SetServerDirective, ServerType, said
<1> HIDE DEF t
<1>4. key = "client_max_body_size" =>
        /\ value \in [n : Nat, unit : DOMAIN SizeUnits]
        /\ ParseSize(value) \in Nat /\ ParseSize(value) = value.n * SizeUnits[value.unit]
  BY ServerValue, SizeKept DEF ValidateType
<1>5. key \in {"timeout", "cgi_timeout", "cgi_idle_timeout"} =>
        /\ ParseTime(value) = value.n * TimeUnits[value.unit]
        /\ ParseTime(value) \in 1 .. Day
        /\ InSeconds(ParseTime(value)) \in 1 .. Day \div Second
  BY ServerValue, TimeKept DEF ValidateType
<1>6. t \in ServerType
  <2>1. t.listen_port \in Seq(Values) /\ t.root \in Paths \cup {NoPath}
    BY <1>1, <1>3, ServerValue DEF ServerType
  <2>2. /\ t.client_max_body_size \in Nat /\ t.timeout \in Nat
        /\ t.cgi_timeout \in Nat /\ t.cgi_idle_timeout \in Nat
    BY <1>3, <1>4, <1>5 DEF ServerType
  <2>3. t.index \in Values \cup {DefaultIndex} /\ t.locations \in Seq(LocationType)
    BY <1>1, <1>3 DEF ServerType
  <2>4. QED
    BY <1>2, <1>3, <2>1, <2>2, <2>3 DEF ServerType
<1>7. RootSaid(t) /\ t.root = IF "root" \in DOMAIN t.said THEN t.said.root ELSE NoPath
  BY <1>2, <1>3, ServerValue DEF ServerRead, RootSaid
<1>8. SizeAsSaid(t)
  BY <1>2, <1>3, <1>4 DEF ServerRead, SizeAsSaid
<1>9. TimesInForce(t)
  <2>1. t.timeout \in 1 .. Day \div Second
    BY <1>3, <1>5 DEF ServerRead, TimesInForce
  <2>2. /\ t.cgi_timeout \in 1 .. Day
        /\ "cgi_timeout" \in DOMAIN t.said =>
             t.cgi_timeout = t.said.cgi_timeout.n * TimeUnits[t.said.cgi_timeout.unit]
    BY <1>2, <1>3, <1>5 DEF ServerRead, TimesInForce
  <2>3. /\ t.cgi_idle_timeout \in 1 .. Day
        /\ "cgi_idle_timeout" \in DOMAIN t.said =>
             t.cgi_idle_timeout =
               t.said.cgi_idle_timeout.n * TimeUnits[t.said.cgi_idle_timeout.unit]
    BY <1>2, <1>3, <1>5 DEF ServerRead, TimesInForce
  <2>4. QED
    BY <2>1, <2>2, <2>3 DEF TimesInForce
<1>10. LocationsRead(t)
  BY <1>2, <1>3, <1>6, LocationsStay DEF ServerRead
<1>11. Len(t.listen_port) = IF "listen" \in DOMAIN t.said THEN 1 ELSE 0
  <2>1. serv.listen_port \in Seq(Values)
    BY DEF ServerType
  <2>2. Len(Append(serv.listen_port, value)) = Len(serv.listen_port) + 1
    BY <1>1, <2>1
  <2>3. QED
    BY <1>2, <1>3, <2>2 DEF ServerRead
<1>12. ServerRead(t)
  BY <1>3, <1>7, <1>8, <1>9, <1>10, <1>11 DEF ServerRead
<1>13. QED
  BY <1>3, <1>6, <1>12 DEF t

LEMMA LocationDirectiveRead ==
    ASSUME serv \in ServerType, loc \in LocationType, LocationRead(serv, loc),
           NEW key \in DOMAIN LocationValues, NEW value \in LocationValues[key],
           ~Repeated(loc.said, key), ValidateType(key, value)
    PROVE  /\ SetLocDirective(key, value) \in LocationType
           /\ LocationRead(serv, SetLocDirective(key, value))
<1> DEFINE t == SetLocDirective(key, value)
           said == Say(loc.said, key, value)
<1>1. /\ key \in Keys /\ value \in Values /\ loc.said \in Said
      /\ key \in {"root", "index", "client_max_body_size", "upload_path", "return"}
  BY LocationValue, ConfigurationAssumption DEF LocationType
<1>2. /\ said \in Said /\ said[key] = value
      /\ key \notin DOMAIN loc.said /\ DOMAIN said = DOMAIN loc.said \cup {key}
      /\ \A k \in DOMAIN loc.said : said[k] = loc.said[k]
  <2>1. /\ said \in Said /\ said[key] = value
        /\ DOMAIN said = DOMAIN loc.said \cup {key}
        /\ \A k \in DOMAIN loc.said \ {key} : said[k] = loc.said[k]
    BY ZenonT(40), <1>1, Saying
  <2>2. key \notin DOMAIN loc.said
    BY DEF Repeated
  <2>3. QED
    BY <2>1, <2>2
<1> HIDE DEF said
<1>3. /\ t.said = said /\ t.path = loc.path
      /\ t.root = IF key = "root" THEN value ELSE loc.root
      /\ t.index = IF key = "index" THEN value ELSE loc.index
      /\ t.client_max_body_size = IF key = "client_max_body_size" THEN ParseSize(value)
                                  ELSE loc.client_max_body_size
      /\ t.upload_path = IF key = "upload_path" THEN value ELSE loc.upload_path
      /\ t.return = IF key = "return" THEN value ELSE loc.return
      /\ t = [path |-> t.path, root |-> t.root, index |-> t.index,
              client_max_body_size |-> t.client_max_body_size,
              upload_path |-> t.upload_path, return |-> t.return, said |-> t.said]
  BY <1>1 DEF SetLocDirective, LocationType, said
<1> HIDE DEF t
<1>4. key = "client_max_body_size" =>
        /\ value \in [n : Nat, unit : DOMAIN SizeUnits]
        /\ ParseSize(value) \in Nat /\ ParseSize(value) = value.n * SizeUnits[value.unit]
  BY LocationValue, SizeKept DEF ValidateType
<1>5. t \in LocationType
  <2>1. t.root \in Paths \cup {NoPath} /\ t.path \in Paths \cup {NoPath}
    BY <1>3, LocationValue DEF LocationType
  <2>2. t.client_max_body_size \in Nat
    BY <1>3, <1>4 DEF LocationType
  <2>3. /\ t.index \in Values \cup {DefaultIndex} /\ t.upload_path \in Values \cup {NoPath}
        /\ t.return \in Values \cup {NoPath}
    BY <1>1, <1>3 DEF LocationType
  <2>4. QED
    BY <1>2, <1>3, <2>1, <2>2, <2>3 DEF LocationType
<1>6. RootSaid(t)
  BY <1>2, <1>3, LocationValue DEF LocationRead, RootSaid
<1>7. SizeAsSaid(t)
  BY <1>2, <1>3, <1>4 DEF LocationRead, SizeAsSaid
<1>8. LocationRead(serv, t)
  BY <1>2, <1>3, <1>6, <1>7 DEF LocationRead
<1>9. QED
  BY <1>5, <1>8 DEF t

-----------------------------------------------------------------------------
(* The invariant.                                                          *)

LEMMA Begin == Init => IInv
<1> SUFFICES ASSUME Init PROVE IInv
  OBVIOUS
<1>2. serv \in ServerType /\ ServerRead(serv)
  BY NewServerRead DEF Init
<1>3. loc \in LocationType
  BY <1>2, NewLocationRead DEF Init
<1>4. servers \in Seq(ServerType) /\ DOMAIN servers = {} /\ Len(servers) = 0
  BY DEF Init
<1>5. QED
  BY <1>2, <1>3, <1>4, ConfigurationAssumption DEF Init, IInv, Types, Listening

LEMMA RefuseKeeps == ASSUME IInv, block # "serving", Refuse PROVE IInv'
BY DEF IInv, Types, Listening, Refuse

LEMMA OpenServerKeeps == ASSUME IInv, OpenServer PROVE IInv'
<1>1. serv' \in ServerType /\ ServerRead(serv')
  BY NewServerRead DEF OpenServer
<1>2. QED
  BY <1>1 DEF IInv, Types, Listening, OpenServer

LEMMA ServerDirectiveKeeps ==
    ASSUME IInv, NEW key \in DOMAIN ServerValues, NEW value \in ServerValues[key],
           ServerDirective(key, value)
    PROVE  IInv'
<1>1. CASE Repeated(serv.said, key) \/ ~ValidateType(key, value)
  BY <1>1, RefuseKeeps DEF ServerDirective
<1>2. CASE ~Repeated(serv.said, key) /\ ValidateType(key, value)
  <2>1. serv' = SetServerDirective(key, value) /\ UNCHANGED <<block, loc, servers, sockets, at>>
    BY <1>2 DEF ServerDirective
  <2>2. serv' \in ServerType /\ ServerRead(serv')
    BY <1>2, <2>1, ServerDirectiveRead DEF IInv, Types
  <2>3. block = "server"
    BY DEF ServerDirective
  <2>4. QED
    BY <2>1, <2>2, <2>3 DEF IInv, Types, Listening
<1>3. QED
  BY <1>1, <1>2

LEMMA OpenLocationKeeps == ASSUME IInv, NEW path \in Paths, OpenLocation(path) PROVE IInv'
<1>1. loc' \in LocationType /\ LocationRead(serv, loc')
  BY NewLocationRead DEF OpenLocation, IInv, Types
<1>2. QED
  BY <1>1 DEF IInv, Types, Listening, OpenLocation

LEMMA LocationDirectiveKeeps ==
    ASSUME IInv, NEW key \in DOMAIN LocationValues, NEW value \in LocationValues[key],
           LocationDirective(key, value)
    PROVE  IInv'
<1>1. CASE Repeated(loc.said, key) \/ ~ValidateType(key, value)
  BY <1>1, RefuseKeeps DEF LocationDirective
<1>2. CASE ~Repeated(loc.said, key) /\ ValidateType(key, value)
  <2>1. loc' = SetLocDirective(key, value) /\ UNCHANGED <<block, serv, servers, sockets, at>>
    BY <1>2 DEF LocationDirective
  <2>2. block = "location"
    BY DEF LocationDirective
  <2>3. loc' \in LocationType /\ LocationRead(serv, loc')
    BY <1>2, <2>1, <2>2, LocationDirectiveRead DEF IInv, Types
  <2>4. QED
    BY <2>1, <2>2, <2>3 DEF IInv, Types, Listening
<1>3. QED
  BY <1>1, <1>2

LEMMA CloseLocationKeeps == ASSUME IInv, CloseLocation PROVE IInv'
<1>1. CASE ~LocationHolds(loc)
  BY <1>1, RefuseKeeps DEF CloseLocation
<1>2. CASE LocationHolds(loc)
  <2>1. /\ block = "location" /\ block' = "server" /\ UNCHANGED <<loc, servers, sockets, at>>
        /\ serv' = [serv EXCEPT !.locations = Append(@, loc)]
    BY <1>2 DEF CloseLocation
  <2>2. /\ serv \in ServerType /\ ServerRead(serv) /\ loc \in LocationType
        /\ LocationRead(serv, loc) /\ Len(serv.locations) < MaxLocations
        /\ serv.locations \in Seq(LocationType)
    BY <2>1 DEF IInv, Types, ServerType
  <2> DEFINE more == Append(serv.locations, loc)
  <2>3. /\ more \in Seq(LocationType) /\ Len(more) = Len(serv.locations) + 1
        /\ \A i \in DOMAIN more :
             \/ i \in DOMAIN serv.locations /\ more[i] = serv.locations[i]
             \/ more[i] = loc
    BY <2>2
  <2> HIDE DEF more
  <2>4. /\ serv' \in ServerType /\ serv'.locations = more /\ serv'.said = serv.said
        /\ serv'.root = serv.root /\ serv'.listen_port = serv.listen_port
        /\ serv'.client_max_body_size = serv.client_max_body_size
        /\ serv'.timeout = serv.timeout /\ serv'.cgi_timeout = serv.cgi_timeout
        /\ serv'.cgi_idle_timeout = serv.cgi_idle_timeout
    BY <2>1, <2>2, <2>3 DEF ServerType, more
  <2>5. LocationsRead(serv')
    BY <1>2, <2>2, <2>3, <2>4 DEF ServerRead, LocationsRead, LocationRead
  <2>6. TimesInForce(serv')
    BY <2>2, <2>4 DEF ServerRead, TimesInForce
  <2>7. Len(serv'.locations) <= MaxLocations
    <3>1. Len(serv.locations) \in Nat /\ MaxLocations \in Nat
      BY <2>2, ConfigurationAssumption
    <3>2. QED
      BY <3>1, <2>2, <2>3, <2>4
  <2>8. ServerRead(serv')
    BY <2>2, <2>4, <2>5, <2>6, <2>7 DEF ServerRead, RootSaid, SizeAsSaid
  <2>9. QED
    BY <2>1, <2>4, <2>8 DEF IInv, Types, Listening
<1>3. QED
  BY <1>1, <1>2

LEMMA CloseServerKeeps == ASSUME IInv, CloseServer PROVE IInv'
<1>1. CASE serv.listen_port = <<>> \/ serv.root \notin Directories
  BY <1>1, RefuseKeeps DEF CloseServer
<1>2. CASE serv.listen_port # <<>> /\ serv.root \in Directories
  <2>1. /\ block = "server" /\ block' = "outside" /\ servers' = Append(servers, serv)
        /\ UNCHANGED <<serv, loc, sockets, at>>
    BY <1>2 DEF CloseServer
  <2>2. /\ serv \in ServerType /\ ServerRead(serv) /\ servers \in Seq(ServerType)
        /\ serv.listen_port \in Seq(Values) /\ Len(servers) < MaxServers
    BY <2>1 DEF IInv, Types, ServerType
  <2>3. Len(serv.listen_port) = 1
    BY <1>2, <2>2, EmptySeq DEF ServerRead
  <2>4. ServerClosed(serv)
    BY <1>2, <2>2, <2>3 DEF ServerClosed
  <2>5. /\ servers' \in Seq(ServerType) /\ Len(servers') = Len(servers) + 1
        /\ \A i \in DOMAIN servers' :
             \/ i \in DOMAIN servers /\ servers'[i] = servers[i]
             \/ servers'[i] = serv
    BY <2>1, <2>2
  <2>6. \A i \in DOMAIN servers' : ServerClosed(servers'[i])
    BY <2>4, <2>5 DEF IInv
  <2>7. Len(servers') <= MaxServers
    <3>1. Len(servers) \in Nat /\ MaxServers \in Nat
      BY <2>2, ConfigurationAssumption
    <3>2. QED
      BY <3>1, <2>2, <2>5
  <2>8. Listening'
    BY <2>1, <2>5 DEF IInv, Listening
  <2>9. QED
    BY <2>1, <2>5, <2>6, <2>7, <2>8 DEF IInv, Types
<1>3. QED
  BY <1>1, <1>2

LEMMA EndKeeps == ASSUME IInv, EndOfFile PROVE IInv'
<1>1. CASE Refuse
  BY <1>1, RefuseKeeps DEF EndOfFile
<1>2. CASE ~Refuse
  <2>1. block' = "parsed" /\ UNCHANGED <<serv, loc, servers, sockets, at>>
    BY <1>2 DEF EndOfFile
  <2>2. QED
    BY <2>1 DEF EndOfFile, IInv, Types, Listening
<1>3. QED
  BY <1>1, <1>2

LEMMA ListenKeeps == ASSUME IInv, Listen PROVE IInv'
<1> DEFINE i == at[1]
           address == servers[i].listen_port[1]
<1>1. /\ i \in DOMAIN servers /\ at = <<i, 1>> /\ block = "parsed"
      /\ servers \in Seq(ServerType) /\ sockets \in Seq(Values)
  BY DEF Listen, IInv, Types, Listening
<1>2. /\ servers[i].listen_port \in Seq(Values) /\ Len(servers[i].listen_port) = 1
      /\ address \in Values
  <2>1. servers[i] \in ServerType /\ ServerClosed(servers[i])
    BY <1>1 DEF IInv
  <2>2. QED
    BY <2>1 DEF ServerType, ServerClosed
<1>3. CASE Refuse
  BY <1>1, <1>3, RefuseKeeps
<1>4. CASE ~Refuse
  <2>1. /\ sockets' = IF Served(address) THEN sockets ELSE Append(sockets, address)
        /\ at' = <<i + 1, 1>> /\ UNCHANGED <<block, serv, loc, servers>>
    BY <1>1, <1>2, <1>4 DEF Listen
  <2> HIDE DEF i, address
  <2>2. /\ i \in Nat \ {0} /\ i + 1 \in Nat \ {0} /\ at[1] = i
        /\ at'[1] = i + 1 /\ at' \in (Nat \ {0}) \X {1}
    BY <1>1, <2>1
  <2>3. /\ sockets' \in Seq(Values)
        /\ \E j \in DOMAIN sockets' : sockets'[j] = address
        /\ \A j \in DOMAIN sockets : j \in DOMAIN sockets' /\ sockets'[j] = sockets[j]
        /\ \A j \in DOMAIN sockets' : \/ j \in DOMAIN sockets
                                      \/ /\ sockets'[j] = address /\ j = Len(sockets) + 1
                                         /\ ~Served(address)
    <3>1. CASE Served(address)
      BY <1>1, <2>1, <3>1 DEF Served
    <3>2. CASE ~Served(address)
      <4>1. sockets' = Append(sockets, address)
        BY <2>1, <3>2
      <4>2. /\ sockets' \in Seq(Values) /\ Len(sockets') = Len(sockets) + 1
            /\ sockets'[Len(sockets) + 1] = address
            /\ \A j \in 1 .. Len(sockets) : sockets'[j] = sockets[j]
        BY <1>1, <1>2, <4>1
      <4>3. /\ DOMAIN sockets = 1 .. Len(sockets) /\ Len(sockets) \in Nat
            /\ DOMAIN sockets' = 1 .. Len(sockets) + 1
        BY <1>1, <4>2
      <4>4. QED
        BY <3>2, <4>2, <4>3
    <3>3. QED
      BY <3>1, <3>2
  <2>4. \A j, k \in DOMAIN sockets' : sockets'[j] = sockets'[k] => j = k
    BY <2>3 DEF IInv, Listening, Served
  <2>5. \A j \in DOMAIN sockets' :
          \E n \in DOMAIN servers : servers[n].listen_port[1] = sockets'[j]
    <3>1. \A j \in DOMAIN sockets :
            \E n \in DOMAIN servers : servers[n].listen_port[1] = sockets[j]
      BY DEF IInv, Listening
    <3>2. address = servers[i].listen_port[1] /\ i \in DOMAIN servers
      BY <1>1 DEF address
    <3>3. QED
      BY <2>3, <3>1, <3>2
  <2>6. \A n \in DOMAIN servers :
          n < i + 1 => \E j \in DOMAIN sockets' : sockets'[j] = servers[n].listen_port[1]
    <3>1. \A n \in DOMAIN servers : n < i + 1 => n < i \/ n = i
      BY <1>1, <2>2
    <3>2. \A n \in DOMAIN servers :
            n < i => \E j \in DOMAIN sockets : sockets[j] = servers[n].listen_port[1]
      BY <2>2 DEF IInv, Listening
    <3>3. QED
      BY <2>3, <3>1, <3>2 DEF address
  <2>7. Listening'
    <3>1. block' = "parsed" /\ servers' = servers
      BY <1>1, <2>1
    <3>2. QED
      BY <2>2, <2>3, <2>4, <2>5, <2>6, <3>1 DEF Listening
  <2>8. QED
    BY <2>1, <2>7 DEF IInv, Types
<1>5. QED
  BY <1>3, <1>4

LEMMA ServeKeeps == ASSUME IInv, Serve PROVE IInv'
BY DEF Serve, IInv, Types, Listening

LEMMA Step == IInv /\ [Next]_vars => IInv'
<1> SUFFICES ASSUME IInv, [Next]_vars PROVE IInv'
  OBVIOUS
<1>2. CASE UNCHANGED vars
  BY <1>2 DEF vars, IInv, Types, Listening
<1>3. CASE Next
  <2>1. CASE Malformed
    BY <2>1, RefuseKeeps DEF Malformed
  <2>2. CASE OpenServer
    BY <2>2, OpenServerKeeps
  <2>3. CASE CloseServer
    BY <2>3, CloseServerKeeps
  <2>4. CASE CloseLocation
    BY <2>4, CloseLocationKeeps
  <2>5. CASE EndOfFile \/ Listen \/ Serve
    BY <2>5, EndKeeps, ListenKeeps, ServeKeeps
  <2>6. ASSUME NEW key \in DOMAIN ServerValues, NEW value \in ServerValues[key],
               ServerDirective(key, value)
        PROVE  IInv'
    BY <2>6, ServerDirectiveKeeps
  <2>7. ASSUME NEW path \in Paths, OpenLocation(path) PROVE IInv'
    BY <2>7, OpenLocationKeeps
  <2>8. ASSUME NEW key \in DOMAIN LocationValues, NEW value \in LocationValues[key],
               LocationDirective(key, value)
        PROVE  IInv'
    BY <2>8, LocationDirectiveKeeps
  <2>9. QED
    BY <1>3, <2>1, <2>2, <2>3, <2>4, <2>5, <2>6, <2>7, <2>8 DEF Next
<1>4. QED
  BY <1>2, <1>3

\* What has been read is right, after any number of directives.
THEOREM Reading == Spec => []IInv
BY Begin, Step, PTL DEF Spec

-----------------------------------------------------------------------------
(* What follows from it.                                                   *)

LEMMA Typed == IInv => TypeOK
<1> SUFFICES ASSUME IInv PROVE TypeOK
  OBVIOUS
<1>1. \A s \in Range(servers) : s \in ServerType /\ ServerClosed(s)
  BY DEF Range, IInv, Types
<1>2. \A s \in Range(servers) \cup {serv} : s \in ServerType /\ ServerRead(s)
  BY <1>1 DEF IInv, Types, ServerClosed
<1>3. \A s \in Range(servers) \cup {serv} :
        /\ s.root \in Paths \cup {NoPath} /\ Len(s.locations) <= MaxLocations
        /\ {s.client_max_body_size, s.timeout, s.cgi_timeout, s.cgi_idle_timeout} \subseteq Nat
  BY <1>2 DEF ServerType, ServerRead
<1>4. \A s \in Range(servers) : Len(s.listen_port) = 1
  BY <1>1 DEF ServerClosed
<1>5. QED
  BY <1>3, <1>4 DEF TypeOK, IInv, Types, Listening

\* Every number a server keeps is one, and every server that has been read
\* listens on one address (TypeOK of Configuration).
THEOREM TypeCorrect == Spec => []TypeOK
BY Typed, Reading, PTL

\* A location's root is the one it names or else its server's, and is a
\* directory, whatever the order of the file (RootsAreThere of Configuration).
THEOREM RootsThere == Spec => []RootsAreThere
<1>1. IInv => RootsAreThere
  <2> SUFFICES ASSUME IInv, NEW n \in DOMAIN servers,
                      NEW i \in DOMAIN servers[n].locations
               PROVE  LET s == servers[n]
                          l == s.locations[i]
                      IN  /\ EffectiveRoot(s, l) = IF "root" \in DOMAIN l.said
                                                   THEN l.said.root ELSE s.said.root
                          /\ EffectiveRoot(s, l) \in Directories
                          /\ l.upload_path \in Directories \cup {NoPath}
    BY DEF RootsAreThere, Serving
  <2> DEFINE s == servers[n]
             l == s.locations[i]
  <2>1. /\ RootSaid(s) /\ s.root \in Directories
        /\ s.root = IF "root" \in DOMAIN s.said THEN s.said.root ELSE NoPath
        /\ LocationRead(s, l) /\ LocationHolds(l)
    BY DEF IInv, ServerClosed, ServerRead, LocationsRead
  <2> HIDE DEF s, l
  <2>2. "root" \in DOMAIN s.said /\ s.said.root = s.root /\ s.root # NoPath
    BY <2>1, ConfigurationAssumption
  <2>3. CASE "root" \in DOMAIN l.said
    <3>1. l.root = l.said.root /\ l.root \in Directories
      BY <2>1, <2>3, ConfigurationAssumption DEF LocationRead, RootSaid, LocationHolds
    <3>2. QED
      BY <2>1, <2>3, <3>1, ConfigurationAssumption DEF EffectiveRoot, LocationHolds, s, l
  <2>4. CASE "root" \notin DOMAIN l.said
    <3>1. l.root = NoPath \/ l.root = s.root
      BY <2>1, <2>2, <2>4 DEF LocationRead
    <3>2. QED
      BY <2>1, <2>2, <2>4, <3>1 DEF EffectiveRoot, LocationHolds, s, l
  <2>5. QED
    BY <2>3, <2>4
<1>2. QED
  BY <1>1, Reading, PTL

\* Whatever its file says, a server that comes up has every timeout in force and
\* every limit as it was written (LimitsInForce of Configuration).
THEOREM LimitsKept == Spec => []LimitsInForce
<1>1. IInv => LimitsInForce
  <2> SUFFICES ASSUME IInv, NEW n \in DOMAIN servers
               PROVE  LET s == servers[n] IN
                      /\ s.timeout \in 1 .. Day \div Second
                      /\ \A key \in {"cgi_timeout", "cgi_idle_timeout"} :
                           /\ s[key] \in 1 .. Day
                           /\ key \in DOMAIN s.said =>
                                s[key] = s.said[key].n * TimeUnits[s.said[key].unit]
                      /\ \A b \in {s} \cup Range(s.locations) :
                           "client_max_body_size" \in DOMAIN b.said =>
                             LET v == b.said.client_max_body_size
                             IN  b.client_max_body_size = v.n * SizeUnits[v.unit]
    BY DEF LimitsInForce, Serving
  <2>1. TimesInForce(servers[n]) /\ SizeAsSaid(servers[n]) /\ LocationsRead(servers[n])
    BY DEF IInv, ServerClosed, ServerRead
  <2>2. \A b \in Range(servers[n].locations) : SizeAsSaid(b)
    BY <2>1 DEF Range, LocationsRead, LocationRead
  <2>3. QED
    BY <2>1, <2>2 DEF TimesInForce, SizeAsSaid
<1>2. QED
  BY <1>1, Reading, PTL

\* Every address of a server that comes up has a socket, one for all who share
\* it, and there is no other socket (EveryServerListens of Configuration).
THEOREM AllListen == Spec => []EveryServerListens
<1>1. IInv => EveryServerListens
  <2> SUFFICES ASSUME IInv PROVE EveryServerListens
    OBVIOUS
  <2>1. /\ TypeOK /\ at[1] \in Nat /\ servers \in Seq(ServerType)
        /\ \A n \in DOMAIN servers : /\ servers[n].listen_port \in Seq(Values)
                                    /\ Len(servers[n].listen_port) = 1
    <3>1. \A n \in DOMAIN servers : servers[n] \in ServerType /\ ServerClosed(servers[n])
      BY DEF IInv, Types
    <3>2. QED
      BY <3>1, Typed DEF IInv, Types, Listening, ServerClosed, ServerType
  <2>2. \A n \in DOMAIN servers : DOMAIN servers[n].listen_port = {1}
    BY <2>1
  <2>3. ASSUME block = "serving", NEW n \in DOMAIN servers
        PROVE  \E j \in DOMAIN sockets : sockets[j] = servers[n].listen_port[1]
    <3>1. Listening
      BY DEF IInv
    <3>2. n < at[1]
      <4>1. n \in 1 .. Len(servers)
        BY <2>1
      <4>2. at[1] > Len(servers)
        BY <2>3, <3>1 DEF Listening
      <4>3. QED
        BY <2>1, <4>1, <4>2
    <3>3. QED
      BY <3>1, <3>2 DEF Listening
  <2>4. QED
    <3>1. Serving(LAMBDA s : \A i \in DOMAIN s.listen_port :
                     \E j \in DOMAIN sockets : sockets[j] = s.listen_port[i])
      BY <2>2, <2>3 DEF Serving
    <3>2. /\ \A i, j \in DOMAIN sockets : sockets[i] = sockets[j] => i = j
          /\ \A j \in DOMAIN sockets :
               \E n \in DOMAIN servers : servers[n].listen_port[1] = sockets[j]
      BY DEF IInv, Listening
    <3>3. \A j \in DOMAIN sockets : \E n \in DOMAIN servers :
            \E k \in DOMAIN servers[n].listen_port : servers[n].listen_port[k] = sockets[j]
      BY <2>2, <3>2
    <3>4. QED
      BY <2>1, <3>1, <3>2, <3>3 DEF EveryServerListens
<1>2. QED
  BY <1>1, Reading, PTL
=============================================================================
