------------------------------ MODULE Routing -------------------------------
(***************************************************************************)
(* From a request line to the file system: the virtual host               *)
(* (Server::findServer), the location and the file (tools/src/router), and *)
(* what answering does to the tree (requesthandler.cpp, openUploadFile).   *)
(*                                                                         *)
(* A uri is the sequence of what stands between its slashes: "/a/b" is     *)
(* <<"a", "b">>, "/a/" is <<"a", "">>, "/" is <<"">>.  A path of the file  *)
(* system is the sequence of its names.  No name is the beginning of       *)
(* another, and the names of hosts are in lower case.  An optional path is *)
(* a set of at most one.                                                   *)
(***************************************************************************)
EXTENDS Integers, FiniteSets, SequencesExt

CONSTANTS
    Servers,         \* getServers(): [listen, names, root, index, locations]
    Tree,            \* the tree at the start: [files, dirs, links]
    Scripts,         \* the names that end in an extension for scripts
    Generated,       \* bound: the names generateFilename gives
    Endpoints, Hosts, NoHost, Methods, Uris

\* What a path holds; what stands between slashes; everything there is in a tree.
Name == STRING \ {"", ".", ".."}
Segment == Name \cup {"", ".", ".."}
Entries(t) == t.files \cup t.dirs \cup DOMAIN t.links

\* A tree of a file system: each thing in it is one thing, in a directory of it.
WellFormed(t) ==
    /\ t = [files |-> t.files, dirs |-> t.dirs, links |-> [q \in DOMAIN t.links |-> t.links[q]]]
    /\ Entries(t) \subseteq Seq(Name)
    /\ t.files \cap t.dirs = {} /\ (t.files \cup t.dirs) \cap DOMAIN t.links = {}
    /\ \A p \in Entries(t) \ {<<>>} : Front(p) \in t.dirs

LocationConfig ==
    [path : Seq(Segment) \ {<<>>}, root : Tree.dirs, upload_path : SUBSET Tree.dirs,
     allow_methods : SUBSET Methods, index : Seq(Name), autoindex : BOOLEAN,
     returns : SUBSET Nat, cgi : {"none", "ext", "path"}]

ServerConfig ==
    [listen : SUBSET Endpoints, names : SUBSET STRING, root : Tree.dirs, index : Seq(Name),
     locations : Seq(LocationConfig)]

ASSUME RoutingAssumption ==
    /\ WellFormed(Tree)
    /\ Servers \in Seq(ServerConfig)
    /\ \A e \in Endpoints : \E s \in 1..Len(Servers) : e \in Servers[s].listen
    /\ Uris \subseteq Seq(Segment) \ {<<>>}

\* generateFilename counts up and adds the time: nothing else has such a name.
ASSUME GeneratedAssumption ==
    /\ Generated \subseteq Name
    /\ \A p \in Entries(Tree) \ {<<>>} : Last(p) \notin Generated
    /\ \A s \in 1..Len(Servers) : \A i \in 1..Len(Servers[s].locations) :
         \A k \in 1..Len(Servers[s].locations[i].path) :
            Servers[s].locations[i].path[k] \notin Generated

VARIABLES
    tree,      \* files and dirs: sets of paths; links: their targets
    uploads,   \* the names generateFilename has given
    last       \* the last request and its answer

vars == <<tree, uploads, last>>

-----------------------------------------------------------------------------
(* The virtual host.                                                       *)

Least(S) == CHOOSE i \in S : \A j \in S : i <= j

\* Variants: the last server that takes the name; the names are not looked at.
FindServerLast(e, host) ==
    LET listening == {s \in 1..Len(Servers) : e \in Servers[s].listen}
        named == {s \in listening : host # NoHost /\ Servers[s].names \cap {host, "_"} # {}}
    IN  IF named # {} THEN CHOOSE s \in named : \A j \in named : j <= s ELSE Least(listening)

\* The first that listens there and takes the name; else the first that listens.
FindServer(e, host) ==
    LET listening == {s \in 1..Len(Servers) : e \in Servers[s].listen}
        named == {s \in listening : host # NoHost /\ Servers[s].names \cap {host, "_"} # {}}
    IN  IF named # {} THEN Least(named) ELSE Least(listening)

-----------------------------------------------------------------------------
(* Paths.                                                                  *)

\* Variant: what stands before a ".." stays when it is the first name.
NormalizeKeepingFirst(segments) ==
    FoldLeft(LAMBDA parts, s :
               CASE s \in {"", "."} -> parts
                 [] s = ".."        -> IF Len(parts) < 2 THEN parts ELSE Front(parts)
                 [] OTHER           -> Append(parts, s),
             <<>>, segments)

NormalizePath(segments) ==
    FoldLeft(LAMBDA parts, s :
               CASE s \in {"", "."} -> parts
                 [] s = ".."        -> IF parts = <<>> THEN parts ELSE Front(parts)
                 [] OTHER           -> Append(parts, s),
             <<>>, segments)

\* weakly_canonical: links that lead somewhere are followed.
Canonical(t, path) ==
    FoldLeft(LAMBDA done, n :
               LET q == Append(done, n)
               IN  IF q \in DOMAIN t.links /\ t.links[q] \in t.files \cup t.dirs
                     THEN t.links[q] ELSE q,
             <<>>, path)

IsWithinFSRoot(t, path, root) == IsPrefix(Canonical(t, root), Canonical(t, path))

IsFile(t, path) == Canonical(t, path) \in t.files
IsDir(t, path) == Canonical(t, path) \in t.dirs

-----------------------------------------------------------------------------
(* Router.                                                                 *)

\* A location's path without the slash it may end in.
Stem(path) == IF Last(path) = "" THEN Front(path) ELSE path

\* How long the path is, among those a uri begins with.
Length(path) == 2 * Len(path) - (IF Last(path) = "" THEN 1 ELSE 0)

Begins(uri, path) == IsPrefix(Stem(path), uri) /\ (path = Stem(path) \/ Len(uri) >= Len(path))

\* Variant: the first that matches is taken.
FindLocationFirst(s, uri) ==
    LET matching == {i \in 1..Len(Servers[s].locations) :
                       Begins(uri, Servers[s].locations[i].path)}
    IN  IF matching = {} THEN 0 ELSE Least(matching)

\* The longest path the uri, as it was sent, begins with; 0 for none.
FindLocation(s, uri) ==
    FoldLeft(LAMBDA best, i :
               LET path == Servers[s].locations[i].path
               IN  IF /\ Begins(uri, path)
                      /\ best = 0 \/ Length(path) > Length(Servers[s].locations[best].path)
                     THEN i ELSE best,
             0, [i \in 1..Len(Servers[s].locations) |-> i])

NoLocation(s) ==
    [path |-> <<"">>, root |-> Servers[s].root, upload_path |-> {}, allow_methods |-> {"GET"},
     index |-> Servers[s].index, autoindex |-> FALSE, returns |-> {}, cgi |-> "none"]

LocationAt(s, l) == IF l = 0 THEN NoLocation(s) ELSE Servers[s].locations[l]

\* Variants: the file is not looked for in the root; the location's path stays.
MapURIUnchecked(t, loc, uri) ==
    LET relative == IF Begins(uri, loc.path) THEN SubSeq(uri, Len(Stem(loc.path)) + 1, Len(uri))
                    ELSE uri
    IN  {NormalizePath(loc.root \o relative)}
MapURIWhole(t, loc, uri) ==
    {f \in {NormalizePath(loc.root \o uri)} : IsWithinFSRoot(t, f, loc.root)}

\* The file a uri stands for, if it is in the location's root.
MapURI(t, loc, uri) ==
    LET relative == IF Begins(uri, loc.path) THEN SubSeq(uri, Len(Stem(loc.path)) + 1, Len(uri))
                    ELSE uri
    IN  {f \in {NormalizePath(loc.root \o relative)} : IsWithinFSRoot(t, f, loc.root)}

\* The index file of a directory, the first there is.
MapIndexPath(t, dir, loc) ==
    LET there == {i \in 1..Len(loc.index) : IsFile(t, Append(dir, loc.index[i]))}
    IN  IF there = {} THEN {} ELSE {Append(dir, loc.index[Least(there)])}

\* cgi: "none", "ext" (cgi_extension without cgi_path), "path" (both).
IsCGI(loc, file) == loc.cgi # "none" /\ Last(file) \in Scripts

A(type, status, file) ==
    [type |-> type, status |-> status, file |-> file, script_name |-> <<>>, path_info |-> <<>>]
Error(status) == A("ERR", status, <<>>)

FinalizeCgiRoute(loc, file, script_name, path_info) ==
    IF loc.cgi = "ext" THEN Error(500)
    ELSE [A("CGI", 200, file) EXCEPT !.script_name = script_name, !.path_info = path_info]

\* How much of the uri names a script: the candidates.
Named(t, loc, uri) ==
    {k \in 1..Len(uri) : \E f \in MapURI(t, loc, SubSeq(uri, 1, k)) :
        IsFile(t, f) /\ IsCGI(loc, f)}

\* Variant: each name taken off the candidate goes to the end of PATH_INFO.
ResolveCgiPathInfoReversed(t, loc, uri) ==
    LET k == CHOOSE k \in Named(t, loc, uri) : \A j \in Named(t, loc, uri) : j <= k
        f == CHOOSE f \in MapURI(t, loc, SubSeq(uri, 1, k)) : TRUE
    IN  IF Named(t, loc, uri) = {} THEN Error(404)
        ELSE FinalizeCgiRoute(loc, f, SubSeq(uri, 1, k), Reverse(SubSeq(uri, k + 1, Len(uri))))

\* The longest part of the uri that names a script; the rest is its PATH_INFO.
ResolveCgiPathInfo(t, loc, uri) ==
    LET k == CHOOSE k \in Named(t, loc, uri) : \A j \in Named(t, loc, uri) : j <= k
        f == CHOOSE f \in MapURI(t, loc, SubSeq(uri, 1, k)) : TRUE
    IN  IF Named(t, loc, uri) = {} THEN Error(404)
        ELSE FinalizeCgiRoute(loc, f, SubSeq(uri, 1, k), SubSeq(uri, k + 1, Len(uri)))

\* A directory: its index file, the list of what is in it, or nothing.
RouteDir(t, loc, method, uri, dir) ==
    LET index == MapIndexPath(t, dir, loc)
    IN  CASE index # {} ->
               LET f == CHOOSE f \in index : TRUE
               IN  IF IsCGI(loc, f)
                     THEN FinalizeCgiRoute(loc, f, Append(NormalizePath(uri), Last(f)), <<>>)
                     ELSE A("FILES", 200, f)
          [] index = {} /\ loc.autoindex ->
               IF method = "GET" THEN A("DIRECTORY_LISTING", 200, dir) ELSE Error(405)
          [] OTHER -> Error(403)

RouteFile(t, loc, method, uri, f) ==
    CASE IsFile(t, f) -> IF IsCGI(loc, f) THEN FinalizeCgiRoute(loc, f, NormalizePath(uri), <<>>)
                         ELSE A("FILES", 200, f)
      [] IsDir(t, f) -> RouteDir(t, loc, method, uri, f)
      [] OTHER -> ResolveCgiPathInfo(t, loc, NormalizePath(uri))

\* Variant: the method is looked at only where there is nothing to upload to.
RouteAnyMethod(t, loc, method, uri) ==
    CASE loc.returns # {} -> A("RED", CHOOSE r \in loc.returns : TRUE, <<>>)
      [] loc.returns = {} /\ method # "GET" /\ loc.upload_path # {} ->
           A("UPLOAD", 200, NormalizePath(uri))
      [] loc.returns = {} /\ loc.upload_path = {} /\ method \notin loc.allow_methods -> Error(405)
      [] OTHER -> IF MapURI(t, loc, uri) = {} THEN Error(403)
                  ELSE RouteFile(t, loc, method, uri, CHOOSE f \in MapURI(t, loc, uri) : TRUE)

\* Router::route.
Route(t, loc, method, uri) ==
    CASE loc.returns # {} -> A("RED", CHOOSE r \in loc.returns : TRUE, <<>>)
      [] loc.returns = {} /\ method \notin loc.allow_methods -> Error(405)
      [] loc.returns = {} /\ method \in loc.allow_methods /\ method # "GET"
         /\ loc.upload_path # {} -> A("UPLOAD", 200, NormalizePath(uri))
      [] OTHER -> IF MapURI(t, loc, uri) = {} THEN Error(403)
                  ELSE RouteFile(t, loc, method, uri, CHOOSE f \in MapURI(t, loc, uri) : TRUE)

-----------------------------------------------------------------------------
(* Answers.                                                                *)

Nothing == [server |-> 0, host |-> NoHost, endpoint |-> CHOOSE e \in Endpoints : TRUE,
            location |-> 0, method |-> "GET", uri |-> <<"">>, route |-> Error(0), status |-> 0]

Init == tree = Tree /\ uploads = {} /\ last = Nothing

Statuses == {200, 201, 204, 301, 400, 403, 404, 405, 500}

Answer(s, e, host, l, method, uri, route, status) ==
    last' = [server |-> s, host |-> host, endpoint |-> e, location |-> l, method |-> method,
             uri |-> uri, route |-> route, status |-> status]

\* What open makes of the path, with the links on its way followed.
Placed(t, dir, name) == Append(Canonical(t, dir), name)

\* startUpload and uploadComplete, in one: a new file, whatever the uri says
\* after the location.  (How its content arrives is in Connection.)
Upload(loc) ==
    \E dir \in loc.upload_path, name \in Generated \ uploads :
        /\ uploads' = uploads \cup {name}
        /\ tree' = IF IsDir(tree, dir)
                     THEN [tree EXCEPT !.files = @ \cup {Placed(tree, dir, name)}]
                     ELSE tree

\* remove: a link, a file or an empty directory.
Removable(t, p) ==
    \/ p \in DOMAIN t.links \cup t.files
    \/ p \in t.dirs /\ \A q \in t.files \cup t.dirs \cup DOMAIN t.links : q # p => ~IsPrefix(p, q)

Without(t, p) ==
    [files |-> t.files \ {p}, dirs |-> t.dirs \ {p},
     links |-> [q \in DOMAIN t.links \ {p} |-> t.links[q]]]

\* deleteFile: the last name of the uri, in the upload directory.
Delete(loc, uri, status) ==
    LET dir  == CHOOSE d \in loc.upload_path : TRUE
        name == Last(uri)
        p    == Placed(tree, dir, name)
        known == p \in tree.files \cup tree.dirs \cup DOMAIN tree.links
    IN  /\ status = CASE name = "" -> 404
                      [] name \in {".", ".."} -> 400
                      [] OTHER -> CASE ~IsWithinFSRoot(tree, Append(dir, name), dir) -> 403
                                    [] Removable(tree, p) -> 204
                                    [] OTHER -> IF known THEN 403 ELSE 404
        /\ tree' = IF status = 204 THEN Without(tree, p) ELSE tree

\* What process_request and RequestHandler::handle make of a route.
Dispatch(loc, method, uri, route, status) ==
    \/ /\ route.type = "UPLOAD" /\ method = "POST"
       /\ Upload(loc)
       /\ status = IF tree' = tree THEN 500 ELSE 201
    \/ /\ route.type = "UPLOAD" /\ method = "DELETE"
       /\ Delete(loc, uri, status) /\ UNCHANGED uploads
    \/ /\ route.type # "UPLOAD"
       /\ status = route.status /\ UNCHANGED <<tree, uploads>>

Request(e, host, method, uri) ==
    LET s == FindServer(e, host)
        l == FindLocation(s, uri)
        loc == LocationAt(s, l)
        route == Route(tree, loc, method, uri)
    IN  /\ last = Nothing
        /\ \E status \in Statuses :
            /\ Dispatch(loc, method, uri, route, status)
            /\ Answer(s, e, host, l, method, uri, route, status)

\* The answer is sent (finalize_response_write).
Sent == last # Nothing /\ last' = Nothing /\ UNCHANGED <<tree, uploads>>

Next == \/ Sent
        \/ \E e \in Endpoints, host \in Hosts \cup {NoHost}, method \in Methods, uri \in Uris :
             Request(e, host, method, uri)

Spec == Init /\ [][Next]_vars

-----------------------------------------------------------------------------
(* Properties.                                                             *)

Asked == last # Nothing
Loc == LocationAt(last.server, last.location)
Answered(types) == last.route.type \in types

\* Types; and everything in the tree is in a directory of it (remove).
TypeOK ==
    /\ WellFormed(tree) /\ uploads \subseteq Generated
    /\ last.server \in 0..Len(Servers)
    /\ Asked => last.location \in 0..Len(Servers[last.server].locations)
    /\ last.route.type \in {"ERR", "RED", "CGI", "FILES", "UPLOAD", "DIRECTORY_LISTING"}

\* The server that answers listens where the client connected, and one that has
\* the name is not passed over for one that has not.
RightHost ==
    Asked => LET takes(s) == last.host # NoHost /\ Servers[s].names \cap {last.host, "_"} # {}
             IN  /\ last.endpoint \in Servers[last.server].listen
                 /\ \A s \in 1..Len(Servers) : last.endpoint \in Servers[s].listen =>
                       IF takes(s) THEN takes(last.server) /\ last.server <= s
                       ELSE takes(last.server) \/ last.server <= s

\* In whatever order the locations stand, no other whose path the uri begins
\* with is longer.
LongestLocation ==
    Asked => \A i \in 1..Len(Servers[last.server].locations), n \in 0..Len(last.uri) :
        LET path == Servers[last.server].locations[i].path
        IN  path = SubSeq(last.uri, 1, n)
              \/ (n < Len(last.uri) /\ path = Append(SubSeq(last.uri, 1, n), ""))
            => /\ last.location # 0
               /\ Len(Stem(path)) <= Len(Stem(Loc.path))
               /\ Stem(path) = Stem(Loc.path) => Len(path) <= Len(Loc.path)

\* Each request is answered by the server and the location it belongs to,
\* whatever others share the address and in whatever order they stand
\* (findServer, findLocation).
RightLocation == TypeOK /\ RightHost /\ LongestLocation

\* What is left of a uri are the names no ".." after them takes back: those
\* from which on there are never more ".." than names (normalizePath).
NormalKeepsWhatStands ==
    LET u == last.uri
        names(i, j) == Cardinality({k \in i..j : u[k] \notin {"", ".", ".."}})
        ups(i, j)   == Cardinality({k \in i..j : u[k] = ".."})
        stands(i)   == /\ u[i] \notin {"", ".", ".."}
                       /\ \A j \in i..Len(u) : ups(i, j) < names(i, j)
        kept(i)     == Cardinality({k \in 1..i : stands(k)})
    IN  /\ Len(NormalizePath(u)) = kept(Len(u))
        /\ \A i \in 1..Len(u) : stands(i) => NormalizePath(u)[kept(i)] = u[i]

\* Only what is in the location's root is served, links followed, unless it is
\* the index file of a directory that is (mapURI, mapIndexPath).
ServesOnlyFromRoot ==
    Answered({"FILES", "CGI", "DIRECTORY_LISTING"}) =>
        \/ IsPrefix(Canonical(Tree, Loc.root), Canonical(tree, last.route.file))
        \/ /\ \E i \in 1..Len(Loc.index) : Last(last.route.file) = Loc.index[i]
           /\ IsPrefix(Canonical(Tree, Loc.root), Canonical(tree, Front(last.route.file)))

\* A script's SCRIPT_NAME and PATH_INFO together are the uri; the name stands
\* for the script, and nothing longer would (resolveCgiPathInfo).
PathInfoIsTheRest ==
    Answered({"CGI"}) =>
        LET whole == last.route.script_name \o last.route.path_info
        IN  /\ whole = NormalizePath(last.uri) \/ Front(whole) = NormalizePath(last.uri)
            /\ Last(last.route.script_name) = Last(last.route.file)
            /\ \A k \in Named(tree, Loc, whole) : k <= Len(last.route.script_name)

\* The tree changes only directly in the upload directory of a location that
\* allows the method and does not redirect, by one entry, and as the answer
\* says (startUpload, deleteFile).
ChangesOnlyUploads ==
    [][LET had == tree.files \cup tree.dirs \cup DOMAIN tree.links
           has == tree'.files \cup tree'.dirs \cup DOMAIN tree'.links
       IN  tree' # tree =>
             /\ last'.method \in Loc'.allow_methods /\ Loc'.returns = {}
             /\ \E p \in (had \ has) \cup (has \ had), dir \in Loc'.upload_path :
                  /\ Front(p) = Canonical(tree, dir)
                  /\ IF last'.status = 201 THEN has = had \cup {p} ELSE had = has \cup {p}
                  /\ last'.status = 201 => last'.method = "POST"
                  /\ last'.status # 201 => last'.status = 204 /\ last'.method = "DELETE"]_vars

\* What was uploaded where the location serves its upload directory, and runs
\* nothing in it, can be fetched there until it is deleted, whatever else has come and gone
\* (openUploadFile, findLocation, mapURI).
UploadsCanBeFetched ==
    \A s \in 1..Len(Servers) : \A i \in 1..Len(Servers[s].locations) :
        LET loc == Servers[s].locations[i]
        IN  /\ loc.upload_path = {loc.root} /\ loc.cgi = "none"
            /\ "GET" \in loc.allow_methods /\ loc.returns = {}
            =>
              \A name \in uploads : Placed(Tree, loc.root, name) \in tree.files =>
                LET uri == Append(Stem(loc.path), name)
                    r == Route(tree, LocationAt(s, FindLocation(s, uri)), "GET", uri)
                IN  r.type = "FILES" /\ r.file = Append(loc.root, name)
=============================================================================
