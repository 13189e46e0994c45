----------------------------- MODULE MCRouting ------------------------------
(* A small instance of Routing for TLC: /www with an upload directory that  *)
(* is served under /up, one that is not, scripts, and links out of the     *)
(* root; a second host on the same address and one more of its own.        *)
EXTENDS Routing

Location(path, root) ==
    [path |-> path, root |-> root, upload_path |-> {}, allow_methods |-> {"GET", "POST", "DELETE"},
     index |-> <<"html">>, autoindex |-> FALSE, returns |-> {}, cgi |-> "none"]

MCServers ==
    <<[listen |-> {"e1"}, names |-> {"h1"}, root |-> <<"www">>, index |-> <<"html">>,
       locations |->
         <<[Location(<<"up">>, <<"www", "store">>) EXCEPT !.upload_path = {<<"www", "store">>}],
           [Location(<<"">>, <<"www">>) EXCEPT !.allow_methods = {"GET"}],
           [Location(<<"up", "cgi">>, <<"www", "cgi">>) EXCEPT !.cgi = "path"],
           [Location(<<"drop", "">>, <<"www">>) EXCEPT
              !.upload_path = {<<"www", "store">>}, !.allow_methods = {"POST", "DELETE"}]>>],
      [listen |-> {"e1", "e2"}, names |-> {"_"}, root |-> <<"www", "store">>, index |-> <<"py">>,
       locations |->
         <<[Location(<<"old">>, <<"www">>) EXCEPT !.returns = {301}],
           [Location(<<"up">>, <<"www", "cgi">>) EXCEPT !.cgi = "ext", !.index = <<"py">>],
           [Location(<<"drop">>, <<"www">>) EXCEPT !.autoindex = TRUE,
              !.upload_path = {<<"www", "store", "box">>}, !.allow_methods = {"GET", "POST"}]>>],
      [listen |-> {"e2"}, names |-> {"h2"}, root |-> <<"www">>, index |-> <<>>,
       locations |-> <<Location(<<"up">>, <<"www", "cgi">>)>>]>>

MCTree ==
    [files |-> {<<"www", "html">>, <<"www", "cgi", "py">>, <<"www", "cgi", "box", "py">>,
                <<"www", "store", "a">>, <<"etc", "a">>},
     dirs  |-> {<<>>, <<"etc">>, <<"www">>, <<"www", "cgi">>, <<"www", "cgi", "box">>,
                <<"www", "store">>, <<"www", "store", "box">>},
     links |-> (<<"www", "store", "etc">> :> <<"etc">>) @@ (<<"www", "cgi", "html">> :> <<"etc", "a">>)]

MCUris == UNION {[1..n -> {"", "..", "up", "drop", "cgi", "py", "a"}] : n \in 1..2}
          \cup [1..3 -> {"..", "up", "cgi", "a"}]
          \cup {<<"up", "cgi", "box">>, <<"up", "cgi", "box", "py", "a">>, <<"drop", "box">>,
                <<"up", "cgi", "py", "box", "py">>, <<"up", "etc">>, <<"up", "g1">>,
                <<"drop", "g1">>, <<"old", "">>, <<"up", "a", "">>, <<"cgi", "..", "etc", "a">>}
=============================================================================
