------------------------------ MODULE Exchange ------------------------------
(***************************************************************************)
(* What CatSurf promises a client: on one connection requests and answers  *)
(* alternate.  A request is answered once, by its script's own response or *)
(* by another answer, never by both and never by nothing, unless the       *)
(* connection ends; a connection that answered goes on to the next request *)
(* exactly if the answer said it would last.                               *)
(***************************************************************************)
CONSTANT Clients      \* the places connections occupy (descriptors)

VARIABLES
    phase,            \* where each connection's current exchange stands
    lasts             \* the connection outlives the answer being sent

Phases == {"closed",      \* no connection
           "asking",      \* reading a request
           "waiting",     \* a script runs, nothing of an answer exists
           "relaying",    \* the script's response has started
           "sending"}     \* the answer is complete and being sent

ExTypeOK == /\ phase \in [Clients -> Phases]
            /\ lasts \in [Clients -> BOOLEAN]

ExInit == /\ phase = [c \in Clients |-> "closed"]
          /\ lasts = [c \in Clients |-> FALSE]

\* c moves from one of "from" to "to"; only a complete answer lasts.
Move(c, from, to, last) ==
    /\ phase[c] \in from
    /\ last => to = "sending"
    /\ phase' = [phase EXCEPT ![c] = to]
    /\ lasts' = [lasts EXCEPT ![c] = last]

Connect(c)  == Move(c, {"closed"}, "asking", FALSE)
RunScript(c) == Move(c, {"asking"}, "waiting", FALSE)
Answer(c)   == \E l \in BOOLEAN : Move(c, {"asking"}, "sending", l)
Start(c)    == Move(c, {"waiting"}, "relaying", FALSE)
Finish(c)   == \E l \in BOOLEAN : Move(c, {"waiting", "relaying"}, "sending", l)
Drained(c)  == Move(c, {"relaying"}, "asking", FALSE)
Sent(c)     == Move(c, {"sending"}, IF lasts[c] THEN "asking" ELSE "closed", FALSE)
Leave(c)    == Move(c, Phases \ {"closed"}, "closed", FALSE)

\* The server goes down with every connection.
Crash == /\ phase' = [c \in Clients |-> "closed"]
         /\ lasts' = [c \in Clients |-> FALSE]

ExNext == \/ Crash
          \/ \E c \in Clients : \/ Connect(c) \/ RunScript(c) \/ Answer(c) \/ Start(c)
                                \/ Finish(c) \/ Drained(c) \/ Sent(c) \/ Leave(c)

ExSafety == ExInit /\ [][ExNext]_<<phase, lasts>>

\* An exchange that has begun comes to its end.
ExProgress == \A c \in Clients :
    (phase[c] \notin {"closed", "asking"}) ~> (phase[c] \in {"closed", "asking"})
=============================================================================
