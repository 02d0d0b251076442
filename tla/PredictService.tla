--------------------------- MODULE PredictService ---------------------------
(***************************************************************************)
(* What a RoboRT inference server promises to its clients, whichever of    *)
(* its two request loops it runs: a client is only ever given the reply    *)
(* its own outstanding request calls for, once, and until the server is    *)
(* told to stop every request is answered in the end.                      *)
(***************************************************************************)
EXTENDS PredictRequest

VARIABLES
  client,   (* the clients                                                  *)
  got,      (* the last reply each connection received, as a set            *)
  stopping  (* the server was told to shut down                             *)

vars == <<client, got, stopping>>

Init ==
  /\ client = [c \in Conns |-> NewClient]
  /\ got = [c \in Conns |-> {}]
  /\ stopping = FALSE

Send(c, k) ==
  /\ client[c].state = "idle"
  /\ client[c].rid < MaxRequests
  /\ client' = [client EXCEPT ![c] = [state |-> "waiting", rid |-> @.rid + 1, kind |-> k]]
  /\ UNCHANGED <<got, stopping>>

Answer(c) ==
  /\ client[c].state = "waiting"
  /\ client' = [client EXCEPT ![c].state = "idle"]
  /\ got' = [got EXCEPT ![c] =
                {ReplyTo([conn |-> c, rid |-> client[c].rid, kind |-> client[c].kind])}]
  /\ UNCHANGED stopping

Close(c) ==
  /\ client[c].state # "closed"
  /\ client' = [client EXCEPT ![c].state = "closed"]
  /\ UNCHANGED <<got, stopping>>

Stop ==
  /\ stopping' = TRUE
  /\ UNCHANGED <<client, got>>

Next ==
  \/ \E c \in Conns, k \in Kinds : Send(c, k)
  \/ \E c \in Conns : Answer(c) \/ Close(c)
  \/ Stop

\* While it runs, the server answers: it owes nothing once told to stop.
Fairness == \A c \in Conns : WF_vars(~stopping /\ Answer(c))

SafeSpec == Init /\ [][Next]_vars
Spec     == SafeSpec /\ Fairness
=============================================================================
