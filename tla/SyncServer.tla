----------------------------- MODULE SyncServer -----------------------------
(***************************************************************************)
(* The synchronous inference server: the REP loop ZmqServerBase::run       *)
(* (serving/server_base.cpp) around VlaServer::handle_request              *)
(* (serving/server.cpp).  One thread polls, receives a request, runs the   *)
(* model on it and sends the reply before it looks at the next.  served_,  *)
(* the count of its replies, is left out.                                  *)
(***************************************************************************)
EXTENDS PredictRequest

VARIABLES
  client,    (* the clients                                                 *)
  got,       (* the last reply each connection received, as a set           *)
  inbox,     (* requests that have reached the REP socket                   *)
  outbox,    (* replies handed to the REP socket, not yet delivered         *)
  shutdown,  (* s_shutdown_                                                 *)
  pc,        (* the next step of the loop                                   *)
  cur,       (* the request being handled; the REP socket replies to it     *)
  resp       (* what handle_request returned for it                         *)

clientVars == <<client, got>>
socketVars == <<inbox, outbox>>
vars == <<clientVars, socketVars, shutdown, pc, cur, resp>>

Init ==
  /\ client = [c \in Conns |-> NewClient]
  /\ got = [c \in Conns |-> {}]
  /\ inbox = {} /\ outbox = {}
  /\ shutdown = FALSE
  /\ pc = "loop" /\ cur = {} /\ resp = {}

-----------------------------------------------------------------------------
(* The clients and their sockets, as in AsyncPipeline. *)

Send(c, k) ==
  LET r == [conn |-> c, rid |-> client[c].rid + 1, kind |-> k] IN
  /\ client[c].state = "idle"
  /\ client[c].rid < MaxRequests
  /\ client' = [client EXCEPT ![c] = [state |-> "waiting", rid |-> r.rid, kind |-> k]]
  /\ inbox' = inbox \cup {r}
  /\ UNCHANGED <<got, outbox, shutdown, pc, cur, resp>>

Receive(c) ==
  /\ client[c].state = "waiting"
  /\ \E m \in outbox :
       /\ m.conn = c
       /\ outbox' = outbox \ {m}
       /\ got' = [got EXCEPT ![c] = {m}]
  /\ client' = [client EXCEPT ![c].state = "idle"]
  /\ UNCHANGED <<inbox, shutdown, pc, cur, resp>>

Close(c) ==
  /\ client[c].state # "closed"
  /\ client' = [client EXCEPT ![c].state = "closed"]
  /\ outbox' = {m \in outbox : m.conn # c}
  /\ inbox' \in {inbox, {r \in inbox : r.conn # c}}
  /\ UNCHANGED <<got, shutdown, pc, cur, resp>>

\* signal_shutdown, or a call of shutdown().
Shutdown ==
  /\ ~shutdown
  /\ shutdown' = TRUE
  /\ UNCHANGED <<clientVars, socketVars, pc, cur, resp>>

-----------------------------------------------------------------------------
(* The loop. *)

Goto(from, to) == pc = from /\ pc' = to

\* while (!s_shutdown_).  When run returns the socket closes with LINGER 0: what
\* it has not delivered yet may be lost.
Loop ==
  /\ Goto("loop", IF shutdown THEN "exited" ELSE "poll")
  /\ IF shutdown THEN outbox' \in SUBSET outbox ELSE UNCHANGED outbox
  /\ UNCHANGED <<clientVars, inbox, shutdown, cur, resp>>

\* Mutant: the poll has no timeout, so that only a message ends it.
IdleForever ==
  /\ Goto("poll", "loop")
  /\ inbox # {}
  /\ UNCHANGED <<clientVars, socketVars, shutdown, cur, resp>>

\* The poll ends with nothing to read: its 200 ms are over, or a signal cut it.
Idle ==
  /\ Goto("poll", "loop")
  /\ inbox = {} \/ shutdown
  /\ UNCHANGED <<clientVars, socketVars, shutdown, cur, resp>>

Recv(c) ==
  /\ Goto("poll", "handle")
  /\ \E r \in inbox :
       /\ r.conn = c
       /\ inbox' = inbox \ {r}
       /\ cur' = {r}
  /\ UNCHANGED <<clientVars, outbox, shutdown, resp>>

\* Mutant: an empty action chunk is sent as if it were a result.
HandleUnchecked(r) ==
  IF r.kind \in Unparsable THEN ParseError(r) ELSE ActionResponse(r.conn, r.rid)

\* The error of parse_request, "predict failed" if predict returns no actions, or
\* the actions.  There is no prepare step here: a request the model cannot prepare
\* is one predict fails on.
HandleRequest(r) ==
  IF r.kind \in Unparsable THEN ParseError(r)
  ELSE IF r.kind \in {"unprepared", "failing"} THEN ErrorResponse(r.conn, r.rid)
  ELSE ActionResponse(r.conn, r.rid)

Handle ==
  /\ Goto("handle", "send")
  /\ resp' = {HandleRequest(r) : r \in cur}
  /\ UNCHANGED <<clientVars, socketVars, shutdown, cur>>

\* The REP socket sends to the peer of the request it received last, and drops
\* the reply if that peer is gone.
Reply ==
  /\ Goto("send", "loop")
  /\ outbox' = outbox \cup {m \in resp : client[m.conn].state # "closed"}
  /\ cur' = {} /\ resp' = {}
  /\ UNCHANGED <<clientVars, inbox, shutdown>>

-----------------------------------------------------------------------------
Next ==
  \/ \E c \in Conns, k \in Kinds : Send(c, k)
  \/ \E c \in Conns : Receive(c) \/ Close(c) \/ Recv(c)
  \/ Shutdown \/ Loop \/ Idle \/ Handle \/ Reply

\* The loop keeps running, the REP socket reads its peers in turn and delivers
\* what it is given.
Fairness ==
  /\ WF_vars(Loop \/ Idle \/ Handle \/ Reply)
  /\ \A c \in Conns : SF_vars(Recv(c)) /\ WF_vars(Receive(c))

Spec     == Init /\ [][Next]_vars
FairSpec == Spec /\ Fairness

-----------------------------------------------------------------------------
(* Properties. *)

\* The REP loop implements the service specification.
Service == INSTANCE PredictService WITH stopping <- shutdown
ImplementsService == Service!Spec

\* "Blocking poll / recv / send loop.  Returns after signal_shutdown."
ReturnsAfterShutdown == shutdown ~> pc = "exited"

-----------------------------------------------------------------------------
(* Why: the reply that a client receives is the one to its own request. *)

TypeOK ==
  /\ client \in [Conns -> Clients] /\ got \in [Conns -> SUBSET Replies]
  /\ inbox \subseteq Requests /\ cur \subseteq Requests
  /\ outbox \subseteq Replies /\ resp \subseteq Replies
  /\ shutdown \in BOOLEAN /\ pc \in {"loop", "poll", "handle", "send", "exited"}

\* What client c waits for an answer to.
Outstanding(c) == [conn |-> c, rid |-> client[c].rid, kind |-> client[c].kind]

\* Whatever is under way is of a client that did not get its answer yet, or has left.
Owed ==
  /\ \A r \in inbox \cup cur :
       client[r.conn].state # "idle" /\ (client[r.conn].state = "waiting" => r = Outstanding(r.conn))
  /\ \A m \in outbox :
       client[m.conn].state # "idle" /\ (client[m.conn].state = "waiting" => m = ReplyTo(Outstanding(m.conn)))

\* And it is at one place only.
OnePlace ==
  \A c \in Conns : client[c].state = "waiting" =>
    /\ Outstanding(c) \notin inbox \cap cur
    /\ Outstanding(c) \in inbox \cup cur => ReplyTo(Outstanding(c)) \notin outbox

\* A request is in hand until it is replied to.
InHand ==
  /\ pc \notin {"handle", "send"} => cur = {}
  /\ resp = IF pc = "send" THEN {HandleRequest(r) : r \in cur} ELSE {}

Inv == TypeOK /\ Owed /\ OnePlace /\ InHand
=============================================================================
