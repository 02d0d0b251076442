--------------------------- MODULE AsyncPipeline ----------------------------
(***************************************************************************)
(* VlaServer::run_async_router (serving/server.cpp): the two threads of    *)
(* the asynchronous inference server.  The receive thread owns the ROUTER  *)
(* socket: each turn it sends the pending replies, polls, receives at most *)
(* one request, parses and prepares it and queues it as a job.  The        *)
(* compute thread takes jobs in order and queues a reply for each.  Both   *)
(* queues are guarded by q_mu; q_cv wakes the compute thread.              *)
(*                                                                         *)
(* A critical section that touches only the queues is one action, enabled  *)
(* while q_mu is free.  The two that another thread's unlocked step can    *)
(* fall into are split: the drain of the replies, and the compute thread's *)
(* wait, which tests its predicate and then blocks.                        *)
(***************************************************************************)
EXTENDS PredictRequest, Sequences

VARIABLES
  client,    (* the clients                                                 *)
  got,       (* the last reply each connection received, as a set           *)
  inbox,     (* requests that have reached the ROUTER socket                *)
  outbox,    (* replies handed to the ROUTER socket, not yet delivered      *)
  shutdown,  (* s_shutdown_                                                 *)
  done,      (* done                                                        *)
  mutex,     (* the holder of q_mu: "free", "receive" or "compute"          *)
  jobs,      (* jobs                                                        *)
  replies,   (* replies                                                     *)
  rpc, cur,  (* receive thread: its next step, the request it handles       *)
  cpc, job   (* compute thread: its next step, the request it computes      *)

clientVars  == <<client, got>>
socketVars  == <<inbox, outbox>>
queueVars   == <<mutex, jobs, replies>>
receiveVars == <<rpc, cur>>
computeVars == <<cpc, job>>
vars == <<clientVars, socketVars, shutdown, done, queueVars, receiveVars, computeVars>>

RSteps == {"loop", "lock", "drain", "poll", "handle", "reject", "push", "notify",
           "setDone", "notifyAll", "join", "exited"}
CSteps == {"lock", "test", "block", "waiting", "compute", "exited"}

TypeOK ==
  /\ client \in [Conns -> Clients]
  /\ got \in [Conns -> SUBSET Replies]
  /\ inbox \subseteq Requests
  /\ outbox \subseteq Replies
  /\ shutdown \in BOOLEAN /\ done \in BOOLEAN
  /\ mutex \in {"free", "receive", "compute"}
  /\ jobs \in Seq(Requests)
  /\ replies \in Seq(Replies)
  /\ rpc \in RSteps /\ cur \subseteq Requests
  /\ cpc \in CSteps /\ job \subseteq Requests

Init ==
  /\ client = [c \in Conns |-> NewClient]
  /\ got = [c \in Conns |-> {}]
  /\ inbox = {} /\ outbox = {}
  /\ shutdown = FALSE /\ done = FALSE
  /\ mutex = "free" /\ jobs = <<>> /\ replies = <<>>
  /\ rpc = "loop" /\ cur = {}
  /\ cpc = "lock" /\ job = {}

-----------------------------------------------------------------------------
(* The clients and their sockets. *)

Send(c, k) ==
  LET r == [conn |-> c, rid |-> client[c].rid + 1, kind |-> k] IN
  /\ client[c].state = "idle"
  /\ client[c].rid < MaxRequests
  /\ client' = [client EXCEPT ![c] = [state |-> "waiting", rid |-> r.rid, kind |-> k]]
  /\ inbox' = inbox \cup {r}
  /\ UNCHANGED <<got, outbox, shutdown, done, queueVars, receiveVars, computeVars>>

\* A REQ socket takes whatever arrives on it as the reply to its request: the
\* client does not compare ids.
Receive(c) ==
  /\ client[c].state = "waiting"
  /\ \E m \in outbox :
       /\ m.conn = c
       /\ outbox' = outbox \ {m}
       /\ got' = [got EXCEPT ![c] = {m}]
  /\ client' = [client EXCEPT ![c].state = "idle"]
  /\ UNCHANGED <<inbox, shutdown, done, queueVars, receiveVars, computeVars>>

\* A client gives up: what was under way to it is lost, and a request that had
\* not reached the server may be.
Close(c) ==
  /\ client[c].state # "closed"
  /\ client' = [client EXCEPT ![c].state = "closed"]
  /\ outbox' = {m \in outbox : m.conn # c}
  /\ inbox' \in {inbox, {r \in inbox : r.conn # c}}
  /\ UNCHANGED <<got, shutdown, done, queueVars, receiveVars, computeVars>>

\* SIGINT or SIGTERM.
Signal ==
  /\ ~shutdown
  /\ shutdown' = TRUE
  /\ UNCHANGED <<clientVars, socketVars, done, queueVars, receiveVars, computeVars>>

-----------------------------------------------------------------------------
(* The receive thread. *)

RGoto(from, to) == rpc = from /\ rpc' = to

\* while (!s_shutdown_)
RLoop ==
  /\ RGoto("loop", IF shutdown THEN "setDone" ELSE "lock")
  /\ UNCHANGED <<clientVars, socketVars, shutdown, done, queueVars, cur, computeVars>>

RLock ==
  /\ RGoto("lock", "drain")
  /\ mutex = "free"
  /\ mutex' = "receive"
  /\ UNCHANGED <<clientVars, socketVars, shutdown, done, jobs, replies, cur, computeVars>>

\* ROUTER drops a reply whose peer is gone.
RSend ==
  /\ RGoto("drain", "drain")
  /\ replies # <<>>
  /\ replies' = Tail(replies)
  /\ outbox' = outbox \cup {m \in {Head(replies)} : client[m.conn].state # "closed"}
  /\ UNCHANGED <<clientVars, inbox, shutdown, done, mutex, jobs, cur, computeVars>>

RDrained ==
  /\ RGoto("drain", "poll")
  /\ replies = <<>>
  /\ mutex' = "free"
  /\ UNCHANGED <<clientVars, socketVars, shutdown, done, jobs, replies, cur, computeVars>>

\* The poll ends with nothing to read: its 10 ms are over, or a signal cut it.
RIdle ==
  /\ RGoto("poll", "loop")
  /\ inbox = {} \/ shutdown
  /\ UNCHANGED <<clientVars, socketVars, shutdown, done, queueVars, cur, computeVars>>

RRecv(c) ==
  /\ RGoto("poll", "handle")
  /\ \E r \in inbox :
       /\ r.conn = c
       /\ inbox' = inbox \ {r}
       /\ cur' = {r}
  /\ UNCHANGED <<clientVars, outbox, shutdown, done, queueVars, computeVars>>

\* The requests turned down by parse_request, or by prepare.
Rejected == Unparsable \cup {"unprepared"}

\* Mutant: a rejected request is skipped without a reply.
RHandleSilently ==
  /\ rpc = "handle"
  /\ \E r \in cur :
       /\ rpc' = IF r.kind \in Rejected THEN "loop" ELSE "push"
       /\ cur' = IF r.kind \in Rejected THEN {} ELSE cur
  /\ UNCHANGED <<clientVars, socketVars, shutdown, done, queueVars, computeVars>>

RHandle ==
  /\ rpc = "handle"
  /\ \E r \in cur : rpc' = IF r.kind \in Rejected THEN "reject" ELSE "push"
  /\ UNCHANGED <<clientVars, socketVars, shutdown, done, queueVars, cur, computeVars>>

\* Mutant: an error quotes the id of the request after.
RejectWrongId(r) == ErrorResponse(r.conn, r.rid + 1)

\* enqueue_reply of the error.
RejectResponse(r) ==
  IF r.kind \in Unparsable THEN ParseError(r) ELSE ErrorResponse(r.conn, r.rid)

RReject ==
  /\ RGoto("reject", "loop")
  /\ mutex = "free"
  /\ \E r \in cur : replies' = Append(replies, RejectResponse(r))
  /\ cur' = {}
  /\ UNCHANGED <<clientVars, socketVars, shutdown, done, mutex, jobs, computeVars>>

\* Mutant: the job is pushed without holding q_mu.
RPushUnlocked ==
  /\ RGoto("push", "notify")
  /\ \E r \in cur : jobs' = Append(jobs, r)
  /\ cur' = {}
  /\ UNCHANGED <<clientVars, socketVars, shutdown, done, mutex, replies, computeVars>>

RPush ==
  /\ RGoto("push", "notify")
  /\ mutex = "free"
  /\ \E r \in cur : jobs' = Append(jobs, r)
  /\ cur' = {}
  /\ UNCHANGED <<clientVars, socketVars, shutdown, done, mutex, replies, computeVars>>

\* notify_one and notify_all: the compute thread is the only one to wait.
Wake == cpc' = IF cpc = "waiting" THEN "lock" ELSE cpc

\* Mutant: the push is not followed by notify_one.
RNotifyNobody ==
  /\ RGoto("notify", "loop")
  /\ UNCHANGED <<clientVars, socketVars, shutdown, done, queueVars, cur, computeVars>>

RNotify ==
  /\ RGoto("notify", "loop")
  /\ Wake
  /\ UNCHANGED <<clientVars, socketVars, shutdown, done, queueVars, cur, job>>

\* done.store(true) is not under q_mu.
RSetDone ==
  /\ RGoto("setDone", "notifyAll")
  /\ done' = TRUE
  /\ UNCHANGED <<clientVars, socketVars, shutdown, queueVars, cur, computeVars>>

RNotifyAll ==
  /\ RGoto("notifyAll", "join")
  /\ Wake
  /\ UNCHANGED <<clientVars, socketVars, shutdown, done, queueVars, cur, job>>

\* The compute thread has been joined and run() returns.  The socket closes with
\* LINGER 0: what it has not delivered yet may be lost.
RJoin ==
  /\ RGoto("join", "exited")
  /\ cpc = "exited"
  /\ outbox' \in SUBSET outbox
  /\ UNCHANGED <<clientVars, inbox, shutdown, done, queueVars, cur, computeVars>>

-----------------------------------------------------------------------------
(* The compute thread. *)

CLock ==
  /\ cpc = "lock" /\ cpc' = "test"
  /\ mutex = "free"
  /\ mutex' = "compute"
  /\ UNCHANGED <<clientVars, socketVars, shutdown, done, jobs, replies, receiveVars, job>>

\* Mutant: wait's predicate looks at the queue only.
CTestQueueOnly ==
  /\ cpc = "test" /\ cpc' = "block"
  /\ jobs = <<>>
  /\ UNCHANGED <<clientVars, socketVars, shutdown, done, queueVars, receiveVars, job>>

\* wait's predicate is false: block, once q_mu is released.
CTestNothing ==
  /\ cpc = "test" /\ cpc' = "block"
  /\ jobs = <<>> /\ ~done
  /\ UNCHANGED <<clientVars, socketVars, shutdown, done, queueVars, receiveVars, job>>

\* wait releases q_mu and blocks in one step.
CBlock ==
  /\ cpc = "block" /\ cpc' = "waiting"
  /\ mutex' = "free"
  /\ UNCHANGED <<clientVars, socketVars, shutdown, done, jobs, replies, receiveVars, job>>

\* wait may return spuriously.
CSpurious ==
  /\ cpc = "waiting" /\ cpc' = "lock"
  /\ UNCHANGED <<clientVars, socketVars, shutdown, done, queueVars, receiveVars, job>>

\* Mutant: front without pop_front.
CPeek ==
  /\ cpc = "test" /\ cpc' = "compute"
  /\ jobs # <<>>
  /\ job' = {Head(jobs)}
  /\ mutex' = "free"
  /\ UNCHANGED <<clientVars, socketVars, shutdown, done, jobs, replies, receiveVars>>

CPop ==
  /\ cpc = "test" /\ cpc' = "compute"
  /\ jobs # <<>>
  /\ job' = {Head(jobs)}
  /\ jobs' = Tail(jobs)
  /\ mutex' = "free"
  /\ UNCHANGED <<clientVars, socketVars, shutdown, done, replies, receiveVars>>

\* Mutant: the thread leaves as soon as done is set.
CQuitAtOnce ==
  /\ cpc = "test" /\ cpc' = "exited"
  /\ done
  /\ mutex' = "free"
  /\ UNCHANGED <<clientVars, socketVars, shutdown, done, jobs, replies, receiveVars, job>>

CQuit ==
  /\ cpc = "test" /\ cpc' = "exited"
  /\ jobs = <<>> /\ done
  /\ mutex' = "free"
  /\ UNCHANGED <<clientVars, socketVars, shutdown, done, jobs, replies, receiveVars, job>>

\* Mutant: an empty action chunk is sent as if it were a result.
BuildUnchecked(r) == ActionResponse(r.conn, r.rid)

ComputeAndBuildResponse(r) ==
  IF r.kind = "failing" THEN ErrorResponse(r.conn, r.rid) ELSE ActionResponse(r.conn, r.rid)

\* compute_and_build_response runs without q_mu; this is the enqueue_reply after it.
CReply ==
  /\ cpc = "compute" /\ cpc' = "lock"
  /\ mutex = "free"
  /\ \E r \in job : replies' = Append(replies, ComputeAndBuildResponse(r))
  /\ job' = {}
  /\ UNCHANGED <<clientVars, socketVars, shutdown, done, mutex, jobs, receiveVars>>

-----------------------------------------------------------------------------
ClientStep  == \/ \E c \in Conns, k \in Kinds : Send(c, k)
               \/ \E c \in Conns : Receive(c) \/ Close(c)

ReceiveStep == \/ RLoop \/ RLock \/ RSend \/ RDrained \/ RIdle
               \/ \E c \in Conns : RRecv(c)
               \/ RHandle \/ RReject \/ RPush \/ RNotify
               \/ RSetDone \/ RNotifyAll \/ RJoin

ComputeStep == \/ CLock \/ CTestNothing \/ CBlock \/ CSpurious
               \/ CPop \/ CQuit \/ CReply

Next == ClientStep \/ Signal \/ ReceiveStep \/ ComputeStep

(***************************************************************************)
(* Both threads keep running, a thread that waits for q_mu gets it if it   *)
(* is free again and again (neither thread holds it across a poll or a     *)
(* computation), the ROUTER socket reads its peers in turn, and what it is *)
(* given it delivers.  Clients, signals and spurious wakeups owe nothing.  *)
(***************************************************************************)
Fairness ==
  /\ WF_vars(RLoop \/ RSend \/ RDrained \/ RIdle \/ RHandle \/ RNotify)
  /\ WF_vars(RSetDone \/ RNotifyAll \/ RJoin)
  /\ SF_vars(RLock) /\ SF_vars(RReject) /\ SF_vars(RPush)
  /\ \A c \in Conns : SF_vars(RRecv(c)) /\ WF_vars(Receive(c))
  /\ WF_vars(CTestNothing \/ CBlock \/ CPop \/ CQuit)
  /\ SF_vars(CLock) /\ SF_vars(CReply)

Spec     == Init /\ [][Next]_vars
FairSpec == Spec /\ Fairness

-----------------------------------------------------------------------------
(* Properties. *)

Waiting(c) == client[c].state = "waiting"
Request(c) == [conn |-> c, rid |-> client[c].rid, kind |-> client[c].kind]

ConnsOf(S)  == {m.conn : m \in S}
Elements(q) == {q[i] : i \in DOMAIN q}
OnePerConn(q) == \A i, j \in DOMAIN q : q[i].conn = q[j].conn => i = j

\* The places a request, or the reply to it, can be in.
PlaceNames == {"inbox", "cur", "jobs", "job", "replies", "outbox"}

Places ==
  [p \in PlaceNames |->
     CASE p = "inbox"   -> inbox
       [] p = "cur"     -> cur
       [] p = "jobs"    -> Elements(jobs)
       [] p = "job"     -> job
       [] p = "replies" -> Elements(replies)
       [] p = "outbox"  -> outbox]

\* No connection has two messages in P, the same place or two different ones.
OncePerConn(P) ==
  /\ \A p \in PlaceNames : \A m, n \in P[p] : m.conn = n.conn => m = n
  /\ \A p, q \in PlaceNames : p # q => ConnsOf(P[p]) \cap ConnsOf(P[q]) = {}

\* As long as run_async_router has not returned, the request a client waits on
\* is somewhere: no early `continue`, failed stage or hand-over between the two
\* threads drops one without a reply.
NothingLost ==
  rpc # "exited" => \A c \in Conns :
    Waiting(c) => \E p \in PlaceNames : c \in ConnsOf(Places[p])

\* It is there once: over the inbox, the two threads' hands, both queues and the
\* outbox, a connection never has two requests or replies under way, even after
\* its client has gone, so no client is answered twice.
AtMostOnce ==
  /\ OncePerConn(Places)
  /\ OnePerConn(jobs)
  /\ OnePerConn(replies)

\* No lost wakeup while serving: the compute thread sleeps on a queue with work
\* in it only while the notify_one that follows the push is still to come.
NoSleepOnWork == cpc \in {"block", "waiting"} /\ jobs # <<>> => rpc = "notify"

\* "drain in-flight jobs, then exit": when run_async_router returns, every job
\* it accepted has been computed.
DrainedAtExit == rpc = "exited" => cpc = "exited" /\ cur = {} /\ jobs = <<>> /\ job = {}

\* Who holds q_mu: a thread never keeps it across a poll, a prepare or a compute.
Locking ==
  /\ mutex = "receive" <=> rpc = "drain"
  /\ mutex = "compute" <=> cpc \in {"test", "block"}

\* A thread has one request in its hands, or none.
Hands ==
  /\ IF rpc \in {"handle", "reject", "push"} THEN \E r \in Requests : cur = {r} ELSE cur = {}
  /\ IF cpc = "compute" THEN \E r \in Requests : job = {r} ELSE job = {}

\* The compute thread is on its way to sleep, or gone, on an empty queue only.
Idleness ==
  /\ cpc = "block" => jobs = <<>>
  /\ cpc = "exited" => done /\ jobs = <<>>
  /\ done <=> rpc \in {"notifyAll", "join", "exited"}
  /\ rpc = "exited" => cpc = "exited"

\* Only what parse_request and prepare let through becomes a job.
Admission ==
  /\ rpc = "reject" => \A r \in cur : r.kind \in Rejected
  /\ rpc = "push" => \A r \in cur : r.kind \notin Rejected
  /\ \A r \in Elements(jobs) \cup job : r.kind \notin Rejected

\* What is under way for a connection still open is its outstanding request, or
\* the reply to it.
RequestPlaces == {"inbox", "cur", "jobs", "job"}

Owned ==
  \A p \in PlaceNames : \A m \in Places[p] :
    \/ client[m.conn].state = "closed"
    \/ /\ Waiting(m.conn)
       /\ m = IF p \in RequestPlaces THEN Request(m.conn) ELSE ReplyTo(Request(m.conn))

\* The inductive invariant.
Inv ==
  /\ TypeOK /\ Locking /\ Hands /\ Idleness /\ NoSleepOnWork /\ Admission
  /\ Owned /\ AtMostOnce /\ NothingLost

\* The pipeline implements the service specification: clients get the replies
\* their requests call for, and before shutdown always get one.
Service == INSTANCE PredictService WITH stopping <- shutdown
ImplementsService == Service!Spec

\* run_async_router returns after a shutdown during which the compute thread is
\* not caught between its predicate test and its block.
ShutdownReturns == rpc = "notifyAll" /\ cpc # "block" ~> rpc = "exited"

\* "Blocking poll / recv / send loop.  Returns after signal_shutdown."
ReturnsAfterShutdown == shutdown ~> rpc = "exited"
=============================================================================
