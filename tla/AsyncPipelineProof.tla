------------------------- MODULE AsyncPipelineProof -------------------------
(***************************************************************************)
(* Proofs about AsyncPipeline, for any set of connections, any kinds of    *)
(* request and any bound on the requests of a connection.                  *)
(***************************************************************************)
EXTENDS AsyncPipeline, SequenceTheorems, TLAPS

-----------------------------------------------------------------------------
(* Type correctness. *)

\* The reply to a request is a reply to the connection that sent it.
LEMMA ReplyType ==
  ASSUME NEW r \in Requests
  PROVE  ReplyTo(r) \in Replies /\ ReplyTo(r).conn = r.conn
BY ServiceAssumption DEF Requests, Replies, ReplyTo

LEMMA ResponseType ==
  ASSUME NEW r \in Requests
  PROVE  RejectResponse(r) \in Replies /\ ComputeAndBuildResponse(r) \in Replies
BY ServiceAssumption DEF Requests, Replies, RejectResponse, ComputeAndBuildResponse, ParseError,
                         ErrorResponse, ActionResponse

\* The error of a rejected request, and what comes of an admitted one, is the
\* reply it calls for.
LEMMA ResponseIsReply ==
  ASSUME NEW r \in Requests
  PROVE  /\ r.kind \in Rejected => RejectResponse(r) = ReplyTo(r)
         /\ r.kind \notin Rejected => ComputeAndBuildResponse(r) = ReplyTo(r)
BY ServiceAssumption DEF Requests, Rejected, Unparsable, RequestKinds, RejectResponse, ParseError,
     ComputeAndBuildResponse, ErrorResponse, ActionResponse, ReplyTo

LEMMA TypeInit == Init => TypeOK
<1> SUFFICES ASSUME Init PROVE TypeOK
  OBVIOUS
<1>1. NewClient \in Clients
  BY ServiceAssumption DEF NewClient, Clients
<1>2. client \in [Conns -> Clients] /\ got \in [Conns -> SUBSET Replies]
  BY <1>1 DEF Init
<1>3. <<>> \in Seq(Requests) /\ <<>> \in Seq(Replies)
  OBVIOUS
<1> QED BY <1>2, <1>3 DEF Init, TypeOK, RSteps, CSteps

LEMMA TypeClient == TypeOK /\ ClientStep => TypeOK'
<1> SUFFICES ASSUME TypeOK, ClientStep PROVE TypeOK'
  OBVIOUS
<1> USE DEF TypeOK, queueVars, receiveVars, computeVars
<1>1. ASSUME NEW c \in Conns, NEW k \in Kinds, Send(c, k) PROVE TypeOK'
  <2>1. client[c] \in Clients /\ client[c].rid + 1 \in 1..MaxRequests
    BY <1>1, ServiceAssumption DEF Send, Clients
  <2>2. [conn |-> c, rid |-> client[c].rid + 1, kind |-> k] \in Requests
    BY <2>1 DEF Requests
  <2>3. [state |-> "waiting", rid |-> client[c].rid + 1, kind |-> k] \in Clients
    BY <2>1, ServiceAssumption DEF Clients
  <2>4. client' \in [Conns -> Clients] /\ inbox' \subseteq Requests
    BY <1>1, <2>2, <2>3 DEF Send
  <2> QED BY <1>1, <2>4 DEF Send
<1>2. ASSUME NEW c \in Conns, Receive(c) PROVE TypeOK'
  <2>1. client' \in [Conns -> Clients]
    <3>1. [client[c] EXCEPT !.state = "idle"] \in Clients
      BY DEF Clients
    <3>2. client' = [client EXCEPT ![c] = [client[c] EXCEPT !.state = "idle"]]
      BY <1>2 DEF Receive
    <3> QED BY <3>1, <3>2
  <2>2. got' \in [Conns -> SUBSET Replies] /\ outbox' \subseteq Replies
    BY <1>2 DEF Receive
  <2> QED BY <1>2, <2>1, <2>2 DEF Receive
<1>3. ASSUME NEW c \in Conns, Close(c) PROVE TypeOK'
  <2>1. client' \in [Conns -> Clients]
    <3>1. [client[c] EXCEPT !.state = "closed"] \in Clients
      BY DEF Clients
    <3>2. client' = [client EXCEPT ![c] = [client[c] EXCEPT !.state = "closed"]]
      BY <1>3 DEF Close
    <3> QED BY <3>1, <3>2
  <2> QED BY <1>3, <2>1 DEF Close, clientVars
<1> QED BY <1>1, <1>2, <1>3 DEF ClientStep

LEMMA TypeReceive == TypeOK /\ ReceiveStep => TypeOK'
<1> SUFFICES ASSUME TypeOK, ReceiveStep PROVE TypeOK'
  OBVIOUS
<1> USE DEF TypeOK, clientVars, socketVars, queueVars, computeVars, RGoto, RSteps, CSteps
<1>1. CASE RLoop    BY <1>1 DEF RLoop
<1>2. CASE RLock    BY <1>2 DEF RLock
<1>3. CASE RSend
  <2>1. Tail(replies) \in Seq(Replies) /\ Head(replies) \in Replies
    BY <1>3 DEF RSend
  <2> QED BY <1>3, <2>1 DEF RSend
<1>4. CASE RDrained BY <1>4 DEF RDrained
<1>5. CASE RIdle    BY <1>5 DEF RIdle
<1>6. ASSUME NEW c \in Conns, RRecv(c) PROVE TypeOK'
  BY <1>6 DEF RRecv
<1>7. CASE RHandle  BY <1>7 DEF RHandle
<1>8. CASE RReject
  <2>1. PICK r \in cur : replies' = Append(replies, RejectResponse(r))
    BY <1>8 DEF RReject
  <2>2. replies' \in Seq(Replies)
    BY <2>1, ResponseType
  <2> QED BY <1>8, <2>2 DEF RReject
<1>9. CASE RPush
  <2>1. PICK r \in cur : jobs' = Append(jobs, r)
    BY <1>9 DEF RPush
  <2>2. jobs' \in Seq(Requests)
    BY <2>1
  <2> QED BY <1>9, <2>2 DEF RPush
<1>10. CASE RNotify    BY <1>10 DEF RNotify, Wake
<1>11. CASE RSetDone   BY <1>11 DEF RSetDone
<1>12. CASE RNotifyAll BY <1>12 DEF RNotifyAll, Wake
<1>13. CASE RJoin      BY <1>13 DEF RJoin
<1> QED BY <1>1, <1>2, <1>3, <1>4, <1>5, <1>6, <1>7, <1>8, <1>9, <1>10, <1>11, <1>12, <1>13
        DEF ReceiveStep

LEMMA TypeCompute == TypeOK /\ ComputeStep => TypeOK'
<1> SUFFICES ASSUME TypeOK, ComputeStep PROVE TypeOK'
  OBVIOUS
<1> USE DEF TypeOK, clientVars, socketVars, queueVars, receiveVars, CSteps
<1>1. CASE CLock        BY <1>1 DEF CLock
<1>2. CASE CTestNothing BY <1>2 DEF CTestNothing
<1>3. CASE CBlock       BY <1>3 DEF CBlock
<1>4. CASE CSpurious    BY <1>4 DEF CSpurious
<1>5. CASE CPop
  <2>1. Tail(jobs) \in Seq(Requests) /\ Head(jobs) \in Requests
    BY <1>5 DEF CPop
  <2> QED BY <1>5, <2>1 DEF CPop
<1>6. CASE CQuit        BY <1>6 DEF CQuit
<1>7. CASE CReply
  <2>1. PICK r \in job : replies' = Append(replies, ComputeAndBuildResponse(r))
    BY <1>7 DEF CReply
  <2>2. replies' \in Seq(Replies)
    BY <2>1, ResponseType
  <2> QED BY <1>7, <2>2 DEF CReply
<1> QED BY <1>1, <1>2, <1>3, <1>4, <1>5, <1>6, <1>7 DEF ComputeStep

LEMMA TypeNext == TypeOK /\ [Next]_vars => TypeOK'
<1> SUFFICES ASSUME TypeOK, [Next]_vars PROVE TypeOK'
  OBVIOUS
<1>1. CASE Signal
  BY <1>1 DEF Signal, TypeOK, clientVars, socketVars, queueVars, receiveVars, computeVars
<1>2. CASE UNCHANGED vars
  BY <1>2 DEF vars, TypeOK, clientVars, socketVars, queueVars, receiveVars, computeVars
<1> QED BY <1>1, <1>2, TypeClient, TypeReceive, TypeCompute DEF Next

\* Every variable of the pipeline keeps its type.
THEOREM TypeCorrect == Spec => []TypeOK
BY TypeInit, TypeNext, PTL DEF Spec

-----------------------------------------------------------------------------
(* Sequences of messages, and messages that move from one place to another. *)

LEMMA AppendElements ==
  ASSUME NEW S, NEW q \in Seq(S), NEW e \in S
  PROVE  /\ Elements(Append(q, e)) = Elements(q) \cup {e}
         /\ OnePerConn(q) /\ e.conn \notin ConnsOf(Elements(q)) => OnePerConn(Append(q, e))
<1>1. /\ DOMAIN Append(q, e) = 1..(Len(q) + 1)
      /\ DOMAIN q = 1..Len(q) /\ Len(q) \in Nat
      /\ \A i \in 1..Len(q) : Append(q, e)[i] = q[i]
      /\ Append(q, e)[Len(q) + 1] = e
  OBVIOUS
<1>2. Elements(Append(q, e)) = Elements(q) \cup {e}
  BY <1>1 DEF Elements
<1>3. ASSUME OnePerConn(q), e.conn \notin ConnsOf(Elements(q)) PROVE OnePerConn(Append(q, e))
  <2>1. \A i \in 1..Len(q) : q[i].conn # e.conn
    BY <1>1, <1>3 DEF ConnsOf, Elements
  <2> QED BY <1>1, <1>3, <2>1 DEF OnePerConn
<1> QED BY <1>2, <1>3

LEMMA TailInElements ==
  ASSUME NEW S, NEW q \in Seq(S), q # <<>>
  PROVE  Head(q) \in Elements(q) /\ Elements(Tail(q)) \subseteq Elements(q)
<1>1. /\ DOMAIN Tail(q) = 1..(Len(q) - 1)
      /\ DOMAIN q = 1..Len(q) /\ Len(q) \in Nat /\ Len(q) > 0
      /\ \A i \in 1..(Len(q) - 1) : Tail(q)[i] = q[i + 1] /\ i + 1 \in 1..Len(q)
      /\ Head(q) = q[1] /\ 1 \in 1..Len(q)
  OBVIOUS
<1> QED BY <1>1 DEF Elements

LEMMA TailElements ==
  ASSUME NEW S, NEW q \in Seq(S), q # <<>>, OnePerConn(q)
  PROVE  /\ Head(q) \in Elements(q)
         /\ Elements(Tail(q)) = Elements(q) \ {Head(q)}
         /\ OnePerConn(Tail(q))
<1>1. /\ DOMAIN Tail(q) = 1..(Len(q) - 1)
      /\ DOMAIN q = 1..Len(q) /\ Len(q) \in Nat /\ Len(q) > 0
      /\ \A i \in 1..(Len(q) - 1) : Tail(q)[i] = q[i + 1]
      /\ Head(q) = q[1]
  OBVIOUS
<1>2. OnePerConn(Tail(q))
  BY <1>1 DEF OnePerConn
<1>3. \A i \in 2..Len(q) : q[i] # q[1] /\ q[i] = Tail(q)[i - 1] /\ i - 1 \in 1..(Len(q) - 1)
  BY <1>1 DEF OnePerConn
<1>4. Elements(Tail(q)) = Elements(q) \ {Head(q)}
  <2>1. ASSUME NEW i \in 1..(Len(q) - 1) PROVE q[i + 1] \in Elements(q) \ {Head(q)}
    BY <1>1, <1>3 DEF Elements
  <2>2. ASSUME NEW i \in 1..Len(q), q[i] # Head(q) PROVE q[i] \in Elements(Tail(q))
    <3>1. i \in 2..Len(q)
      BY <1>1, <2>2
    <3>2. i - 1 \in DOMAIN Tail(q) /\ Tail(q)[i - 1] = q[i]
      BY <1>1, <1>3, <3>1
    <3> QED BY <3>2 DEF Elements
  <2> QED BY <1>1, <2>1, <2>2 DEF Elements
<1>5. Head(q) \in Elements(q)
  <2>1. 1 \in DOMAIN q
    BY <1>1
  <2> QED BY <1>1, <2>1 DEF Elements
<1> QED BY <1>2, <1>4, <1>5

\* A message that moves from place p to place q, on behalf of the same
\* connection, leaves at most one message per connection.
LEMMA MoveOnce ==
  ASSUME NEW P, NEW Q, NEW p \in PlaceNames, NEW q \in PlaceNames, p # q,
         NEW m \in P[p], NEW n, n.conn = m.conn, OncePerConn(P),
         Q[p] \subseteq P[p] \ {m}, Q[q] \subseteq P[q] \cup {n},
         \A r \in PlaceNames \ {p, q} : Q[r] \subseteq P[r]
  PROVE  OncePerConn(Q)
<1>1. \A r \in PlaceNames : \A x \in P[r] : x.conn = m.conn => r = p /\ x = m
  BY DEF OncePerConn, ConnsOf
<1>2. \A r \in PlaceNames : \A x \in Q[r] : x.conn = m.conn => r = q /\ x = n
  BY <1>1
<1>3. \A r \in PlaceNames : \A x \in Q[r] : x.conn # m.conn => x \in P[r]
  OBVIOUS
<1> QED BY <1>2, <1>3 DEF OncePerConn, ConnsOf

LEMMA ShrinkOnce ==
  ASSUME NEW P, NEW Q, OncePerConn(P), \A r \in PlaceNames : Q[r] \subseteq P[r]
  PROVE  OncePerConn(Q)
BY DEF OncePerConn, ConnsOf

LEMMA AddOnce ==
  ASSUME NEW P, NEW Q, NEW q \in PlaceNames, NEW n, OncePerConn(P),
         \A r \in PlaceNames : n.conn \notin ConnsOf(P[r]),
         Q[q] \subseteq P[q] \cup {n},
         \A r \in PlaceNames \ {q} : Q[r] \subseteq P[r]
  PROVE  OncePerConn(Q)
<1>1. \A r \in PlaceNames : \A x \in Q[r] : x.conn = n.conn => r = q /\ x = n
  BY DEF ConnsOf
<1>2. \A r \in PlaceNames : \A x \in Q[r] : x.conn # n.conn => x \in P[r]
  OBVIOUS
<1> QED BY <1>1, <1>2 DEF OncePerConn, ConnsOf

LEMMA PlacesAre ==
  /\ Places["inbox"] = inbox /\ Places["cur"] = cur
  /\ Places["jobs"] = Elements(jobs) /\ Places["job"] = job
  /\ Places["replies"] = Elements(replies) /\ Places["outbox"] = outbox
BY DEF Places, PlaceNames

LEMMA PlacesAreNext ==
  /\ Places'["inbox"] = inbox' /\ Places'["cur"] = cur'
  /\ Places'["jobs"] = Elements(jobs') /\ Places'["job"] = job'
  /\ Places'["replies"] = Elements(replies') /\ Places'["outbox"] = outbox'
BY DEF Places, PlaceNames, Elements

-----------------------------------------------------------------------------
(* The control part of the invariant. *)

Control == Locking /\ Hands /\ Idleness /\ NoSleepOnWork /\ Admission

LEMMA ControlInit == Init => Control
BY DEF Init, Control, Locking, Hands, Idleness, NoSleepOnWork, Admission, Elements

LEMMA AdmissionNext == TypeOK /\ Hands /\ Admission /\ [Next]_vars => Admission'
<1> SUFFICES ASSUME TypeOK, Hands, Admission, [Next]_vars PROVE Admission'
  OBVIOUS
<1> USE DEF Admission, clientVars, socketVars, queueVars, receiveVars, computeVars, RGoto
<1>a. jobs' = jobs => Elements(jobs') = Elements(jobs)
  OBVIOUS
<1>1. CASE ClientStep
  BY <1>1, <1>a DEF ClientStep, Send, Receive, Close
<1>2. CASE Signal \/ UNCHANGED vars
  BY <1>2, <1>a DEF Signal, vars
<1>3. CASE ReceiveStep
  <2>1. CASE RLoop \/ RLock \/ RSend \/ RDrained \/ RIdle
    BY <2>1, <1>a DEF RLoop, RLock, RSend, RDrained, RIdle
  <2>2. ASSUME NEW c \in Conns, RRecv(c) PROVE Admission'
    BY <2>2, <1>a DEF RRecv
  <2>3. CASE RHandle
    BY <2>3, <1>a DEF RHandle, Hands
  <2>4. CASE RReject
    BY <2>4, <1>a DEF RReject
  <2>5. CASE RPush
    <3>1. PICK r \in cur : cur = {r} /\ r \in Requests /\ jobs' = Append(jobs, r)
      BY <2>5 DEF RPush, Hands
    <3>2. Elements(jobs') = Elements(jobs) \cup {r}
      BY <3>1, AppendElements DEF TypeOK
    <3> QED BY <2>5, <3>1, <3>2 DEF RPush
  <2>6. CASE RNotify \/ RSetDone \/ RNotifyAll \/ RJoin
    BY <2>6, <1>a DEF RNotify, RSetDone, RNotifyAll, RJoin
  <2> QED BY <1>3, <2>1, <2>2, <2>3, <2>4, <2>5, <2>6 DEF ReceiveStep
<1>4. CASE ComputeStep
  <2>1. CASE CLock \/ CTestNothing \/ CBlock \/ CSpurious \/ CQuit \/ CReply
    BY <2>1, <1>a DEF CLock, CTestNothing, CBlock, CSpurious, CQuit, CReply
  <2>2. CASE CPop
    <3>1. job' = {Head(jobs)} /\ jobs' = Tail(jobs) /\ rpc' = rpc /\ cur' = cur
      BY <2>2 DEF CPop
    <3>2. Head(jobs) \in Elements(jobs) /\ Elements(jobs') \subseteq Elements(jobs)
      BY <2>2, <3>1, TailInElements DEF CPop, TypeOK
    <3> QED BY <3>1, <3>2
  <2> QED BY <1>4, <2>1, <2>2 DEF ComputeStep
<1> QED BY <1>1, <1>2, <1>3, <1>4 DEF Next

LEMMA ControlNext == TypeOK /\ Control /\ [Next]_vars => Control'
<1> SUFFICES ASSUME TypeOK, Locking, Hands, Idleness, NoSleepOnWork, [Next]_vars
             PROVE  (Locking /\ Hands /\ Idleness /\ NoSleepOnWork)'
  BY AdmissionNext DEF Control
<1> USE DEF Locking, Hands, Idleness, NoSleepOnWork
<1> USE DEF clientVars, socketVars, queueVars, receiveVars, computeVars, RGoto
<1>1. CASE ClientStep
  BY <1>1 DEF ClientStep, Send, Receive, Close
<1>2. CASE Signal
  BY <1>2 DEF Signal
<1>3. CASE UNCHANGED vars
  BY <1>3 DEF vars
<1>4. CASE ReceiveStep
  <2>1. CASE RLoop      BY <2>1 DEF RLoop
  <2>2. CASE RLock      BY <2>2 DEF RLock
  <2>3. CASE RSend      BY <2>3 DEF RSend
  <2>4. CASE RDrained   BY <2>4 DEF RDrained
  <2>5. CASE RIdle      BY <2>5 DEF RIdle
  <2>6. ASSUME NEW c \in Conns, RRecv(c) PROVE (Locking /\ Hands /\ Idleness /\ NoSleepOnWork)'
    BY <2>6 DEF RRecv, TypeOK
  <2>7. CASE RHandle    BY <2>7 DEF RHandle
  <2>8. CASE RReject    BY <2>8 DEF RReject
  <2>9. CASE RPush
    <3>1. jobs' # <<>>
      BY <2>9 DEF RPush, TypeOK
    <3> QED BY <2>9 DEF RPush
  <2>10. CASE RNotify    BY <2>10 DEF RNotify, Wake
  <2>11. CASE RSetDone   BY <2>11 DEF RSetDone
  <2>12. CASE RNotifyAll BY <2>12 DEF RNotifyAll, Wake
  <2>13. CASE RJoin      BY <2>13 DEF RJoin
  <2> QED BY <1>4, <2>1, <2>2, <2>3, <2>4, <2>5, <2>6, <2>7, <2>8, <2>9, <2>10, <2>11, <2>12,
             <2>13 DEF ReceiveStep
<1>5. CASE ComputeStep
  <2>1. CASE CLock        BY <2>1 DEF CLock
  <2>2. CASE CTestNothing BY <2>2 DEF CTestNothing
  <2>3. CASE CBlock       BY <2>3 DEF CBlock
  <2>4. CASE CSpurious    BY <2>4 DEF CSpurious
  <2>5. CASE CPop
    <3>1. Head(jobs) \in Requests
      BY <2>5 DEF CPop, TypeOK
    <3> QED BY <2>5, <3>1 DEF CPop
  <2>6. CASE CQuit        BY <2>6 DEF CQuit
  <2>7. CASE CReply       BY <2>7 DEF CReply
  <2> QED BY <1>5, <2>1, <2>2, <2>3, <2>4, <2>5, <2>6, <2>7 DEF ComputeStep
<1> QED BY <1>1, <1>2, <1>3, <1>4, <1>5 DEF Next

-----------------------------------------------------------------------------
(* The data part of the invariant: where the messages are, and whose. *)

Data == Owned /\ AtMostOnce /\ NothingLost

LEMMA DataInit == Init => Data
<1> SUFFICES ASSUME Init PROVE Data
  OBVIOUS
<1>1. \A p \in PlaceNames : Places[p] = {}
  BY PlacesAre DEF Init, PlaceNames, Elements
<1>2. OnePerConn(jobs) /\ OnePerConn(replies)
  BY DEF Init, OnePerConn
<1>3. \A c \in Conns : ~Waiting(c)
  BY DEF Init, Waiting, NewClient
<1> QED BY <1>1, <1>2, <1>3 DEF Data, Owned, AtMostOnce, OncePerConn, NothingLost, ConnsOf

\* Every message in a place comes from, or goes to, a connection.
LEMMA PlacesType ==
  ASSUME TypeOK
  PROVE  /\ \A p \in PlaceNames : \A m \in Places[p] : m.conn \in Conns
         /\ \A p \in RequestPlaces : Places[p] \subseteq Requests
<1>1. Elements(jobs) \subseteq Requests /\ Elements(replies) \subseteq Replies
  BY DEF TypeOK, Elements
<1> QED BY <1>1, PlacesAre DEF TypeOK, PlaceNames, RequestPlaces, Requests, Replies

\* A step that leaves the places and the clients alone.
LEMMA StillData ==
  ASSUME Data, UNCHANGED <<client, inbox, cur, jobs, job, replies, outbox>>,
         rpc = "exited" => rpc' = "exited"
  PROVE  Data'
<1>1. Places' = Places
  BY DEF Places, Elements
<1> QED BY <1>1 DEF Data, Owned, AtMostOnce, NothingLost, Waiting, Request

\* A step that moves one message, turning a request into its reply when it goes
\* from a request's place to a reply's.
LEMMA MoveData ==
  ASSUME TypeOK, Data, NEW p \in PlaceNames, NEW q \in PlaceNames, p # q,
         NEW m \in Places[p], NEW n,
         q \in RequestPlaces => p \in RequestPlaces,
         n = IF p \in RequestPlaces /\ q \notin RequestPlaces THEN ReplyTo(m) ELSE m,
         Places'[p] = Places[p] \ {m}, Places'[q] = Places[q] \cup {n},
         \A r \in PlaceNames \ {p, q} : Places'[r] = Places[r],
         client' = client, rpc # "exited"
  PROVE  Owned' /\ OncePerConn(Places)' /\ NothingLost'
<1>1. n.conn = m.conn
  <2>1. CASE p \in RequestPlaces /\ q \notin RequestPlaces
    BY <2>1, PlacesType, ReplyType
  <2> QED BY <2>1
<1>2. OncePerConn(Places)'
  <2> DEFINE P == Places
  <2> DEFINE Q == Places'
  <2>1. OncePerConn(P) /\ m \in P[p]
    BY DEF Data, AtMostOnce
  <2>2. /\ Q[p] \subseteq P[p] \ {m} /\ Q[q] \subseteq P[q] \cup {n}
        /\ \A r \in PlaceNames \ {p, q} : Q[r] \subseteq P[r]
    OBVIOUS
  <2> HIDE DEF P, Q
  <2>3. OncePerConn(Q)
    BY <1>1, <2>1, <2>2, MoveOnce
  <2> USE DEF P, Q
  <2> QED BY <2>3 DEF OncePerConn, ConnsOf
<1>3. NothingLost'
  BY <1>1 DEF Data, NothingLost, ConnsOf, Waiting
<1>4. Owned'
  <2>1. ASSUME NEW r \in PlaceNames, NEW x \in Places'[r], ~(r = q /\ x = n)
        PROVE  x \in Places[r]
    BY <2>1
  <2>2. \/ client[m.conn].state = "closed"
        \/ /\ Waiting(m.conn)
           /\ n = IF q \in RequestPlaces THEN Request(m.conn) ELSE ReplyTo(Request(m.conn))
    BY DEF Data, Owned
  <2> QED BY <1>1, <2>1, <2>2 DEF Data, Owned, Waiting, Request
<1> QED BY <1>2, <1>3, <1>4

\* A step that removes messages of closed connections, or of a connection whose
\* client it makes idle or closed.
LEMMA DropData ==
  ASSUME TypeOK, Data, NEW c \in Conns,
         client' \in [Conns -> Clients],
         \A d \in Conns \ {c} : client'[d] = client[d],
         ~Waiting(c)',
         \A r \in PlaceNames : Places'[r] \subseteq Places[r],
         \A r \in PlaceNames : \A m \in Places[r] : m.conn # c => m \in Places'[r],
         \/ client'[c].state = "closed"
         \/ \A r \in PlaceNames : \A m \in Places'[r] : m.conn # c,
         rpc # "exited"  \/ rpc' = "exited"
  PROVE  Owned' /\ OncePerConn(Places)' /\ NothingLost'
<1>1. OncePerConn(Places)'
  <2> DEFINE P == Places
  <2> DEFINE Q == Places'
  <2>1. OncePerConn(P)
    BY DEF Data, AtMostOnce
  <2>2. \A r \in PlaceNames : Q[r] \subseteq P[r]
    OBVIOUS
  <2> HIDE DEF P, Q
  <2>3. OncePerConn(Q)
    BY <2>1, <2>2, ShrinkOnce
  <2> USE DEF P, Q
  <2> QED BY <2>3 DEF OncePerConn, ConnsOf
<1>2. NothingLost'
  BY DEF Data, NothingLost, ConnsOf, Waiting
<1>3. Owned'
  <2> SUFFICES ASSUME NEW p \in PlaceNames, NEW m \in Places'[p]
               PROVE  \/ client'[m.conn].state = "closed"
                      \/ /\ Waiting(m.conn)'
                         /\ m = IF p \in RequestPlaces THEN Request(m.conn)'
                                                       ELSE ReplyTo(Request(m.conn)')
    BY DEF Owned, ReplyTo, Request
  <2>1. m \in Places[p] /\ m.conn \in Conns
    BY PlacesType
  <2>2. CASE m.conn = c
    BY <2>2
  <2>3. CASE m.conn # c
    BY <2>1, <2>3 DEF Data, Owned, Waiting, Request
  <2> QED BY <2>2, <2>3
<1> QED BY <1>1, <1>2, <1>3

LEMMA DataClient == TypeOK /\ Control /\ Data /\ ClientStep => Data'
<1> SUFFICES ASSUME TypeOK, Control, Data, ClientStep PROVE Data'
  OBVIOUS
<1> USE PlacesAre, PlacesAreNext DEF queueVars, receiveVars, computeVars, PlaceNames
<1>a. TypeOK'
  BY TypeClient
<1>b. OnePerConn(jobs)' /\ OnePerConn(replies)' /\ rpc' = rpc
      /\ Elements(jobs') = Elements(jobs) /\ Elements(replies') = Elements(replies)
  BY DEF ClientStep, Send, Receive, Close, Data, AtMostOnce, OnePerConn, Elements
<1>1. ASSUME NEW c \in Conns, NEW k \in Kinds, Send(c, k) PROVE Data'
  <2> DEFINE r == [conn |-> c, rid |-> client[c].rid + 1, kind |-> k]
  <2>1. \A p \in PlaceNames : \A m \in Places[p] : m.conn # c
    BY <1>1 DEF Send, Data, Owned, Waiting
  <2>2. /\ Places'["inbox"] = Places["inbox"] \cup {r}
        /\ \A p \in PlaceNames \ {"inbox"} : Places'[p] = Places[p]
    BY <1>1, <1>b DEF Send
  <2>3. OncePerConn(Places)'
    <3> DEFINE P == Places
    <3> DEFINE Q == Places'
    <3>1. OncePerConn(P) /\ \A p \in PlaceNames : r.conn \notin ConnsOf(P[p])
      BY <2>1 DEF Data, AtMostOnce, ConnsOf
    <3>2. Q["inbox"] \subseteq P["inbox"] \cup {r}
          /\ \A p \in PlaceNames \ {"inbox"} : Q[p] \subseteq P[p]
      BY <2>2
    <3> HIDE DEF P, Q, r
    <3>3. OncePerConn(Q)
      BY <3>1, <3>2, AddOnce
    <3> USE DEF P, Q
    <3> QED BY <3>3 DEF OncePerConn, ConnsOf
  <2>4. /\ client'[c].state = "waiting" /\ client'[c].rid = r.rid /\ client'[c].kind = k
        /\ \A d \in Conns \ {c} : client'[d] = client[d]
    BY <1>1 DEF Send, TypeOK
  <2>5. Owned'
    <3>1. \A p \in PlaceNames : \A m \in Places[p] : m.conn \in Conns \ {c}
      BY <2>1, PlacesType
    <3>2. "inbox" \in RequestPlaces
      BY DEF RequestPlaces
    <3>3. r = Request(c)' /\ Waiting(c)'
      BY <2>4 DEF Request, Waiting
    <3> HIDE DEF r
    <3>4. ASSUME NEW p \in PlaceNames, NEW m \in Places'[p]
          PROVE  \/ client'[m.conn].state = "closed"
                 \/ /\ Waiting(m.conn)'
                    /\ m = IF p \in RequestPlaces THEN Request(m.conn)'
                                                  ELSE ReplyTo(Request(m.conn)')
      <4>1. CASE p = "inbox" /\ m = r
        BY <4>1, <3>2, <3>3, <2>4 DEF Request, r
      <4>2. CASE m \in Places[p]
        BY <4>2, <3>1, <2>4 DEF Data, Owned, Waiting, Request
      <4> QED BY <4>1, <4>2, <2>2
    <3> QED BY <3>4 DEF Owned, ReplyTo, Request
  <2>6. NothingLost'
    <3>1. c \in ConnsOf(Places'["inbox"])
      BY <2>2 DEF ConnsOf
    <3>2. \A p \in PlaceNames : ConnsOf(Places[p]) \subseteq ConnsOf(Places'[p])
      BY <2>2 DEF ConnsOf
    <3>3. \A d \in Conns \ {c} : Waiting(d)' => Waiting(d)
      BY <2>4 DEF Waiting
    <3> QED BY <1>b, <3>1, <3>2, <3>3 DEF Data, NothingLost
  <2> QED BY <1>b, <2>3, <2>5, <2>6 DEF Data, AtMostOnce
<1>2. ASSUME NEW c \in Conns, Receive(c) PROVE Data'
  <2>1. PICK m \in outbox : m.conn = c /\ outbox' = outbox \ {m}
    BY <1>2 DEF Receive
  <2>2. \A r \in PlaceNames : \A x \in Places[r] : x.conn = c => r = "outbox" /\ x = m
    BY <2>1 DEF Data, AtMostOnce, OncePerConn, ConnsOf
  <2>3. /\ Places'["outbox"] = Places["outbox"] \ {m}
        /\ \A r \in PlaceNames \ {"outbox"} : Places'[r] = Places[r]
    BY <1>2, <1>b, <2>1 DEF Receive
  <2>4. \A r \in PlaceNames : \A x \in Places'[r] : x.conn # c
    BY <2>2, <2>3
  <2>5. client'[c].state = "idle" /\ \A d \in Conns \ {c} : client'[d] = client[d]
    BY <1>2 DEF Receive, TypeOK, Clients
  <2>6. Owned' /\ OncePerConn(Places)' /\ NothingLost'
    BY <1>a, <1>b, <2>1, <2>3, <2>4, <2>5, DropData DEF TypeOK, Waiting
  <2> QED BY <1>b, <2>6 DEF Data, AtMostOnce
<1>3. ASSUME NEW c \in Conns, Close(c) PROVE Data'
  <2>1. client'[c].state = "closed" /\ \A d \in Conns \ {c} : client'[d] = client[d]
    BY <1>3 DEF Close, TypeOK, Clients
  <2>2. /\ \A r \in PlaceNames : Places'[r] \subseteq Places[r]
        /\ \A r \in PlaceNames : \A m \in Places[r] : m.conn # c => m \in Places'[r]
    BY <1>3, <1>b DEF Close
  <2>3. Owned' /\ OncePerConn(Places)' /\ NothingLost'
    BY <1>a, <1>b, <2>1, <2>2, DropData DEF TypeOK, Waiting
  <2> QED BY <1>b, <2>3 DEF Data, AtMostOnce
<1> QED BY <1>1, <1>2, <1>3 DEF ClientStep

LEMMA DataReceive == TypeOK /\ Control /\ Data /\ ReceiveStep => Data'
<1> SUFFICES ASSUME TypeOK, Control, Data, ReceiveStep PROVE Data'
  OBVIOUS
<1> USE PlacesAre, PlacesAreNext
    DEF clientVars, socketVars, queueVars, computeVars, RGoto, PlaceNames, RequestPlaces
<1>a. OnePerConn(jobs) /\ OnePerConn(replies)
  BY DEF Data, AtMostOnce
<1>b. jobs' = jobs => OnePerConn(jobs') /\ Elements(jobs') = Elements(jobs)
  BY <1>a
<1>c. replies' = replies => OnePerConn(replies') /\ Elements(replies') = Elements(replies)
  BY <1>a
<1>1. CASE RLoop \/ RLock \/ RDrained \/ RIdle \/ RHandle \/ RNotify \/ RSetDone \/ RNotifyAll
  <2>1. UNCHANGED <<client, inbox, cur, jobs, job, replies, outbox>>
    BY <1>1 DEF RLoop, RLock, RDrained, RIdle, RHandle, RNotify, RSetDone, RNotifyAll
  <2>2. rpc # "exited"
    BY <1>1 DEF RLoop, RLock, RDrained, RIdle, RHandle, RNotify, RSetDone, RNotifyAll
  <2> QED BY <2>1, <2>2, StillData
<1>2. CASE RSend
  <2>0. PICK m : m = Head(replies)
    OBVIOUS
  <2>1. /\ m \in Replies /\ m \in Elements(replies)
        /\ Elements(replies') = Elements(replies) \ {m} /\ OnePerConn(replies')
    BY <1>2, <1>a, <2>0, TailElements DEF RSend, TypeOK
  <2>2. /\ Places'["replies"] = Places["replies"] \ {m}
        /\ \A r \in PlaceNames \ {"replies", "outbox"} : Places'[r] = Places[r]
    BY <1>2, <1>b, <2>1 DEF RSend
  <2>3. OnePerConn(jobs') /\ client' = client /\ rpc # "exited" /\ m.conn \in Conns
    BY <1>2, <1>b, <2>1 DEF RSend, Replies
  <2>4. CASE client[m.conn].state = "closed"
    <3>1. Places'["outbox"] = Places["outbox"]
      BY <1>2, <2>0, <2>4 DEF RSend
    <3>2. \A x \in Places["replies"] : x.conn # m.conn => x \in Places'["replies"]
      BY <2>2
    <3>3. client' \in [Conns -> Clients] /\ ~Waiting(m.conn)'
      BY <2>3, <2>4 DEF TypeOK, Waiting
    <3>4. Owned' /\ OncePerConn(Places)' /\ NothingLost'
      BY <2>2, <2>3, <2>4, <3>1, <3>2, <3>3, DropData
    <3> QED BY <2>1, <2>3, <3>4 DEF Data, AtMostOnce, OnePerConn
  <2>5. CASE client[m.conn].state # "closed"
    <3>1. Places'["outbox"] = Places["outbox"] \cup {m}
      BY <1>2, <2>0, <2>5 DEF RSend
    <3>2. Owned' /\ OncePerConn(Places)' /\ NothingLost'
      BY <2>1, <2>2, <2>3, <3>1, MoveData
    <3> QED BY <2>1, <2>3, <3>2 DEF Data, AtMostOnce, OnePerConn
  <2> QED BY <2>4, <2>5
<1>3. ASSUME NEW c \in Conns, RRecv(c) PROVE Data'
  <2>1. PICK r \in inbox : r.conn = c /\ inbox' = inbox \ {r} /\ cur' = {r}
    BY <1>3 DEF RRecv
  <2>2. cur = {} /\ rpc # "exited"
    BY <1>3 DEF RRecv, Control, Hands
  <2>3. /\ Places'["inbox"] = Places["inbox"] \ {r} /\ Places'["cur"] = Places["cur"] \cup {r}
        /\ \A p \in PlaceNames \ {"inbox", "cur"} : Places'[p] = Places[p]
    BY <1>3, <1>b, <1>c, <2>1, <2>2 DEF RRecv
  <2>4. client' = client /\ r \in Places["inbox"]
    BY <1>3, <2>1 DEF RRecv
  <2>5. Owned' /\ OncePerConn(Places)' /\ NothingLost'
    BY <2>2, <2>3, <2>4, MoveData
  <2> QED BY <1>3, <1>b, <1>c, <2>5 DEF RRecv, Data, AtMostOnce, OnePerConn
<1>4. CASE RReject
  <2>1. PICK r \in cur : cur = {r} /\ r \in Requests
    BY <1>4 DEF RReject, Control, Hands
  <2>2. replies' = Append(replies, ReplyTo(r)) /\ cur' = {} /\ client' = client /\ rpc # "exited"
    BY <1>4, <2>1, ResponseIsReply DEF RReject, Control, Admission
  <2>3. r.conn \notin ConnsOf(Elements(replies))
    BY <2>1 DEF Data, AtMostOnce, OncePerConn, ConnsOf
  <2>4. Elements(replies') = Elements(replies) \cup {ReplyTo(r)} /\ OnePerConn(replies')
    BY <1>a, <2>1, <2>2, <2>3, ReplyType, AppendElements DEF TypeOK
  <2>5. /\ Places'["cur"] = Places["cur"] \ {r}
        /\ Places'["replies"] = Places["replies"] \cup {ReplyTo(r)}
        /\ \A p \in PlaceNames \ {"cur", "replies"} : Places'[p] = Places[p]
    BY <1>4, <1>b, <2>1, <2>2, <2>4 DEF RReject
  <2>6. Owned' /\ OncePerConn(Places)' /\ NothingLost'
    BY <2>1, <2>2, <2>5, MoveData
  <2> QED BY <1>4, <1>b, <2>4, <2>6 DEF RReject, Data, AtMostOnce, OnePerConn
<1>5. CASE RPush
  <2>1. PICK r \in cur : cur = {r} /\ r \in Requests
    BY <1>5 DEF RPush, Control, Hands
  <2>2. jobs' = Append(jobs, r) /\ cur' = {} /\ client' = client /\ rpc # "exited"
    BY <1>5, <2>1 DEF RPush
  <2>3. r.conn \notin ConnsOf(Elements(jobs))
    BY <2>1 DEF Data, AtMostOnce, OncePerConn, ConnsOf
  <2>4. Elements(jobs') = Elements(jobs) \cup {r} /\ OnePerConn(jobs')
    BY <1>a, <2>1, <2>2, <2>3, AppendElements DEF TypeOK
  <2>5. /\ Places'["cur"] = Places["cur"] \ {r} /\ Places'["jobs"] = Places["jobs"] \cup {r}
        /\ \A p \in PlaceNames \ {"cur", "jobs"} : Places'[p] = Places[p]
    BY <1>5, <1>c, <2>1, <2>2, <2>4 DEF RPush
  <2>6. Owned' /\ OncePerConn(Places)' /\ NothingLost'
    BY <2>1, <2>2, <2>5, MoveData
  <2> QED BY <1>5, <1>c, <2>4, <2>6 DEF RPush, Data, AtMostOnce, OnePerConn
<1>6. CASE RJoin
  <2>1. /\ \A r \in PlaceNames : Places'[r] \subseteq Places[r]
        /\ client' = client /\ rpc' = "exited"
    BY <1>6, <1>b, <1>c DEF RJoin
  <2>2. OncePerConn(Places)'
    <3> DEFINE P == Places
    <3> DEFINE Q == Places'
    <3>1. OncePerConn(P) /\ \A r \in PlaceNames : Q[r] \subseteq P[r]
      BY <2>1 DEF Data, AtMostOnce
    <3> HIDE DEF P, Q
    <3>2. OncePerConn(Q)
      BY <3>1, ShrinkOnce
    <3> USE DEF P, Q
    <3> QED BY <3>2 DEF OncePerConn, ConnsOf
  <2>3. Owned'
    BY <2>1 DEF Data, Owned, Waiting, Request
  <2>4. NothingLost'
    BY <2>1 DEF NothingLost
  <2> QED BY <1>6, <1>b, <1>c, <2>2, <2>3, <2>4 DEF RJoin, Data, AtMostOnce, OnePerConn
<1> QED BY <1>1, <1>2, <1>3, <1>4, <1>5, <1>6 DEF ReceiveStep

LEMMA DataCompute == TypeOK /\ Control /\ Data /\ ComputeStep => Data'
<1> SUFFICES ASSUME TypeOK, Control, Data, ComputeStep PROVE Data'
  OBVIOUS
<1> USE PlacesAre, PlacesAreNext
    DEF clientVars, socketVars, queueVars, receiveVars, PlaceNames, RequestPlaces
<1>a. OnePerConn(jobs) /\ OnePerConn(replies)
  BY DEF Data, AtMostOnce
<1>1. CASE CLock \/ CTestNothing \/ CBlock \/ CSpurious \/ CQuit
  <2>1. UNCHANGED <<client, inbox, cur, jobs, job, replies, outbox, rpc>>
    BY <1>1 DEF CLock, CTestNothing, CBlock, CSpurious, CQuit
  <2> QED BY <2>1, StillData
<1>2. CASE CPop
  <2> DEFINE r == Head(jobs)
  <2>1. /\ r \in Elements(jobs)
        /\ Elements(jobs') = Elements(jobs) \ {r} /\ OnePerConn(jobs')
    BY <1>2, <1>a, TailElements DEF CPop, TypeOK
  <2>2. job = {} /\ rpc # "exited" /\ client' = client
    BY <1>2 DEF CPop, Control, Hands, Idleness
  <2>3. /\ Places'["jobs"] = Places["jobs"] \ {r} /\ Places'["job"] = Places["job"] \cup {r}
        /\ \A p \in PlaceNames \ {"jobs", "job"} : Places'[p] = Places[p]
    BY <1>2, <2>1, <2>2 DEF CPop
  <2>4. Owned' /\ OncePerConn(Places)' /\ NothingLost'
    BY <2>1, <2>2, <2>3, MoveData
  <2> QED BY <1>2, <1>a, <2>1, <2>4 DEF CPop, Data, AtMostOnce, OnePerConn
<1>3. CASE CReply
  <2>1. PICK r \in job : job = {r} /\ r \in Requests
    BY <1>3 DEF CReply, Control, Hands
  <2>2. /\ replies' = Append(replies, ReplyTo(r)) /\ job' = {} /\ client' = client
        /\ rpc # "exited"
    BY <1>3, <2>1, ResponseIsReply DEF CReply, Control, Idleness, Admission
  <2>3. r.conn \notin ConnsOf(Elements(replies))
    BY <2>1 DEF Data, AtMostOnce, OncePerConn, ConnsOf
  <2>4. Elements(replies') = Elements(replies) \cup {ReplyTo(r)} /\ OnePerConn(replies')
    BY <1>a, <2>1, <2>2, <2>3, ReplyType, AppendElements DEF TypeOK
  <2>5. /\ Places'["job"] = Places["job"] \ {r}
        /\ Places'["replies"] = Places["replies"] \cup {ReplyTo(r)}
        /\ \A p \in PlaceNames \ {"job", "replies"} : Places'[p] = Places[p]
    BY <1>3, <2>1, <2>2, <2>4 DEF CReply
  <2>6. Owned' /\ OncePerConn(Places)' /\ NothingLost'
    BY <2>1, <2>2, <2>5, MoveData
  <2> QED BY <1>3, <1>a, <2>4, <2>6 DEF CReply, Data, AtMostOnce, OnePerConn
<1> QED BY <1>1, <1>2, <1>3 DEF ComputeStep

-----------------------------------------------------------------------------
(* The theorems. *)

\* Inv is inductive.
THEOREM Invariance == Spec => []Inv
<1>1. Init => Inv
  BY TypeInit, ControlInit, DataInit DEF Inv, Control, Data
<1>2. Inv /\ [Next]_vars => Inv'
  <2> SUFFICES ASSUME Inv, [Next]_vars PROVE Inv'
    OBVIOUS
  <2>1. TypeOK /\ Control /\ Data
    BY DEF Inv, Control, Data
  <2>2. TypeOK'
    BY <2>1, TypeNext
  <2>3. Control'
    BY <2>1, ControlNext
  <2>4. Data'
    <3>1. CASE Signal \/ UNCHANGED vars
      <4>1. UNCHANGED <<client, inbox, cur, jobs, job, replies, outbox, rpc>>
        BY <3>1 DEF Signal, vars, clientVars, socketVars, queueVars, receiveVars, computeVars
      <4> QED BY <2>1, <4>1, StillData
    <3> QED BY <2>1, <3>1, DataClient, DataReceive, DataCompute DEF Next
  <2> QED BY <2>2, <2>3, <2>4 DEF Inv, Control, Data
<1> QED BY <1>1, <1>2, PTL DEF Spec

\* No request is dropped: what a client waits for is somewhere under way, at every
\* moment, for any number of clients and requests.
THEOREM RequestsConserved == Spec => []NothingLost
<1>1. Inv => NothingLost
  BY DEF Inv
<1> QED BY <1>1, Invariance, PTL

\* A client's request, or the reply to it, is in one place only: it is not computed
\* twice nor answered twice.
THEOREM NoDuplicates == Spec => []AtMostOnce
<1>1. Inv => AtMostOnce
  BY DEF Inv
<1> QED BY <1>1, Invariance, PTL

\* What is under way for a client that waits is its own request, or the reply that
\* this request calls for.
THEOREM NoMixups == Spec => []Owned
<1>1. Inv => Owned
  BY DEF Inv
<1> QED BY <1>1, Invariance, PTL

\* The compute thread never sleeps on work, unless its notify_one is to come.
THEOREM NoLostWakeup == Spec => []NoSleepOnWork
<1>1. Inv => NoSleepOnWork
  BY DEF Inv
<1> QED BY <1>1, Invariance, PTL

\* When run_async_router returns, every accepted job has been computed.
THEOREM Drained == Spec => []DrainedAtExit
<1>1. Inv => DrainedAtExit
  BY DEF Inv, Hands, Idleness, DrainedAtExit
<1> QED BY <1>1, Invariance, PTL

\* The pipeline implements the service: a step either is a step of the service,
\* as the clients see it, or changes nothing they see.  In particular a client is
\* only ever handed the reply its own outstanding request calls for.
THEOREM Refinement == Spec => Service!SafeSpec
<1>1. Init => Service!Init
  BY DEF Init, NewClient, Service!Init, Service!NewClient
<1>2. Inv /\ [Next]_vars => [Service!Next]_(Service!vars)
  <2> SUFFICES ASSUME Inv, Next PROVE Service!Next \/ UNCHANGED Service!vars
    BY DEF vars, clientVars, Service!vars
  <2>1. ASSUME NEW c \in Conns, NEW k \in Kinds, Send(c, k) PROVE Service!Next
    BY <2>1 DEF Send, Service!Send, Service!Next
  <2>2. ASSUME NEW c \in Conns, Receive(c) PROVE Service!Next
    <3>1. PICK m \in outbox : m.conn = c /\ got' = [got EXCEPT ![c] = {m}]
      BY <2>2 DEF Receive
    <3>2. m = ReplyTo(Request(c))
      BY <2>2, <3>1, PlacesAre DEF Receive, Inv, Owned, PlaceNames, RequestPlaces
    <3>3. Service!Answer(c)
      BY <2>2, <3>1, <3>2 DEF Receive, Request, ReplyTo, Service!Answer, Service!ReplyTo
    <3> QED BY <3>3 DEF Service!Next
  <2>3. ASSUME NEW c \in Conns, Close(c) PROVE Service!Next
    BY <2>3 DEF Close, Service!Close, Service!Next
  <2>4. CASE Signal
    BY <2>4 DEF Signal, clientVars, Service!Stop, Service!Next
  <2>5. CASE ReceiveStep
    BY <2>5 DEF ReceiveStep, RLoop, RLock, RSend, RDrained, RIdle, RRecv, RHandle, RReject,
                RPush, RNotify, RSetDone, RNotifyAll, RJoin, clientVars, Service!vars
  <2>6. CASE ComputeStep
    BY <2>6 DEF ComputeStep, CLock, CTestNothing, CBlock, CSpurious, CPop, CQuit, CReply,
                clientVars, Service!vars
  <2> QED BY <2>1, <2>2, <2>3, <2>4, <2>5, <2>6 DEF Next, ClientStep
<1> QED BY <1>1, <1>2, Invariance, PTL DEF Spec, Service!SafeSpec
=============================================================================
