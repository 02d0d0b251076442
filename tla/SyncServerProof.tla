--------------------------- MODULE SyncServerProof ---------------------------
(***************************************************************************)
(* The REP loop keeps the safety half of what PredictService promises, for *)
(* any set of connections, any kinds of request and any bound on the       *)
(* requests of a connection.                                               *)
(***************************************************************************)
EXTENDS SyncServer, TLAPS

-----------------------------------------------------------------------------
(* Requests and replies. *)

\* What handle_request returns is the reply that the request calls for.
LEMMA HandledIs ==
  ASSUME NEW r \in Requests
  PROVE  /\ HandleRequest(r) = ReplyTo(r) /\ ReplyTo(r) \in Replies
         /\ ReplyTo(r).conn = r.conn /\ r.conn \in Conns
<1>1. r.conn \in Conns /\ r.rid \in 1..MaxRequests /\ r.kind \in RequestKinds /\ MaxRequests \in Nat
  BY ServiceAssumption DEF Requests
<1>2. HandleRequest(r) = ReplyTo(r)
  BY <1>1 DEF RequestKinds, HandleRequest, ParseError, ErrorResponse, ActionResponse, Unparsable, ReplyTo
<1>3. ReplyTo(r) \in Replies /\ ReplyTo(r).conn = r.conn
  BY <1>1 DEF ReplyTo, Replies
<1> QED BY <1>1, <1>2, <1>3

\* A request that a client waits for says whose it is.
LEMMA OutstandingIs ==
  ASSUME NEW c
  PROVE  Outstanding(c).conn = c /\ ReplyTo(Outstanding(c)).conn = c
BY DEF Outstanding, ReplyTo

\* Nothing is under way at first.
LEMMA InitInv == Init => Inv
<1> SUFFICES ASSUME Init PROVE Inv
  OBVIOUS
<1>1. NewClient \in Clients
  BY ServiceAssumption DEF NewClient, Clients
<1>2. TypeOK
  BY <1>1 DEF Init, TypeOK
<1>3. Owed /\ OnePlace /\ InHand
  BY DEF Init, Owed, OnePlace, InHand
<1> QED BY <1>2, <1>3 DEF Inv

\* A client sends when nothing of it is under way.
LEMMA SendInv == ASSUME Inv, NEW c \in Conns, NEW k \in Kinds, Send(c, k) PROVE Inv'
<1> DEFINE r == [conn |-> c, rid |-> client[c].rid + 1, kind |-> k]
<1>1. /\ client[c].state = "idle" /\ client[c].rid < MaxRequests
      /\ client' = [client EXCEPT ![c] = [state |-> "waiting", rid |-> r.rid, kind |-> k]]
      /\ inbox' = inbox \cup {r} /\ UNCHANGED <<got, outbox, shutdown, pc, cur, resp>>
  BY DEF Send
<1>2. TypeOK /\ Owed /\ OnePlace /\ InHand
  BY DEF Inv
<1>3. r \in Requests /\ [state |-> "waiting", rid |-> r.rid, kind |-> k] \in Clients
  BY <1>1, <1>2, ServiceAssumption DEF TypeOK, Clients, Requests
<1>4. TypeOK'
  BY <1>1, <1>2, <1>3 DEF TypeOK
<1>5. client'[c] = [state |-> "waiting", rid |-> r.rid, kind |-> k] /\ \A d \in Conns : d # c => client'[d] = client[d]
  BY <1>1, <1>2 DEF TypeOK
<1>6. Outstanding(c)' = r /\ \A d \in Conns : d # c => Outstanding(d)' = Outstanding(d)
  BY <1>5 DEF Outstanding
<1>7. \A q \in inbox \cup cur \cup outbox : q.conn \in Conns /\ q.conn # c
  BY <1>1, <1>2 DEF TypeOK, Owed, Requests, Replies
<1> HIDE DEF r
<1>8. r.conn = c
  BY DEF r
<1>9. Owed'
  <2>1. ASSUME NEW q \in inbox' \cup cur'
        PROVE  client'[q.conn].state # "idle" /\ (client'[q.conn].state = "waiting" => q = Outstanding(q.conn)')
    <3>1. CASE q = r
      BY <1>5, <1>6, <1>8, <3>1
    <3>2. CASE q \in inbox \cup cur
      <4>1. client'[q.conn] = client[q.conn] /\ Outstanding(q.conn)' = Outstanding(q.conn)
        BY <1>5, <1>6, <1>7, <3>2
      <4> QED BY <1>2, <3>2, <4>1 DEF Owed
    <3> QED BY <1>1, <2>1, <3>1, <3>2
  <2>2. ASSUME NEW m \in outbox'
        PROVE  /\ client'[m.conn].state # "idle"
               /\ client'[m.conn].state = "waiting" => m = ReplyTo(Outstanding(m.conn)')
    <3>1. m \in outbox /\ client'[m.conn] = client[m.conn] /\ Outstanding(m.conn)' = Outstanding(m.conn)
      BY <1>1, <1>5, <1>6, <1>7, <2>2
    <3> QED BY <1>2, <3>1 DEF Owed
  <2> QED BY <2>1, <2>2 DEF Owed, ReplyTo
<1>10. OnePlace'
  <2> SUFFICES ASSUME NEW d \in Conns, client'[d].state = "waiting"
               PROVE  /\ Outstanding(d)' \notin inbox' \cap cur'
                      /\ Outstanding(d)' \in inbox' \cup cur' => ReplyTo(Outstanding(d)') \notin outbox'
    BY DEF OnePlace, ReplyTo
  <2>1. CASE d = c
    <3>1. r \notin cur /\ ReplyTo(r) \notin outbox
      BY <1>7, <1>8 DEF ReplyTo
    <3> QED BY <1>1, <1>6, <2>1, <3>1
  <2>2. CASE d # c
    <3>1. Outstanding(d)' = Outstanding(d) /\ client[d].state = "waiting" /\ Outstanding(d) # r
      BY <1>5, <1>6, <1>8, <2>2, OutstandingIs
    <3> QED BY <1>1, <1>2, <3>1 DEF OnePlace
  <2> QED BY <2>1, <2>2
<1>11. InHand'
  BY <1>1, <1>2 DEF InHand, HandleRequest, ParseError, ErrorResponse, ActionResponse
<1> QED BY <1>4, <1>9, <1>10, <1>11 DEF Inv

\* A reply in the outbox of a client that waits is the one to its request, and there is
\* nothing else of it under way.
LEMMA ReplyIs ==
  ASSUME Inv, NEW m \in outbox, client[m.conn].state = "waiting"
  PROVE  /\ m = ReplyTo(Outstanding(m.conn))
         /\ \A q \in inbox \cup cur \cup (outbox \ {m}) : q.conn # m.conn
<1>1. TypeOK /\ Owed /\ OnePlace
  BY DEF Inv
<1>2. m.conn \in Conns /\ m = ReplyTo(Outstanding(m.conn))
  BY <1>1 DEF TypeOK, Owed, Replies
<1>3. ASSUME NEW q \in inbox \cup cur, q.conn = m.conn PROVE FALSE
  BY <1>1, <1>2, <1>3 DEF Owed, OnePlace
<1>4. ASSUME NEW q \in outbox \ {m}, q.conn = m.conn PROVE FALSE
  BY <1>1, <1>2, <1>4 DEF Owed
<1> QED BY <1>2, <1>3, <1>4

\* A client that has its reply has nothing under way.
LEMMA ReceiveInv == ASSUME Inv, NEW c \in Conns, Receive(c) PROVE Inv'
<1>1. /\ client[c].state = "waiting" /\ client' = [client EXCEPT ![c].state = "idle"]
      /\ UNCHANGED <<inbox, shutdown, pc, cur, resp>>
  BY DEF Receive
<1>2. PICK m \in outbox : m.conn = c /\ outbox' = outbox \ {m} /\ got' = [got EXCEPT ![c] = {m}]
  BY DEF Receive
<1>3. TypeOK /\ Owed /\ OnePlace /\ InHand
  BY DEF Inv
<1>4. TypeOK'
  <2>1. [client[c] EXCEPT !.state = "idle"] \in Clients
    BY <1>3 DEF TypeOK, Clients
  <2>2. client' \in [Conns -> Clients] /\ got' \in [Conns -> SUBSET Replies]
    BY <1>1, <1>2, <1>3, <2>1 DEF TypeOK
  <2> QED BY <1>1, <1>2, <1>3, <2>2 DEF TypeOK
<1>5. client'[c].state = "idle" /\ \A d \in Conns : d # c => client'[d] = client[d]
  BY <1>1, <1>3 DEF TypeOK, Clients
<1>6. \A q \in inbox \cup cur \cup outbox' : q.conn \in Conns /\ q.conn # c
  BY <1>1, <1>2, <1>3, ReplyIs DEF TypeOK, Requests, Replies
<1>7. \A d \in Conns : d # c => Outstanding(d)' = Outstanding(d)
  BY <1>5 DEF Outstanding
<1>8. Owed'
  <2>1. ASSUME NEW q \in inbox' \cup cur'
        PROVE  client'[q.conn].state # "idle" /\ (client'[q.conn].state = "waiting" => q = Outstanding(q.conn)')
    BY <1>1, <1>3, <1>5, <1>6, <1>7 DEF Owed
  <2>2. ASSUME NEW n \in outbox'
        PROVE  /\ client'[n.conn].state # "idle"
               /\ client'[n.conn].state = "waiting" => n = ReplyTo(Outstanding(n.conn)')
    <3>1. n \in outbox /\ client'[n.conn] = client[n.conn] /\ Outstanding(n.conn)' = Outstanding(n.conn)
      BY <1>2, <1>5, <1>6, <1>7
    <3> QED BY <1>3, <3>1 DEF Owed
  <2> QED BY <2>1, <2>2 DEF Owed, ReplyTo
<1>9. OnePlace'
  <2> SUFFICES ASSUME NEW d \in Conns, client'[d].state = "waiting"
               PROVE  /\ Outstanding(d)' \notin inbox' \cap cur'
                      /\ Outstanding(d)' \in inbox' \cup cur' => ReplyTo(Outstanding(d)') \notin outbox'
    BY DEF OnePlace, ReplyTo
  <2>1. d # c
    BY <1>5
  <2>2. Outstanding(d)' = Outstanding(d) /\ client[d].state = "waiting"
    BY <1>5, <1>7, <2>1
  <2> QED BY <1>1, <1>2, <1>3, <2>2 DEF OnePlace
<1>10. InHand'
  BY <1>1, <1>3 DEF InHand, HandleRequest, ParseError, ErrorResponse, ActionResponse
<1> QED BY <1>4, <1>8, <1>9, <1>10 DEF Inv

\* What is under way for a client that has left is of no matter.
LEMMA CloseInv == ASSUME Inv, NEW c \in Conns, Close(c) PROVE Inv'
<1>1. /\ client' = [client EXCEPT ![c].state = "closed"]
      /\ outbox' \subseteq outbox /\ inbox' \subseteq inbox /\ UNCHANGED <<got, shutdown, pc, cur, resp>>
  BY DEF Close
<1>2. TypeOK /\ Owed /\ OnePlace /\ InHand
  BY DEF Inv
<1>3. TypeOK'
  <2>1. [client[c] EXCEPT !.state = "closed"] \in Clients
    BY <1>2 DEF TypeOK, Clients
  <2> QED BY <1>1, <1>2, <2>1 DEF TypeOK
<1>4. client'[c].state = "closed" /\ \A d \in Conns : d # c => client'[d] = client[d]
  BY <1>1, <1>2 DEF TypeOK, Clients
<1>5. \A q \in inbox \cup cur \cup outbox : q.conn \in Conns
  BY <1>2 DEF TypeOK, Requests, Replies
<1>6. \A d \in Conns : d # c => Outstanding(d)' = Outstanding(d)
  BY <1>4 DEF Outstanding
<1>7. Owed'
  <2>1. ASSUME NEW q \in inbox' \cup cur'
        PROVE  client'[q.conn].state # "idle" /\ (client'[q.conn].state = "waiting" => q = Outstanding(q.conn)')
    BY <1>1, <1>2, <1>4, <1>5, <1>6 DEF Owed
  <2>2. ASSUME NEW n \in outbox'
        PROVE  /\ client'[n.conn].state # "idle"
               /\ client'[n.conn].state = "waiting" => n = ReplyTo(Outstanding(n.conn)')
    <3>1. CASE n.conn = c
      BY <1>4, <3>1
    <3>2. CASE n.conn # c
      <4>1. n \in outbox /\ client'[n.conn] = client[n.conn] /\ Outstanding(n.conn)' = Outstanding(n.conn)
        BY <1>1, <1>4, <1>5, <1>6, <3>2
      <4> QED BY <1>2, <4>1 DEF Owed
    <3> QED BY <3>1, <3>2
  <2> QED BY <2>1, <2>2 DEF Owed, ReplyTo
<1>8. OnePlace'
  <2> SUFFICES ASSUME NEW d \in Conns, client'[d].state = "waiting"
               PROVE  /\ Outstanding(d)' \notin inbox' \cap cur'
                      /\ Outstanding(d)' \in inbox' \cup cur' => ReplyTo(Outstanding(d)') \notin outbox'
    BY DEF OnePlace, ReplyTo
  <2>1. Outstanding(d)' = Outstanding(d) /\ client[d].state = "waiting"
    BY <1>4, <1>6
  <2> QED BY <1>1, <1>2, <2>1 DEF OnePlace
<1>9. InHand'
  BY <1>1, <1>2 DEF InHand, HandleRequest, ParseError, ErrorResponse, ActionResponse
<1> QED BY <1>3, <1>7, <1>8, <1>9 DEF Inv

\* The loop itself, and a shutdown, leave the clients alone.
LEMMA StillInv ==
  ASSUME Inv, UNCHANGED <<client, got>>, TypeOK', InHand',
         \/ outbox' \subseteq outbox /\ UNCHANGED <<inbox, cur>>
         \/ \E r \in inbox : inbox' = inbox \ {r} /\ cur' = {r} /\ cur = {} /\ UNCHANGED outbox
         \/ outbox' \subseteq outbox \cup {ReplyTo(r) : r \in cur} /\ cur' = {} /\ UNCHANGED inbox
            /\ \A m \in outbox' \ outbox : client[m.conn].state # "closed"
  PROVE  Inv'
<1>1. TypeOK /\ Owed /\ OnePlace
  BY DEF Inv
<1>2. \A c : Outstanding(c)' = Outstanding(c)
  BY DEF Outstanding
<1>3. \A r \in inbox \cup cur : r \in Requests /\ ReplyTo(r).conn = r.conn /\ r.conn \in Conns
  BY <1>1, HandledIs DEF TypeOK
<1>4. inbox' \cup cur' \subseteq inbox \cup cur /\ outbox' \subseteq outbox \cup {ReplyTo(r) : r \in cur}
  OBVIOUS
<1>5. Owed'
  <2>1. ASSUME NEW q \in inbox' \cup cur'
        PROVE  client'[q.conn].state # "idle" /\ (client'[q.conn].state = "waiting" => q = Outstanding(q.conn)')
    BY <1>1, <1>2, <1>4 DEF Owed
  <2>2. ASSUME NEW n \in outbox'
        PROVE  /\ client'[n.conn].state # "idle"
               /\ client'[n.conn].state = "waiting" => n = ReplyTo(Outstanding(n.conn)')
    <3>1. CASE n \in outbox
      BY <1>1, <1>2, <3>1 DEF Owed
    <3>2. CASE \E r \in cur : n = ReplyTo(r)
      <4>1. PICK r \in cur : n = ReplyTo(r)
        BY <3>2
      <4>2. n.conn = r.conn
        BY <1>3, <4>1
      <4>3. client[r.conn].state # "idle" /\ (client[r.conn].state = "waiting" => r = Outstanding(r.conn))
        BY <1>1 DEF Owed
      <4> QED BY <1>2, <4>1, <4>2, <4>3
    <3> QED BY <1>4, <3>1, <3>2
  <2> QED BY <2>1, <2>2 DEF Owed, ReplyTo
<1>6. OnePlace'
  <2> SUFFICES ASSUME NEW d \in Conns, client[d].state = "waiting"
               PROVE  /\ Outstanding(d) \notin inbox' \cap cur'
                      /\ Outstanding(d) \in inbox' \cup cur' => ReplyTo(Outstanding(d)) \notin outbox'
    BY <1>2 DEF OnePlace, ReplyTo
  <2> DEFINE o == Outstanding(d)
             a == ReplyTo(o)
  <2>1. o \notin inbox \cap cur /\ (o \in inbox \cup cur => a \notin outbox)
    BY <1>1 DEF OnePlace
  <2>2. \A r \in cur : ReplyTo(r) = a => r = o
    <3>1. ASSUME NEW r \in cur, ReplyTo(r) = a PROVE r = o
      <4>1. r.conn = d
        BY <1>3, <3>1, OutstandingIs
      <4> QED BY <1>1, <4>1 DEF Owed
    <3> QED BY <3>1
  <2> HIDE DEF o, a
  <2>3. o \notin inbox' \cap cur' /\ (o \in inbox' \cup cur' => a \notin outbox')
    <3>1. CASE outbox' \subseteq outbox /\ UNCHANGED <<inbox, cur>>
      BY <2>1, <3>1
    <3>2. CASE \E r \in inbox : inbox' = inbox \ {r} /\ cur' = {r} /\ cur = {} /\ UNCHANGED outbox
      BY <2>1, <3>2
    <3>3. CASE outbox' \subseteq outbox \cup {ReplyTo(r) : r \in cur} /\ cur' = {} /\ UNCHANGED inbox
      BY <2>1, <2>2, <3>3
    <3> QED BY <3>1, <3>2, <3>3
  <2> QED BY <2>3 DEF o, a
<1> QED BY <1>5, <1>6 DEF Inv

\* A step of the loop takes a request, handles it, or replies to it.
LEMMA LoopInv ==
  ASSUME Inv, Shutdown \/ Loop \/ Idle \/ Handle \/ Reply \/ (\E c \in Conns : Recv(c)) PROVE Inv'
<1>1. TypeOK /\ InHand
  BY DEF Inv
<1>2. CASE Shutdown \/ Loop \/ Idle
  <2>1. UNCHANGED <<client, got, inbox, cur, resp>> /\ outbox' \subseteq outbox
    BY <1>2 DEF Shutdown, Loop, Idle, clientVars, socketVars
  <2>2. pc' \in {"loop", "poll", "exited", pc} /\ (pc' # pc => pc \in {"loop", "poll"}) /\ shutdown' \in BOOLEAN
    BY <1>1, <1>2 DEF Shutdown, Loop, Idle, Goto, TypeOK
  <2>3. TypeOK' /\ InHand'
    BY <1>1, <2>1, <2>2 DEF TypeOK, InHand, HandleRequest, ParseError, ErrorResponse, ActionResponse
  <2> QED BY <2>1, <2>3, StillInv
<1>3. CASE Handle
  <2>1. /\ pc = "handle" /\ pc' = "send" /\ resp' = {HandleRequest(r) : r \in cur}
        /\ UNCHANGED <<client, got, inbox, outbox, shutdown, cur>>
    BY <1>3 DEF Handle, Goto, clientVars, socketVars
  <2>2. resp' \subseteq Replies
    BY <1>1, <2>1, HandledIs DEF TypeOK
  <2>3. TypeOK' /\ InHand'
    BY <1>1, <2>1, <2>2 DEF TypeOK, InHand, HandleRequest, ParseError, ErrorResponse, ActionResponse
  <2> QED BY <2>1, <2>3, StillInv
<1>4. CASE Reply
  <2>1. /\ pc = "send" /\ pc' = "loop" /\ cur' = {} /\ resp' = {}
        /\ outbox' = outbox \cup {m \in resp : client[m.conn].state # "closed"}
        /\ UNCHANGED <<client, got, inbox, shutdown>>
    BY <1>4 DEF Reply, Goto, clientVars
  <2>2. TypeOK'
    BY <1>1, <2>1 DEF TypeOK
  <2>3. InHand'
    BY <2>1 DEF InHand
  <2>4. resp = {ReplyTo(r) : r \in cur}
    <3>1. resp = {HandleRequest(r) : r \in cur}
      BY <1>1, <2>1 DEF InHand
    <3>2. \A r \in cur : HandleRequest(r) = ReplyTo(r)
      BY <1>1, HandledIs DEF TypeOK
    <3> QED BY <3>1, <3>2
  <2>5. outbox' \subseteq outbox \cup {ReplyTo(r) : r \in cur} /\ \A m \in outbox' \ outbox : client[m.conn].state # "closed"
    BY <2>1, <2>4
  <2> QED BY <2>1, <2>2, <2>3, <2>5, StillInv
<1>5. CASE \E c \in Conns : Recv(c)
  <2>1. PICK c \in Conns : Recv(c)
    BY <1>5
  <2>2. PICK r \in inbox : inbox' = inbox \ {r} /\ cur' = {r}
    BY <2>1 DEF Recv
  <2>3. pc = "poll" /\ pc' = "handle" /\ UNCHANGED <<client, got, outbox, shutdown, resp>>
    BY <2>1 DEF Recv, Goto, clientVars
  <2>4. cur = {} /\ resp = {}
    BY <1>1, <2>3 DEF InHand
  <2>5. TypeOK'
    BY <1>1, <2>2, <2>3 DEF TypeOK
  <2>6. InHand'
    BY <2>3, <2>4 DEF InHand
  <2> QED BY <2>2, <2>3, <2>4, <2>5, <2>6, StillInv
<1> QED BY <1>2, <1>3, <1>4, <1>5

-----------------------------------------------------------------------------
(* The theorems. *)

\* What the REP loop has in hand is owed to its client, and is in one place only.
THEOREM SyncInvariance == Spec => []Inv
<1>1. Inv /\ [Next]_vars => Inv'
  <2> SUFFICES ASSUME Inv, [Next]_vars PROVE Inv'
    OBVIOUS
  <2>1. CASE UNCHANGED vars
    BY <2>1 DEF vars, clientVars, socketVars, Inv, TypeOK, Owed, OnePlace, InHand, Outstanding, ReplyTo,
         HandleRequest, ParseError, ErrorResponse, ActionResponse
  <2> QED BY <2>1, SendInv, ReceiveInv, CloseInv, LoopInv DEF Next
<1> QED BY <1>1, InitInv, PTL DEF Spec

\* The REP loop implements the service: a step either is a step of the service, as the
\* clients see it, or changes nothing they see.
THEOREM SyncRefinement == Spec => Service!SafeSpec
<1>1. Init => Service!Init
  BY DEF Init, NewClient, Service!Init, Service!NewClient
<1>2. Inv /\ [Next]_vars => [Service!Next]_(Service!vars)
  <2> SUFFICES ASSUME Inv, Next PROVE Service!Next \/ UNCHANGED Service!vars
    BY DEF vars, clientVars, Service!vars
  <2>1. ASSUME NEW c \in Conns, NEW k \in Kinds, Send(c, k) PROVE Service!Next
    BY <2>1 DEF Send, Service!Send, Service!Next
  <2>2. ASSUME NEW c \in Conns, Receive(c) PROVE Service!Next
    <3>1. PICK m \in outbox : m.conn = c /\ got' = [got EXCEPT ![c] = {m}]
      BY <2>2 DEF Receive
    <3>2. m = ReplyTo(Outstanding(c))
      BY <2>2, <3>1, ReplyIs DEF Receive
    <3>3. Service!Answer(c)
      BY <2>2, <3>1, <3>2 DEF Receive, Outstanding, ReplyTo, Service!Answer, Service!ReplyTo
    <3> QED BY <3>3 DEF Service!Next
  <2>3. ASSUME NEW c \in Conns, Close(c) PROVE Service!Next
    BY <2>3 DEF Close, Service!Close, Service!Next
  <2>4. CASE Shutdown
    BY <2>4 DEF Shutdown, clientVars, Service!Stop, Service!Next
  <2>5. CASE Loop \/ Idle \/ Handle \/ Reply \/ \E c \in Conns : Recv(c)
    BY <2>5 DEF Loop, Idle, Handle, Reply, Recv, clientVars, Service!vars
  <2> QED BY <2>1, <2>2, <2>3, <2>4, <2>5 DEF Next
<1> QED BY <1>1, <1>2, SyncInvariance, PTL DEF Spec, Service!SafeSpec
=============================================================================
