--------------------------- MODULE PredictRequest ---------------------------
(***************************************************************************)
(* The requests and replies exchanged with a RoboRT inference server: the  *)
(* vocabulary shared by the service specification (PredictService) and by  *)
(* the two request loops that implement it (SyncServer, AsyncPipeline).    *)
(*                                                                         *)
(* A connection is one ZeroMQ REQ socket.  A REQ socket is in lockstep: it *)
(* sends a request, then waits for the reply.  A client that gives up on a *)
(* reply closes its socket and retries on a fresh one, which is another    *)
(* member of Conns.                                                        *)
(***************************************************************************)
EXTENDS Naturals

CONSTANTS
  Conns,       (* client sockets                                            *)
  Kinds,       (* the kinds of request the clients send, see RequestKinds   *)
  MaxRequests  (* bound: the requests one connection sends                  *)

(***************************************************************************)
(* What becomes of a request is decided by where it fails, if it does:     *)
(*   garbled     the body is not a PredictRequest: answered with id 0      *)
(*   invalid     a field of it fails the validation of parse_request       *)
(*   unprepared  the model's prepare step rejects it                       *)
(*   failing     the model returns no actions for it                       *)
(*   good        the model returns an action chunk                         *)
(***************************************************************************)
RequestKinds == {"garbled", "invalid", "unprepared", "failing", "good"}

ASSUME ServiceAssumption ==
  /\ Kinds \subseteq RequestKinds
  /\ MaxRequests \in Nat

Requests == [conn : Conns, rid : 1..MaxRequests, kind : Kinds]
Replies  == [conn : Conns, rid : 0..MaxRequests, result : {"actions", "error"}]

\* The reply a request calls for.
ReplyTo(r) ==
  [conn   |-> r.conn,
   rid    |-> IF r.kind = "garbled" THEN 0 ELSE r.rid,
   result |-> IF r.kind = "good" THEN "actions" ELSE "error"]

(***************************************************************************)
(* The replies the server builds.                                          *)
(***************************************************************************)
ErrorResponse(c, id)  == [conn |-> c, rid |-> id, result |-> "error"]
ActionResponse(c, id) == [conn |-> c, rid |-> id, result |-> "actions"]

\* The requests parse_request turns down, and the error it makes: a body that is
\* not a PredictRequest has no id to quote.
Unparsable == {"garbled", "invalid"}
ParseError(r) == ErrorResponse(r.conn, IF r.kind = "garbled" THEN 0 ELSE r.rid)

(***************************************************************************)
(* A client: idle, waiting for the reply to its request number rid, or     *)
(* closed.                                                                 *)
(***************************************************************************)
Clients ==
  [state : {"idle", "waiting", "closed"}, rid : 0..MaxRequests, kind : Kinds \cup {"none"}]

NewClient == [state |-> "idle", rid |-> 0, kind |-> "none"]
=============================================================================
