--------------------------- MODULE ServiceClient ---------------------------
(***************************************************************************)
(* The graphical client's end of the socket                                  *)
(* (crates/logig560-gui/src/client.rs): send, which queues a request and     *)
(* waits for its answer, and the supervisor, which connects, runs the        *)
(* connection until it ends, and tries again after a pause.                  *)
(*                                                                          *)
(* A request that is queued while there is no connection waits for the next  *)
(* one.  A request that was written when the connection ends is given up,    *)
(* whether the service had run it or not; it is never written twice.  The    *)
(* broadcast channels to the window and connection states are left out.      *)
(***************************************************************************)
EXTENDS Ipc

CONSTANT OutboundCapacity      \* mpsc::channel(32)

ASSUME ClientAssumption == OutboundCapacity \in Nat \ {0} /\ Requests \subseteq Nat

VARIABLES
    link,        \* supervisor_loop: "connecting", "connected"; "gone"
    outbound,    \* the requests send() queued
    pending,     \* the requests written on this connection and not answered
    seen,        \* latest_snapshot, as a set of at most one
    outcome      \* of each request: "unsent", "waiting", "ok", "error", "lost"

clientVars == <<link, outbound, pending, seen, outcome>>

ClientInit ==
    /\ link = [c \in Clients |-> "connecting"]
    /\ outbound = [c \in Clients |-> <<>>]
    /\ pending = [c \in Clients |-> {}]
    /\ seen = [c \in Clients |-> {}]
    /\ outcome = [r \in Requests |-> "unsent"]

Open(c) == link[c] = "connected"
Ids(queue) == {queue[k].id : k \in DOMAIN queue}
Resolve(ids, value) == outcome' = [r \in Requests |-> IF r \in ids THEN value ELSE outcome[r]]

(* run_connection returns: its map of pending answers is dropped.            *)
Unanswered(c) == pending[c]
DropConnection(c) ==
    /\ link' = [link EXCEPT ![c] = "connecting"]
    /\ pending' = [pending EXCEPT ![c] = {}]
    /\ toClient' = [toClient EXCEPT ![c] = <<>>]

-----------------------------------------------------------------------------
(* send: each call takes the next id.                                        *)
Issue(c, r, kind) ==
    /\ link[c] # "gone"
    /\ \A q \in Requests : outcome[q] = "unsent" <=> q >= r
    /\ Len(outbound[c]) < OutboundCapacity
    /\ outbound' = [outbound EXCEPT ![c] = Append(@, [id |-> r, kind |-> kind, client |-> c])]
    /\ Resolve({r}, "waiting")
    /\ UNCHANGED <<link, pending, seen, ipcVars>>

(* listening: the service has bound its socket and accepts.  The attempts    *)
(* that fail, and the pauses after them, change nothing here.                *)
Connect(c, listening) ==
    /\ link[c] = "connecting" /\ listening /\ task[c] = "none"
    /\ link' = [link EXCEPT ![c] = "connected"]
    /\ task' = [task EXCEPT ![c] = "accepted"]
    /\ UNCHANGED <<outbound, pending, seen, outcome, published, requests, replies, serving,
                   unseen, wires>>

(* The select is biased: a request to write comes before a line to read.     *)
(* Writing to a stream whose other end is closed fails.                      *)
Transmit(c) ==
    /\ Open(c) /\ outbound[c] # <<>>
    /\ LET request == Head(outbound[c]) IN
       /\ outbound' = [outbound EXCEPT ![c] = Tail(@)]
       /\ \/ /\ task[c] # "none"
             /\ toServer' = [toServer EXCEPT ![c] = Append(@, request)]
             /\ pending' = [pending EXCEPT ![c] = @ \cup {request.id}]
             /\ UNCHANGED <<link, outcome, toClient>>
          \/ /\ task[c] = "none"
             /\ Resolve({request.id} \cup Unanswered(c), "lost")
             /\ DropConnection(c) /\ UNCHANGED toServer
    /\ UNCHANGED <<seen, published, requests, replies, task, serving, unseen>>

Receive(c) ==
    /\ Open(c) /\ outbound[c] = <<>> /\ toClient[c] # <<>>
    /\ LET message == Head(toClient[c]) IN
       IF message.is = "snapshot"
       THEN seen' = [seen EXCEPT ![c] = {message.snapshot}] /\ UNCHANGED <<pending, outcome>>
       ELSE /\ pending' = [pending EXCEPT ![c] = @ \ {message.id}]
            /\ Resolve({message.id} \cap pending[c], message.reply.outcome)
            /\ UNCHANGED seen
    /\ toClient' = [toClient EXCEPT ![c] = Tail(@)]
    /\ UNCHANGED <<link, outbound, published, requests, replies, task, serving, unseen, toServer>>

(* mutant: what was not answered is written again on the next connection     *)
DisconnectedRetries(c) ==
    /\ Open(c) /\ outbound[c] = <<>> /\ toClient[c] = <<>> /\ task[c] = "none"
    /\ DropConnection(c)
    /\ outbound' = [outbound EXCEPT ![c] =
          IF pending[c] = {} THEN <<>>
          ELSE <<[id |-> CHOOSE r \in pending[c] : TRUE, kind |-> "change", client |-> c]>>]
    /\ UNCHANGED <<outcome, seen, published, requests, replies, task, serving, unseen, toServer>>

(* mutant: the map of pending answers outlives the connection                *)
DisconnectedKeepsPending(c) ==
    /\ Open(c) /\ outbound[c] = <<>> /\ toClient[c] = <<>> /\ task[c] = "none"
    /\ link' = [link EXCEPT ![c] = "connecting"]
    /\ UNCHANGED <<outbound, seen, pending, outcome, ipcVars>>

(* The service closed the stream and everything in it was read.              *)
Disconnected(c) ==
    /\ Open(c) /\ outbound[c] = <<>> /\ toClient[c] = <<>> /\ task[c] = "none"
    /\ Resolve(Unanswered(c), "lost") /\ DropConnection(c)
    /\ UNCHANGED <<outbound, seen, published, requests, replies, task, serving, unseen, toServer>>

(* The window is closed.  What it wrote is still in the stream.              *)
Exit(c) ==
    /\ link[c] # "gone"
    /\ link' = [link EXCEPT ![c] = "gone"]
    /\ Resolve(pending[c] \cup Ids(outbound[c]), "lost")
    /\ pending' = [pending EXCEPT ![c] = {}]
    /\ outbound' = [outbound EXCEPT ![c] = <<>>]
    /\ seen' = [seen EXCEPT ![c] = {}]
    /\ toClient' = [toClient EXCEPT ![c] = <<>>]
    /\ UNCHANGED <<published, requests, replies, task, serving, unseen, toServer>>

ClientStep(c) == Transmit(c) \/ Receive(c) \/ Disconnected(c)
=============================================================================
