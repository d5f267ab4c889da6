-------------------------------- MODULE Ipc --------------------------------
(***************************************************************************)
(* The service's socket (src/service/ipc.rs): a connection's two byte        *)
(* streams, and handle_client, the task that serves one connection.  It      *)
(* sends the snapshot of the moment, then every change of it, and passes one *)
(* request at a time to the service, waiting for the answer before it looks  *)
(* at anything else.                                                         *)
(*                                                                          *)
(* The streams are as long as they need be: the few hundred kilobytes a      *)
(* socket buffers are not filled by requests of a hundred bytes.  Blank and  *)
(* malformed lines, which are skipped, are left out.  A client connects at   *)
(* most once to each run of the service, so a connection is named by its     *)
(* client.                                                                   *)
(***************************************************************************)
EXTENDS Naturals, Sequences

CONSTANTS
    Clients,
    Requests,           \* the requests clients make
    RequestCapacity     \* mpsc::channel(64)

ASSUME IpcAssumption == RequestCapacity \in Nat \ {0}

Kinds == {"change", "query", "choose"}

VARIABLES
    published,     \* the snapshot in the service's watch channel
    requests,      \* the service's request channel
    replies,       \* the answer in each task's oneshot, or NoReply
    task,          \* handle_client: "none", "accepted", "loop", "waiting"
    serving,       \* the request each task waits for
    unseen,        \* whether snapshot_rx.changed() would return
    toServer, toClient

wires == <<toServer, toClient>>
ipcVars == <<published, requests, replies, task, serving, unseen, wires>>

NoReply == [outcome |-> "none", setting |-> 0]

IpcInit(snapshot) ==
    /\ published = snapshot /\ requests = <<>>
    /\ replies = [c \in Clients |-> NoReply]
    /\ task = [c \in Clients |-> "none"]
    /\ serving = [c \in Clients |-> {}]
    /\ unseen = [c \in Clients |-> FALSE]
    /\ toServer = [c \in Clients |-> <<>>]
    /\ toClient = [c \in Clients |-> <<>>]

-----------------------------------------------------------------------------
(* The service's side: publish_snapshot, request_rx.recv, the oneshot.       *)
Publish(snapshot) ==
    /\ published' = snapshot
    /\ unseen' = [c \in Clients |-> task[c] \in {"loop", "waiting"}]
Unpublished == UNCHANGED <<published, unseen>>

Answer(c, reply) ==
    replies' = IF task[c] = "waiting" THEN [replies EXCEPT ![c] = reply] ELSE replies

(* run_service returns or the process dies: tasks and requests are gone, and *)
(* a request still in a stream is never read.                                *)
ProcessEnds ==
    /\ requests' = <<>>
    /\ replies' = [c \in Clients |-> NoReply]
    /\ task' = [c \in Clients |-> "none"]
    /\ serving' = [c \in Clients |-> {}]
    /\ unseen' = [c \in Clients |-> FALSE]
    /\ toServer' = [c \in Clients |-> <<>>]

-----------------------------------------------------------------------------
(* handle_client.  open: the client has not closed its end.                  *)
Say(c, message) == toClient' = [toClient EXCEPT ![c] = Append(@, message)]
Snapshot(s)     == [is |-> "snapshot", snapshot |-> s]
Response(r, reply) == [is |-> "response", id |-> r, reply |-> reply]

End(c) == /\ task' = [task EXCEPT ![c] = "none"]
          /\ serving' = [serving EXCEPT ![c] = {}]
          /\ unseen' = [unseen EXCEPT ![c] = FALSE]
          /\ replies' = [replies EXCEPT ![c] = NoReply]
          /\ toServer' = [toServer EXCEPT ![c] = <<>>]
          /\ UNCHANGED <<published, requests, toClient>>

Ready(c, open) ==
    /\ task[c] = "accepted" /\ open
    /\ Say(c, Snapshot(published))
    /\ task' = [task EXCEPT ![c] = "loop"]
    /\ UNCHANGED <<published, requests, replies, serving, unseen, toServer>>

(* The select is biased: shutdown, a change of the snapshot, a line.         *)
Event(c, open, shutdown) ==
    /\ task[c] = "loop" /\ open /\ ~shutdown
    /\ unseen[c] /\ unseen' = [unseen EXCEPT ![c] = FALSE]
    /\ Say(c, Snapshot(published))
    /\ UNCHANGED <<published, requests, replies, task, serving, toServer>>

ReadRequest(c, shutdown) ==
    /\ task[c] = "loop" /\ ~shutdown /\ ~unseen[c]
    /\ toServer[c] # <<>> /\ Len(requests) < RequestCapacity
    /\ requests' = Append(requests, [Head(toServer[c]) EXCEPT !.client = c])
    /\ serving' = [serving EXCEPT ![c] = {Head(toServer[c]).id}]
    /\ toServer' = [toServer EXCEPT ![c] = Tail(@)]
    /\ task' = [task EXCEPT ![c] = "waiting"]
    /\ UNCHANGED <<published, replies, unseen, toClient>>

(* mutant: the snapshot sent is marked seen again when the answer is sent,   *)
(* with whatever was published meanwhile                                     *)
RespondMarksSeen(c, open) ==
    /\ task[c] = "waiting" /\ replies[c] # NoReply /\ open
    /\ \E r \in serving[c] : Say(c, Response(r, replies[c]))
    /\ task' = [task EXCEPT ![c] = "loop"]
    /\ serving' = [serving EXCEPT ![c] = {}]
    /\ replies' = [replies EXCEPT ![c] = NoReply]
    /\ unseen' = [unseen EXCEPT ![c] = FALSE]
    /\ UNCHANGED <<published, requests, toServer>>

Respond(c, open) ==
    /\ task[c] = "waiting" /\ replies[c] # NoReply /\ open
    /\ \E r \in serving[c] : Say(c, Response(r, replies[c]))
    /\ task' = [task EXCEPT ![c] = "loop"]
    /\ serving' = [serving EXCEPT ![c] = {}]
    /\ replies' = [replies EXCEPT ![c] = NoReply]
    /\ UNCHANGED <<published, requests, unseen, toServer>>

(* The ends of handle_client: the client closed the stream, which is found   *)
(* by writing to it or, once every line in it was read, by reading; or the   *)
(* service stops.                                                            *)
TaskEnds(c, open, shutdown) ==
    /\ \/ ~open /\ task[c] = "accepted"
       \/ ~open /\ task[c] = "loop" /\ (unseen[c] \/ toServer[c] = <<>>)
       \/ ~open /\ task[c] = "waiting" /\ replies[c] # NoReply
       \/ shutdown /\ task[c] = "loop"
    /\ End(c)
=============================================================================
