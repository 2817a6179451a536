------------------------------ MODULE SbiServer ------------------------------
(***************************************************************************)
(* The AF's SBI servers and the glue that feeds their requests to the      *)
(* event loop: the open5gs SBI patch (src/unnamed/part_000), which gives   *)
(* each server its own backend (nghttp2 for HTTP/2, MHD for HTTP/1.1) and  *)
(* finds a stream's server through the common header of the stream, and   *)
(* sbi-path.c (src/unnamed/part_003): server_cb, msaf_sbi_open and         *)
(* msaf_sbi_close.                                                         *)
(*                                                                         *)
(* A stream is a request a peer opened on one server.  Its stage follows   *)
(* it from the backend to server_cb, the event queue, the handler and the  *)
(* response.  The session watchdog of the backends is not under src/; it   *)
(* is modelled from spec section 4.1: if no response was written before it *)
(* fires, the server answers 503 and discards any later write.             *)
(***************************************************************************)
EXTENDS Naturals, Sequences, SequencesExt

CONSTANTS
    Servers,      \* configured SBI servers (ogs_sbi_server_t)
    Streams,      \* requests peers may open
    QueueCap,     \* free slots of ogs_app()->queue
    StartFails,   \* may a server fail to start (bind failure)?
    NULL

Backends == {"nghttp2", "mhd"}
Stages == {"idle", "queued", "dropped", "handling", "done"}

VARIABLES
    serverList,   \* ogs_sbi_self()->server_list, in order of adding
    actions,      \* server->actions of each server
    running,      \* servers whose start succeeded and that are not stopped
    af,           \* "init", "open", "failed" (msaf_sbi_open), "closed"
    owner,        \* common.server of each stream, NULL until opened
    stage,        \* where each stream is in the AF
    queue,        \* the events server_cb pushed, oldest first
    expired,      \* streams whose session watchdog fired
    wire          \* the backend of every response written on each stream

vars == <<serverList, actions, running, af, owner, stage, queue, expired, wire>>

\* ogs_sbi_server_add (lines 192-202) gives a server the nghttp2 actions,
\* ogs_sbih1_server_add (lines 204-224) the MHD ones; both append it to
\* server_list.  The configuration may bind any mix, in any order.
Init ==
    /\ serverList \in SetToSeqs(Servers)
    /\ actions \in [Servers -> Backends]
    /\ running = {}
    /\ af = "init"
    /\ owner = [t \in Streams |-> NULL]
    /\ stage = [t \in Streams |-> "idle"]
    /\ queue = <<>>
    /\ expired = {}
    /\ wire = [t \in Streams |-> <<>>]

(* msaf_sbi_open (sbi-path.c lines 68-96) with ogs_sbi_server_start_all   *)
(* (patch lines 224-233): each server is started through its own actions  *)
(* in list order; the first failure returns OGS_ERROR at once, leaving the *)
(* servers before it running.  k is the number of servers that started.  *)
StartAll ==
    /\ af = "init"
    /\ \E k \in (IF StartFails THEN 0 .. Len(serverList) ELSE {Len(serverList)}) :
         /\ running' = {serverList[j] : j \in 1 .. k}
         /\ af' = IF k = Len(serverList) THEN "open" ELSE "failed"
    /\ UNCHANGED <<serverList, actions, owner, stage, queue, expired, wire>>

\* Mutant of ServerCb: the event is queued whether or not a slot is free.
ServerCb_Unbounded(s, t) ==
    /\ af = "open" /\ s \in running /\ stage[t] = "idle"
    /\ owner' = [owner EXCEPT ![t] = s]
    /\ queue' = Append(queue, t)
    /\ stage' = [stage EXCEPT ![t] = "queued"]
    /\ UNCHANGED <<serverList, actions, running, af, expired, wire>>

(* A peer opens stream t on running server s.  The backend records s in   *)
(* the stream's common header (patch lines 60-67, 128-130) and calls       *)
(* server_cb (sbi-path.c lines 13-36), which pushes an OGS_EVENT_SBI_SERVER *)
(* event, or, when ogs_queue_push fails, frees the request and the event   *)
(* and returns OGS_ERROR.                                                  *)
ServerCb(s, t) ==
    /\ af = "open"
    /\ s \in running
    /\ stage[t] = "idle"
    /\ owner' = [owner EXCEPT ![t] = s]
    /\ IF Len(queue) < QueueCap
         THEN /\ queue' = Append(queue, t)
              /\ stage' = [stage EXCEPT ![t] = "queued"]
         ELSE /\ stage' = [stage EXCEPT ![t] = "dropped"]
              /\ UNCHANGED queue
    /\ UNCHANGED <<serverList, actions, running, af, expired, wire>>

\* The event loop takes the oldest event and hands it to the AF's handler,
\* which may answer at once or after a suspension point (spec section 4.9).
Dispatch ==
    /\ af = "open"
    /\ queue /= <<>>
    /\ stage' = [stage EXCEPT ![Head(queue)] = "handling"]
    /\ queue' = Tail(queue)
    /\ UNCHANGED <<serverList, actions, running, af, owner, expired, wire>>

\* ogs_sbi_server_from_stream (patch lines 260-265): the server is read
\* from the common header every stream type begins with.
ServerFromStream(t) == owner[t]

\* The backend's send_response: a write after the watchdog fired is
\* discarded (spec section 4.1).
BackendSend(b, t) ==
    wire' = IF t \in expired THEN wire ELSE [wire EXCEPT ![t] = Append(@, b)]

\* ogs_sbi_server_send_response (patch lines 249-255): the response goes
\* through the actions of the stream's own server.
SendResponseActions(t) == actions[ServerFromStream(t)]

\* The handler's ogs_sbi_server_send_response on stream t.
Respond(t) ==
    /\ af = "open"
    /\ stage[t] = "handling"
    /\ BackendSend(SendResponseActions(t), t)
    /\ stage' = [stage EXCEPT ![t] = "done"]
    /\ UNCHANGED <<serverList, actions, running, af, owner, queue, expired>>

\* The session watchdog of stream t fires before any response: its server
\* answers 503 through its own backend (spec section 4.1).
SessionTimerExpired(t) ==
    /\ af = "open"
    /\ stage[t] /= "idle"
    /\ t \notin expired
    /\ wire[t] = <<>>
    /\ BackendSend(actions[owner[t]], t)
    /\ expired' = expired \cup {t}
    /\ UNCHANGED <<serverList, actions, running, af, owner, stage, queue>>

(* msaf_sbi_close (sbi-path.c lines 98-102) with ogs_sbi_server_stop_all *)
(* (patch lines 233-239): every server on the list is stopped through its *)
(* own actions, whether or not it had started.  The AF then exits.        *)
StopAll ==
    /\ af \in {"open", "failed"}
    /\ running' = {}
    /\ af' = "closed"
    /\ UNCHANGED <<serverList, actions, owner, stage, queue, expired, wire>>

Next ==
    \/ StartAll
    \/ \E s \in Servers, t \in Streams : ServerCb(s, t)
    \/ Dispatch
    \/ \E t \in Streams : Respond(t) \/ SessionTimerExpired(t)
    \/ StopAll

Spec == Init /\ [][Next]_vars

-----------------------------------------------------------------------------
TypeOK ==
    /\ serverList \in Seq(Servers)
    /\ actions \in [Servers -> Backends]
    /\ running \subseteq Servers
    /\ af \in {"init", "open", "failed", "closed"}
    /\ owner \in [Streams -> Servers \cup {NULL}]
    /\ stage \in [Streams -> Stages]
    /\ queue \in Seq(Streams) /\ Len(queue) <= QueueCap
    /\ expired \subseteq Streams
    /\ wire \in [Streams -> Seq(Backends)]
=============================================================================
