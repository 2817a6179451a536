---------------------- MODULE ApplicationServerContext ----------------------
(***************************************************************************)
(* The M3 reconciliation engine of the 5GMS Application Function           *)
(* (src/src/5gmsaf/application-server-context.c) together with the M1     *)
(* writes that feed it, the SBI client callback that turns an M3 reply    *)
(* into an event, the event handler that consumes that reply, and the     *)
(* Application Server (AS) that answers the requests.                     *)
(*                                                                         *)
(* Per AS-state node the AF keeps the AS's last known certificate and CHC  *)
(* lists (Unknown until fetched) and five work queues; each call of        *)
(* next_action_for_application_server issues the one request chosen by    *)
(* the queues' priority.  Requests are answered by the AS in any order    *)
(* (HTTP/2 streams are served concurrently) and each reply becomes an      *)
(* event on the AF's single FIFO event queue.                              *)
(***************************************************************************)
EXTENDS Integers, Sequences, SequencesExt, FiniteSets

CONSTANTS
    AS,              \* the configured application servers
    FirstAS,         \* the head of msaf_self()->config.applicationServers_list
    PSIds,           \* provisioning session ids
    CertIds,         \* certificate ids inside one provisioning session
    MaxVersion,      \* number of CHC versions a session goes through
    MaxServerErrors, \* number of 5xx replies the AS may give in a behaviour
    MaxPurges,       \* number of M1 cache purge requests in a behaviour
    Overlap,         \* may a provider write while M3 work is outstanding?
    Lossy,           \* may a request fail in transport (client_notify_cb)?
    Unreadable,      \* certificates whose PEM file read_file cannot read
    Unknown,         \* a current_* list not yet fetched (NULL)
    NoId             \* the resource id of a list GET

ASSUME /\ FirstAS \in AS
       /\ MaxVersion \in Nat \ {0}
       /\ MaxServerErrors \in Nat /\ MaxPurges \in Nat
       /\ Overlap \in BOOLEAN /\ Lossy \in BOOLEAN
       /\ Unreadable \subseteq PSIds \X CertIds

\* The AF-unique certificate id "<provisioningSessionId>:<certificateId>"
AFCert == PSIds \X CertIds
CertsOf(p) == {p} \X CertIds

CHC == "content-hosting-configurations"
Request == [method : {"GET", "POST", "PUT", "DELETE"},
            resource : {"certificates", CHC, "purge"},
            id : AFCert \cup PSIds \cup {NoId},
            body : 0..MaxVersion]
Event == [as : AS, req : Request, status : {"2xx", "4xx", "5xx"},
          list : SUBSET (AFCert \cup PSIds)]

VARIABLES
    psState,      \* session lifecycle: "active" or "deleting"
    afChc,        \* version of the session's CHC in the AF, 0 = none
    psStates,     \* provisioning_session->msaf_application_server_state_nodes
    assigned,     \* as_state->assigned_provisioning_sessions
    purges,       \* purge requests made so far
    current_certificates,
    current_content_hosting_configurations,
    upload_certificates,
    upload_content_hosting_configurations,
    delete_content_hosting_configurations,
    delete_certificates,
    purge_content_hosting_cache,
    inflight,     \* requests sent to the AS and not yet answered
    events,       \* ogs_app()->queue: M3 replies waiting for the handler
    backoff,      \* retry timer armed after a 5xx
    asCerts,      \* certificates the AS holds
    asChc,        \* CHC version the AS holds per session, 0 = none
    errors        \* 5xx replies given so far

afVars    == <<psState, afChc, psStates, assigned, purges>>
cacheVars == <<current_certificates, current_content_hosting_configurations>>
queueVars == <<upload_certificates, upload_content_hosting_configurations,
               delete_content_hosting_configurations, delete_certificates,
               purge_content_hosting_cache>>
asVars    == <<asCerts, asChc, errors>>
vars == <<afVars, cacheVars, queueVars, inflight, events, backoff, asVars>>

-----------------------------------------------------------------------------
(* The AF side                                                             *)

Init ==
    /\ psState = [p \in PSIds |-> "active"]
    /\ afChc = [p \in PSIds |-> 0]
    /\ psStates = [p \in PSIds |-> {}]
    /\ assigned = [a \in AS |-> <<>>]
    /\ purges = 0
    /\ current_certificates = [a \in AS |-> Unknown]
    /\ current_content_hosting_configurations = [a \in AS |-> Unknown]
    /\ upload_certificates = [a \in AS |-> <<>>]
    /\ upload_content_hosting_configurations = [a \in AS |-> <<>>]
    /\ delete_content_hosting_configurations = [a \in AS |-> <<>>]
    /\ delete_certificates = [a \in AS |-> <<>>]
    /\ purge_content_hosting_cache = [a \in AS |-> <<>>]
    /\ inflight = [a \in AS |-> <<>>]
    /\ events = <<>>
    /\ backoff = [a \in AS |-> FALSE]
    /\ asCerts = [a \in AS |-> {}]
    /\ asChc = [a \in AS |-> [p \in PSIds |-> 0]]
    /\ errors = 0

Req(m, r, id, body) == [method |-> m, resource |-> r, id |-> id, body |-> body]

\* PUT when the AS is known to hold the resource, POST otherwise
PutOrPost(known) == IF known THEN "PUT" ELSE "POST"

(* The upload of the head of upload_certificates (lines 165-190): its PEM *)
(* is read from the certificate file; when read_file fails the error is   *)
(* logged and the request still goes out, with no content (body 0).       *)
CertificateUpload(a) ==
    LET c == Head(upload_certificates[a])
    IN  Req(PutOrPost(c \in current_certificates[a]), "certificates", c,
            IF c \in Unreadable THEN 0 ELSE 1)

\* Mutant of ChcUpload: the current list is not consulted, always POST
ChcUpload_AlwaysPost(a) ==
    LET p == Head(upload_content_hosting_configurations[a])
    IN  Req("POST", CHC, p, afChc[p])

ChcUpload(a) ==
    LET p == Head(upload_content_hosting_configurations[a])
    IN  Req(PutOrPost(p \in current_content_hosting_configurations[a]),
            CHC, p, afChc[p])

\* Mutant of Uploads: CHC uploads ahead of certificate uploads
Uploads_ChcFirst(a) ==
    CASE upload_content_hosting_configurations[a] # <<>> -> <<ChcUpload(a)>>
      [] upload_certificates[a] # <<>> -> <<CertificateUpload(a)>>
      [] OTHER -> <<>>

\* next_action, lines 156-241: certificate uploads before CHC uploads
Uploads(a) ==
    CASE upload_certificates[a] # <<>> -> <<CertificateUpload(a)>>
      [] upload_content_hosting_configurations[a] # <<>> -> <<ChcUpload(a)>>
      [] OTHER -> <<>>

DeleteChc(a) == Req("DELETE", CHC, Head(delete_content_hosting_configurations[a]), 0)
DeleteCert(a) == Req("DELETE", "certificates", Head(delete_certificates[a]), 0)

\* Mutant of Deletes: certificate deletes ahead of CHC deletes
Deletes_CertsFirst(a) ==
    CASE delete_certificates[a] # <<>> -> <<DeleteCert(a)>>
      [] delete_content_hosting_configurations[a] # <<>> -> <<DeleteChc(a)>>
      [] OTHER -> <<>>

\* next_action, lines 242-255: CHC deletes before certificate deletes
Deletes(a) ==
    CASE delete_content_hosting_configurations[a] # <<>> -> <<DeleteChc(a)>>
      [] delete_certificates[a] # <<>> -> <<DeleteCert(a)>>
      [] OTHER -> <<>>

\* next_action_for_application_server: the request it sends, by priority
RequestFor(a) ==
    CASE current_certificates[a] = Unknown ->
            <<Req("GET", "certificates", NoId, 0)>>
      [] current_content_hosting_configurations[a] = Unknown ->
            <<Req("GET", CHC, NoId, 0)>>
      [] Uploads(a) # <<>> -> Uploads(a)
      [] Deletes(a) # <<>> -> Deletes(a)
      [] purge_content_hosting_cache[a] # <<>> ->
            <<Req("POST", "purge", Head(purge_content_hosting_cache[a]), 0)>>
      [] OTHER -> <<>>

(* next_action_for_application_server on every node of S, evaluated on the *)
(* queues and caches the calling handler leaves: m3_client_as_state_       *)
(* requests hands the request to the SBI client without waiting for it.    *)
(* Conjoined last, after every other variable of the step is primed.      *)
Drive(S) ==
    inflight' = [a \in AS |-> IF a \in S THEN inflight[a] \o RequestFor(a)'
                                         ELSE inflight[a]]

\* No request, reply or retry of node a is pending
Idle(a) ==
    /\ inflight[a] = <<>>
    /\ \A i \in DOMAIN events : events[i].as # a
    /\ ~backoff[a]

\* A provider writes on M1 at any time, or (Overlap = FALSE) only between
\* reconciliations, as a test suite that waits for the AS does.
ProviderMayWrite == Overlap \/ \A a \in AS : Idle(a)

\* Mutant of QueueSession: the CHC node is added to upload_certificates
QueueSession_ChcOnCertQueue(a, p) ==
    /\ upload_certificates' = [upload_certificates EXCEPT
                                  ![a] = Append(@ \o SetToSeq(CertsOf(p)), p)]
    /\ UNCHANGED upload_content_hosting_configurations

\* set_on_post on node a (lines 38-48): the session's certificates, then
\* its CHC, are added to the node's upload queues.
QueueSession(a, p) ==
    /\ upload_certificates' = [upload_certificates EXCEPT
                                  ![a] = @ \o SetToSeq(CertsOf(p))]
    /\ upload_content_hosting_configurations' =
           [upload_content_hosting_configurations EXCEPT ![a] = Append(@, p)]

\* Mutant of PostDrive: the node is not driven after queueing
PostDrive_None(p) == UNCHANGED inflight

\* set_on_post (line 58): next_action on the node it queued on
PostDrive(p) == Drive({FirstAS})

(* M1 PUT of a session's first CHC, then                                   *)
(* msaf_application_server_state_set_on_post: the session is assigned to  *)
(* the state node of the first configured AS only (ogs_list_add reuses the *)
(* node's lnode, ending the walk of application_server_states), its       *)
(* certificates and its CHC are queued, and the node is driven.           *)
SetOnPost(p) ==
    /\ ProviderMayWrite
    /\ psState[p] = "active" /\ afChc[p] = 0
    /\ afChc' = [afChc EXCEPT ![p] = 1]
    /\ QueueSession(FirstAS, p)
    /\ assigned' = [assigned EXCEPT ![FirstAS] = Append(@, p)]
    /\ psStates' = [psStates EXCEPT ![p] = {FirstAS}]
    /\ UNCHANGED <<psState, purges, cacheVars, delete_certificates,
                   delete_content_hosting_configurations,
                   purge_content_hosting_cache, events, backoff, asVars>>
    /\ PostDrive(p)

\* update (line 82): next_action once per node of the session
UpdateDrive(p) == Drive(psStates[p])

(* M1 PUT replacing an existing CHC, then                                  *)
(* msaf_application_server_state_update: on every node of the session the *)
(* CHC is queued again and every entry of the node's assigned list is     *)
(* overwritten with this session.                                         *)
Update(p) ==
    /\ ProviderMayWrite
    /\ psState[p] = "active" /\ afChc[p] \in 1..(MaxVersion - 1)
    /\ afChc' = [afChc EXCEPT ![p] = @ + 1]
    /\ upload_content_hosting_configurations' =
           [a \in AS |-> IF a \in psStates[p]
                         THEN Append(upload_content_hosting_configurations[a], p)
                         ELSE upload_content_hosting_configurations[a]]
    /\ assigned' = [a \in AS |-> IF a \in psStates[p]
                                 THEN [i \in DOMAIN assigned[a] |-> p]
                                 ELSE assigned[a]]
    /\ UNCHANGED <<psState, psStates, purges, cacheVars, upload_certificates,
                   delete_certificates, delete_content_hosting_configurations,
                   purge_content_hosting_cache, events, backoff, asVars>>
    /\ UpdateDrive(p)

(* M1 DELETE of a session, first phase: the session is marked deleting and *)
(* the withdrawal of its CHC and certificates is queued on its nodes.      *)
DeleteProvisioningSession(p) ==
    /\ ProviderMayWrite
    /\ psState[p] = "active"
    /\ psState' = [psState EXCEPT ![p] = "deleting"]
    /\ delete_content_hosting_configurations' =
           [a \in AS |-> IF a \in psStates[p]
                         THEN Append(delete_content_hosting_configurations[a], p)
                         ELSE delete_content_hosting_configurations[a]]
    /\ delete_certificates' =
           [a \in AS |-> IF a \in psStates[p]
                         THEN delete_certificates[a] \o SetToSeq(CertsOf(p))
                         ELSE delete_certificates[a]]
    /\ UNCHANGED <<afChc, psStates, assigned, purges, cacheVars,
                   upload_certificates, upload_content_hosting_configurations,
                   purge_content_hosting_cache, events, backoff, asVars>>
    /\ Drive(psStates[p])

\* M1 cache purge of a session's CHC: queued on the session's nodes
PurgeCache(p) ==
    /\ ProviderMayWrite
    /\ psState[p] = "active" /\ afChc[p] > 0 /\ purges < MaxPurges
    /\ purges' = purges + 1
    /\ purge_content_hosting_cache' =
           [a \in AS |-> IF a \in psStates[p]
                         THEN Append(purge_content_hosting_cache[a], p)
                         ELSE purge_content_hosting_cache[a]]
    /\ UNCHANGED <<psState, afChc, psStates, assigned, cacheVars,
                   upload_certificates, upload_content_hosting_configurations,
                   delete_content_hosting_configurations, delete_certificates,
                   events, backoff, asVars>>
    /\ Drive(psStates[p])

-----------------------------------------------------------------------------
(* The Application Server answering on M3                                  *)

Held(a, r) ==
    IF r.resource = "certificates" THEN r.id \in asCerts[a]
                                   ELSE asChc[a][r.id] # 0

\* POST of a held resource, PUT, DELETE or purge of a missing one, and a
\* certificate upload without a PEM fail
Answer(a, r) ==
    CASE r.method = "GET"    -> "2xx"
      [] r.resource = "purge" -> IF Held(a, r) THEN "2xx" ELSE "4xx"
      [] r.resource = "certificates" /\ r.method # "DELETE" /\ r.body = 0 -> "4xx"
      [] OTHER -> IF (r.method = "POST") = Held(a, r) THEN "4xx" ELSE "2xx"

Listing(a, r) ==
    CASE r.method # "GET"            -> {}
      [] r.resource = "certificates" -> asCerts[a]
      [] OTHER -> {p \in PSIds : asChc[a][p] # 0}

\* The AS's state after it processes r, when it succeeds (ok)
Apply(a, r, ok) ==
    /\ asCerts' = [asCerts EXCEPT ![a] =
          IF ok /\ r.resource = "certificates" /\ r.method # "GET"
          THEN IF r.method = "DELETE" THEN @ \ {r.id} ELSE @ \cup {r.id}
          ELSE @]
    /\ asChc' = [asChc EXCEPT ![a] =
          IF ok /\ r.resource = CHC /\ r.method # "GET"
          THEN [@ EXCEPT ![r.id] = IF r.method = "DELETE" THEN 0 ELSE r.body]
          ELSE @]

(* The AS serves the i-th outstanding request (in any order) and the reply *)
(* reaches client_notify_cb with status OK, which queues it as an event.   *)
ApplicationServerReply(a, i) ==
    LET r == inflight[a][i] IN
    \E s \in {Answer(a, r)} \cup (IF errors < MaxServerErrors THEN {"5xx"} ELSE {}) :
        /\ Apply(a, r, s = "2xx")
        /\ errors' = IF s = "5xx" THEN errors + 1 ELSE errors
        /\ inflight' = [inflight EXCEPT ![a] = RemoveAt(@, i)]
        /\ events' = Append(events, [as |-> a, req |-> r, status |-> s,
                                     list |-> IF s = "2xx" THEN Listing(a, r) ELSE {}])
        /\ UNCHANGED <<afVars, cacheVars, queueVars, backoff>>

(* client_notify_cb with status != OGS_OK (transport error, timeout), or a *)
(* failed ogs_queue_push: the reply is logged and dropped, no event is    *)
(* queued.  The AS may or may not have carried out the request.           *)
ClientNotifyFailed(a, i) ==
    /\ Lossy
    /\ LET r == inflight[a][i] IN
       \E applied \in BOOLEAN : Apply(a, r, applied /\ Answer(a, r) = "2xx")
    /\ inflight' = [inflight EXCEPT ![a] = RemoveAt(@, i)]
    /\ UNCHANGED <<afVars, cacheVars, queueVars, events, backoff, errors>>

-----------------------------------------------------------------------------
(* The OGS_EVENT_SBI_CLIENT handler for M3 replies                         *)

Reply == Head(events)

\* A 5xx leaves the entry at the head of its queue and arms the retry timer
OnServerError ==
    /\ events # <<>> /\ Reply.status = "5xx"
    /\ events' = Tail(events)
    /\ backoff' = [backoff EXCEPT ![Reply.as] = TRUE]
    /\ UNCHANGED <<afVars, cacheVars, queueVars, inflight, asVars>>

\* A list GET fills the node's cache and drives the node
OnListReply ==
    /\ events # <<>> /\ Reply.status = "2xx" /\ Reply.req.method = "GET"
    /\ LET a == Reply.as IN
       /\ current_certificates' = [current_certificates EXCEPT ![a] =
             IF Reply.req.resource = "certificates" THEN Reply.list ELSE @]
       /\ current_content_hosting_configurations' =
             [current_content_hosting_configurations EXCEPT ![a] =
                IF Reply.req.resource = CHC THEN Reply.list ELSE @]
       /\ events' = Tail(events)
       /\ UNCHANGED <<afVars, queueVars, backoff, asVars>>
       /\ Drive({a})

(* Any other 2xx or 4xx removes the request's entry from its queue (4xx is *)
(* not retried), records a success in the cache, and drives the node.      *)
OnEntryReply ==
    /\ events # <<>> /\ Reply.status # "5xx" /\ Reply.req.method # "GET"
    /\ LET a == Reply.as
           r == Reply.req
           ok == Reply.status = "2xx"
           Done(q, sel) == [q EXCEPT ![a] = IF sel THEN RemoveFirst(@, r.id) ELSE @]
           upload == r.method \in {"POST", "PUT"}
       IN
       /\ upload_certificates' = Done(upload_certificates,
                                      upload /\ r.resource = "certificates")
       /\ upload_content_hosting_configurations' =
             Done(upload_content_hosting_configurations, upload /\ r.resource = CHC)
       /\ delete_certificates' = Done(delete_certificates,
                                      r.method = "DELETE" /\ r.resource = "certificates")
       /\ delete_content_hosting_configurations' =
             Done(delete_content_hosting_configurations,
                  r.method = "DELETE" /\ r.resource = CHC)
       /\ purge_content_hosting_cache' = Done(purge_content_hosting_cache,
                                              r.resource = "purge")
       /\ current_certificates' = [current_certificates EXCEPT ![a] =
             CASE ~ok \/ r.resource # "certificates" -> @
               [] r.method = "DELETE" -> @ \ {r.id}
               [] OTHER -> @ \cup {r.id}]
       /\ current_content_hosting_configurations' =
             [current_content_hosting_configurations EXCEPT ![a] =
                CASE ~ok \/ r.resource # CHC -> @
                  [] r.method = "DELETE" -> @ \ {r.id}
                  [] OTHER -> @ \cup {r.id}]
       /\ events' = Tail(events)
       /\ UNCHANGED <<afVars, backoff, asVars>>
       /\ Drive({a})

\* The retry timer fires and drives the node again
BackoffExpired(a) ==
    /\ backoff[a]
    /\ backoff' = [backoff EXCEPT ![a] = FALSE]
    /\ UNCHANGED <<afVars, cacheVars, queueVars, events, asVars>>
    /\ Drive({a})

-----------------------------------------------------------------------------

Provider ==
    \E p \in PSIds :
        \/ SetOnPost(p) \/ Update(p) \/ DeleteProvisioningSession(p)
        \/ PurgeCache(p)

Network ==
    \E a \in AS : \E i \in DOMAIN inflight[a] :
        \/ ApplicationServerReply(a, i)
        \/ ClientNotifyFailed(a, i)

Handler == OnServerError \/ OnListReply \/ OnEntryReply

Next ==
    \/ Provider
    \/ Network
    \/ Handler
    \/ \E a \in AS : BackoffExpired(a)

(* The event loop, the AS and the retry timer keep running; the provider  *)
(* and transport failures need not happen.                                 *)
Fairness ==
    /\ WF_vars(Handler)
    /\ \A a \in AS : WF_vars(\E i \in DOMAIN inflight[a] : ApplicationServerReply(a, i))
    /\ \A a \in AS : WF_vars(BackoffExpired(a))

Spec == Init /\ [][Next]_vars /\ Fairness

-----------------------------------------------------------------------------
(* Properties                                                              *)

TypeOK ==
    /\ psState \in [PSIds -> {"active", "deleting"}]
    /\ afChc \in [PSIds -> 0..MaxVersion]
    /\ psStates \in [PSIds -> SUBSET AS]
    /\ assigned \in [AS -> Seq(PSIds)]
    /\ current_certificates \in [AS -> SUBSET AFCert \cup {Unknown}]
    /\ current_content_hosting_configurations \in [AS -> SUBSET PSIds \cup {Unknown}]
    /\ upload_certificates \in [AS -> Seq(AFCert)]
    /\ delete_certificates \in [AS -> Seq(AFCert)]
    /\ upload_content_hosting_configurations \in [AS -> Seq(PSIds)]
    /\ delete_content_hosting_configurations \in [AS -> Seq(PSIds)]
    /\ purge_content_hosting_cache \in [AS -> Seq(PSIds)]
    /\ inflight \in [AS -> Seq(Request)]
    /\ events \in Seq(Event)
    /\ backoff \in [AS -> BOOLEAN]
    /\ asCerts \in [AS -> SUBSET AFCert]
    /\ asChc \in [AS -> [PSIds -> 0..MaxVersion]]

\* Nothing is pending or queued for node a
Quiescent(a) ==
    /\ Idle(a)
    /\ upload_certificates[a] = <<>>
    /\ upload_content_hosting_configurations[a] = <<>>
    /\ delete_content_hosting_configurations[a] = <<>>
    /\ delete_certificates[a] = <<>>
    /\ purge_content_hosting_cache[a] = <<>>

Live(a) == {p \in PSIds : a \in psStates[p] /\ psState[p] = "active"}

(* The AS holds exactly the certificates and latest CHCs of the live      *)
(* sessions assigned to it, and the node's cached lists say so.           *)
Mirrored(a) ==
    /\ asCerts[a] = UNION {CertsOf(p) : p \in Live(a)}
    /\ \A p \in PSIds : asChc[a][p] = IF p \in Live(a) THEN afChc[p] ELSE 0
    /\ current_certificates[a] \in {Unknown, asCerts[a]}
    /\ current_content_hosting_configurations[a]
           \in {Unknown, {p \in PSIds : asChc[a][p] # 0}}

(* Spec section 8 (eventual consistency): whenever a node has nothing      *)
(* left to do, the AS mirrors the AF.  Broken by a stale PUT/POST choice   *)
(* in next_action_for_application_server, a dropped queue entry, or two    *)
(* requests for one resource served in the other order.                   *)
MirrorConsistentWhenQuiescent == \A a \in AS : Quiescent(a) => Mirrored(a)

(* Spec section 4.6: certificate uploads go before CHC uploads, and CHC   *)
(* deletes before certificate deletes, so that the AS never holds a CHC   *)
(* whose certificates it lacks.  Depends on the branch order of           *)
(* next_action_for_application_server and on each step waiting for the    *)
(* previous reply.                                                        *)
CertsPrecedeChc ==
    \A a \in AS, p \in PSIds : asChc[a][p] # 0 => CertsOf(p) \subseteq asCerts[a]

(* Spec section 3: an AS-state node holds the set of sessions assigned to  *)
(* it.  msaf_application_server_state_update overwrites every entry of    *)
(* assigned_provisioning_sessions with the session being updated.          *)
AssignedSessionsFaithful ==
    \A a \in AS : ToSet(assigned[a]) = {p \in PSIds : a \in psStates[p]}

(* Spec section 8: every M1 write eventually reaches the AS, and the       *)
(* reconciliation comes to rest with the AS mirroring the AF.  Needs every *)
(* reply to come back as an event: client_notify_cb drops a failed one.    *)
EventuallyReconciled == <>[](\A a \in AS : Quiescent(a) /\ Mirrored(a))

=============================================================================
