------------------------------ MODULE NfServer ------------------------------
(***************************************************************************)
(* The AF's problem-details error path (src/src/5gmsaf/server.c):          *)
(* nf_server_send_error builds an RFC 7807 problem from the request's      *)
(* resource components, hands it to nf_server_send_problem, which builds   *)
(* the response (nf_build_response, nf_build_content, nf_build_json,       *)
(* nf_server_new_response) and sends it, and then frees what it allocated. *)
(*                                                                         *)
(* One call of nf_server_send_error is one behaviour: Init picks the       *)
(* caller's arguments, each action is one stretch of the function between  *)
(* two points where memory is allocated, freed or read.  The heap is a     *)
(* function from the blocks the call can allocate to their state; a string *)
(* is a sequence of tokens ("/" and resource components).  Reading a freed *)
(* block is undefined behaviour: the bytes may still be there or may have  *)
(* been overwritten by the allocator, so the read yields either.           *)
(***************************************************************************)
EXTENDS Integers, Sequences, SequencesExt

CONSTANTS
    Components,     \* resource component names seen in request URIs
    MaxComponents,  \* longest resource path a request carries
    Statuses,       \* HTTP statuses callers report
    AllocFails,     \* TRUE: ogs_msprintf / ogs_sbi_response_new may return NULL
    NoMessage, NULL, Garbage

ASSUME MaxComponents \in Nat \ {0}
ASSUME AllocFails \in BOOLEAN

Sep == "/"
NO_CONTENT == 204
ProblemJson == "application/problem+json"

\* The JSON passed as problem_detail: absent, or a problem with or
\* without invalidParams.
ProblemDetailInputs == {"none", "with_params", "without_params"}

\* The blocks one call can allocate: the parsed problem, the type string
\* and one instance string per formatting of it.
ProblemDetailsBlock == <<"problem_details", 0>>
TypeBlock == <<"type", 0>>
Instance(k) == <<"instance", k>>
InstanceBlocks == {Instance(k) : k \in 0..(MaxComponents - 1)}
Blocks == {ProblemDetailsBlock, TypeBlock} \cup InstanceBlocks
Text == Seq(Components \cup {Sep}) \cup {Garbage}

Messages == {NoMessage} \cup
            UNION {[1..k -> Components] : k \in 1..MaxComponents}

VARIABLES
    call,     \* the arguments: message, number_of_components, status, problem_detail
    pc,       \* the point reached in nf_server_send_error
    i,        \* the loop counter of lines 165-170
    problem,  \* the OpenAPI_problem_details_t on the stack
    heap,     \* Blocks -> "unallocated" | "live" | "freed" | "freed_twice"
    text,     \* contents of every instance block
    sent,     \* responses handed to ogs_sbi_server_send_response
    ret       \* the value returned, once pc = "done"

vars == <<call, pc, i, problem, heap, text, sent, ret>>

Init ==
    /\ call \in {c \in [message : Messages,
                        number_of_components : 0..(MaxComponents - 1),
                        status : Statuses,
                        problem_detail : ProblemDetailInputs] :
                    c.message /= NoMessage =>
                        c.number_of_components < Len(c.message)}
    /\ pc = "parse"
    /\ i = 0
    /\ problem = [type |-> NULL, instance |-> NULL, is_status |-> FALSE,
                  status |-> 0, invalid_params |-> FALSE]
    /\ heap = [b \in Blocks |-> "unallocated"]
    /\ text = [b \in InstanceBlocks |-> <<>>]
    /\ sent = <<>>
    /\ ret = NULL

\* Possible results of an allocation: the block, or NULL when allocation
\* may fail.
AllocResults(b) == {b} \cup (IF AllocFails THEN {NULL} ELSE {})

Alloc(b) == [heap EXCEPT ![b] = "live"]

Free(h, b) ==
    IF b = NULL THEN h
    ELSE [h EXCEPT ![b] = IF @ = "live" THEN "freed" ELSE "freed_twice"]

\* What "%s" of the pointer p reads: a live block's text; for a freed block
\* either its old text or whatever the allocator wrote over it; for NULL
\* glibc prints "(null)", which is not a resource path either.
ReadString(h, p) ==
    IF p /= NULL /\ h[p] = "live" THEN {text[p]}
    ELSE IF p /= NULL THEN {text[p], Garbage}
    ELSE {Garbage}

Concat(s, c) == IF s = Garbage THEN Garbage ELSE s \o <<Sep, c>>

-----------------------------------------------------------------------------
(* Lines 146-154: parse the optional problem_detail JSON and borrow its   *)
(* invalid_params.                                                         *)
ParseProblemDetail ==
    /\ pc = "parse"
    /\ IF call.problem_detail = "none"
         THEN UNCHANGED <<problem, heap>>
         ELSE /\ heap' = Alloc(ProblemDetailsBlock)
              /\ problem' = [problem EXCEPT !.invalid_params =
                                (call.problem_detail = "with_params")]
    /\ pc' = "type"
    /\ UNCHANGED <<call, i, text, sent, ret>>

\* Mutant of FormatTypeAndInstance: the type check returns true.
FormatTypeAndInstance_TypeFailTrue ==
    /\ pc = "type"
    /\ call.message /= NoMessage
    /\ \E t \in AllocResults(TypeBlock) :
         IF t = NULL
           THEN /\ pc' = "done" /\ ret' = TRUE
                /\ UNCHANGED <<i, problem, heap, text>>
           ELSE \E p \in AllocResults(Instance(0)) :
                  /\ problem' = [problem EXCEPT !.type = t, !.instance = p]
                  /\ heap' = IF p = NULL THEN Alloc(t)
                             ELSE [Alloc(t) EXCEPT ![p] = "live"]
                  /\ text' = [text EXCEPT ![Instance(0)] = <<Sep, call.message[1]>>]
                  /\ i' = 1
                  /\ pc' = "loop"
                  /\ UNCHANGED ret
    /\ UNCHANGED <<call, sent>>

(* Lines 157-163: type = "/<service>/<version>", returning false when it   *)
(* cannot be allocated; instance = "/<component[0]>".                      *)
FormatTypeAndInstance ==
    /\ pc = "type"
    /\ call.message /= NoMessage
    /\ \E t \in AllocResults(TypeBlock) :
         IF t = NULL
           THEN /\ pc' = "done" /\ ret' = FALSE
                /\ UNCHANGED <<i, problem, heap, text>>
           ELSE \E p \in AllocResults(Instance(0)) :
                  /\ problem' = [problem EXCEPT !.type = t, !.instance = p]
                  /\ heap' = IF p = NULL THEN Alloc(t)
                             ELSE [Alloc(t) EXCEPT ![p] = "live"]
                  /\ text' = [text EXCEPT ![Instance(0)] = <<Sep, call.message[1]>>]
                  /\ i' = 1
                  /\ pc' = "loop"
                  /\ UNCHANGED ret
    /\ UNCHANGED <<call, sent>>

NoResource ==
    /\ pc = "type"
    /\ call.message = NoMessage
    /\ pc' = "status"
    /\ UNCHANGED <<call, i, problem, heap, text, sent, ret>>

\* Mutant of AppendComponent: the instance pointer is only replaced when
\* the new string was allocated.
AppendComponent_KeepOnFailure ==
    /\ pc = "loop"
    /\ i <= call.number_of_components
    /\ LET h == Free(heap, problem.instance) IN
       \E old \in ReadString(h, problem.instance), p \in AllocResults(Instance(i)) :
         /\ heap' = IF p = NULL THEN h ELSE [h EXCEPT ![p] = "live"]
         /\ text' = IF p = NULL THEN text
                    ELSE [text EXCEPT ![p] = Concat(old, call.message[i + 1])]
         /\ problem' = IF p = NULL THEN problem ELSE [problem EXCEPT !.instance = p]
    /\ i' = i + 1
    /\ UNCHANGED <<call, pc, sent, ret>>

(* Lines 165-170: free the instance, then format the freed pointer and the *)
(* next component into a new instance string.                              *)
AppendComponent ==
    /\ pc = "loop"
    /\ i <= call.number_of_components
    /\ LET h == Free(heap, problem.instance) IN
       \E old \in ReadString(h, problem.instance), p \in AllocResults(Instance(i)) :
         /\ heap' = IF p = NULL THEN h ELSE [h EXCEPT ![p] = "live"]
         /\ text' = IF p = NULL THEN text
                    ELSE [text EXCEPT ![p] = Concat(old, call.message[i + 1])]
         /\ problem' = [problem EXCEPT !.instance = p]
    /\ i' = i + 1
    /\ UNCHANGED <<call, pc, sent, ret>>

(* Line 171: leave the loop; a NULL instance returns NULL (false).        *)
EndComponents ==
    /\ pc = "loop"
    /\ i > call.number_of_components
    /\ IF problem.instance = NULL
         THEN pc' = "done" /\ ret' = FALSE
         ELSE pc' = "status" /\ UNCHANGED ret
    /\ UNCHANGED <<call, i, problem, heap, text, sent>>

-----------------------------------------------------------------------------
(* Response building.  A header set is a set of <<name, value>> pairs;    *)
(* ogs_sbi_header_set replaces a header of the same name.                  *)
HeaderSet(hs, n, v) == {h \in hs : h[1] /= n} \cup {<<n, v>>}

\* Mutant of NewResponseHeaders: every header is set, given or not.
NewResponseHeaders_Unconditional(opt) ==
    {<<"Server", "5GMSdAF">>} \cup {<<n, opt[n]>> : n \in DOMAIN opt}

(* nf_server_new_response (lines 27-101): the optional headers that are   *)
(* given, and always a Server header (its text depends on the interface). *)
NewResponseHeaders(opt) ==
    {<<"Server", "5GMSdAF">>} \cup
    {<<n, opt[n]>> : n \in {m \in DOMAIN opt : opt[m] /= NULL}}

HeaderNames == {"Location", "Content-Type", "Last-Modified", "ETag", "Cache-Control"}
NoOptions == [n \in HeaderNames |-> NULL]

(* nf_build_json and nf_build_content (lines 222-262): the problem as JSON  *)
(* and its Content-Type, the message's own or application/json.           *)
ProblemBody(pr) ==
    [type |-> pr.type /= NULL,
     instance |-> IF pr.instance = NULL THEN NULL ELSE text[pr.instance],
     status |-> IF pr.is_status THEN pr.status ELSE NULL,
     invalidParams |-> pr.invalid_params]

\* Mutant of BuildContent: the message's content type is ignored.
BuildContent_JsonOnly(hs, content_type) ==
    HeaderSet(hs, "Content-Type", "application/json")

BuildContent(hs, content_type) ==
    HeaderSet(hs, "Content-Type",
              IF content_type /= NULL THEN content_type ELSE "application/json")

(* nf_build_response (lines 192-220): a 204 carries no content; the        *)
(* message's Location and Cache-Control are copied when it has them.       *)
OptionalHeader(hs, n, v) == IF v = NULL THEN hs ELSE HeaderSet(hs, n, v)

BuildResponse(pr, content_type, location, cache_control, status) ==
    LET hs == NewResponseHeaders(NoOptions)
        withBody == IF status = NO_CONTENT THEN hs ELSE BuildContent(hs, content_type)
    IN [status |-> status,
        headers |-> OptionalHeader(OptionalHeader(withBody, "Location", location),
                                   "Cache-Control", cache_control),
        body |-> IF status = NO_CONTENT THEN NULL ELSE ProblemBody(pr)]

(* nf_server_send_problem (lines 116-136): a message with only a content  *)
(* type and the problem, built into a response.                            *)
NfServerSendProblem(pr) == BuildResponse(pr, ProblemJson, NULL, NULL, pr.status)

(* Lines 173-180: fill in status, title and detail, and send the problem  *)
(* through nf_server_send_problem.  ogs_sbi_response_new or cJSON_Print returning NULL     *)
(* trips an ogs_assert.                                                    *)
SendProblem ==
    /\ pc = "status"
    /\ LET pr == [problem EXCEPT !.is_status = (call.status /= 0),
                                 !.status = call.status]
       IN /\ problem' = pr
          /\ \/ /\ sent' = Append(sent, NfServerSendProblem(pr))
                /\ pc' = "free"
             \/ /\ AllocFails
                /\ pc' = "aborted"
                /\ UNCHANGED sent
    /\ UNCHANGED <<call, i, heap, text, ret>>

(* Lines 182-189: free type and instance, and the parsed problem only when *)
(* it had invalid_params.                                                   *)
FreeProblem ==
    /\ pc = "free"
    /\ heap' = LET h1 == Free(heap, problem.type)
                   h2 == Free(h1, problem.instance)
               IN IF problem.invalid_params THEN Free(h2, ProblemDetailsBlock) ELSE h2
    /\ ret' = TRUE
    /\ pc' = "done"
    /\ UNCHANGED <<call, i, problem, text, sent>>

Next ==
    \/ ParseProblemDetail
    \/ FormatTypeAndInstance
    \/ NoResource
    \/ AppendComponent
    \/ EndComponents
    \/ SendProblem
    \/ FreeProblem

Spec == Init /\ [][Next]_vars /\ WF_vars(Next)

-----------------------------------------------------------------------------
TypeOK ==
    /\ pc \in {"parse", "type", "loop", "status", "free", "done", "aborted"}
    /\ i \in 0..MaxComponents
    /\ heap \in [Blocks -> {"unallocated", "live", "freed", "freed_twice"}]
    /\ text \in [InstanceBlocks -> Text]
    /\ problem.instance \in InstanceBlocks \cup {NULL}
    /\ Len(sent) <= 1
    /\ \A k \in 1..Len(sent) : \A h \in sent[k].headers : h[2] /= NULL
    /\ ret \in {NULL, TRUE, FALSE}

(* The instance the spec describes: "/" before each of the first          *)
(* number_of_components + 1 resource components.                           *)
ResourcePath(m, n) == FlattenSeq([k \in 1..(n + 1) |-> <<Sep, m[k]>>])

\* The problem's instance names the resource the request was for, as built
\* by the loop of nf_server_send_error over message->h.resource.component.
InstanceIsResourcePath ==
    \A k \in 1..Len(sent) :
        (call.message /= NoMessage /\ sent[k].body /= NULL) =>
            sent[k].body.instance = ResourcePath(call.message, call.number_of_components)

\* No block is freed twice on any path of nf_server_send_error, including
\* the early returns after a failed ogs_msprintf.
NoDoubleFree == \A b \in Blocks : heap[b] /= "freed_twice"

\* When nf_server_send_error returns, everything it allocated is freed.
NoLeakOnReturn == pc = "done" => \A b \in Blocks : heap[b] /= "live"

\* nf_server_send_error returns true exactly when the stream was answered
\* once; a false return leaves the caller to answer it.
AnsweredIffTrue == pc = "done" => (ret = TRUE <=> Len(sent) = 1)

\* Every problem response is application/problem+json and its HTTP status
\* is the status inside the problem body.
ProblemResponseWellFormed ==
    \A k \in 1..Len(sent) :
        /\ <<"Content-Type", ProblemJson>> \in sent[k].headers
        /\ sent[k].body.status = sent[k].status
=============================================================================
