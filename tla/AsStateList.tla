----------------------------- MODULE AsStateList -----------------------------
(***************************************************************************)
(* The linked lists that tie Application Server state nodes to the AF and  *)
(* to provisioning sessions (src/src/5gmsaf/application-server-context.c). *)
(*                                                                         *)
(* An msaf_application_server_state_node_t has ONE ogs_lnode_t, its first  *)
(* member.  application_server_state_init links it into                    *)
(* msaf_self()->application_server_states; set_on_post links the same     *)
(* node into the session's msaf_application_server_state_nodes list.      *)
(* The model keeps the lists at the level of their links: every list head  *)
(* has first/last, every state node prev/next, and ogs_list_add and        *)
(* ogs_list_for_each are translated as open5gs defines them, reading the  *)
(* next link after the loop body.  What set_on_post queues on a node (its *)
(* certificates, CHC and assigned-session entry) is modelled in            *)
(* ApplicationServerContext; here it is the set of sessions queued.        *)
(***************************************************************************)
EXTENDS Integers, Sequences, SequencesExt, FiniteSets

CONSTANTS
    AS,           \* configured application servers (msaf_application_server_node_t)
    Hosts,        \* canonical hostnames they may have
    PSIds,        \* provisioning sessions
    NULL

\* The state node of each AS; distinct from the AS record itself.
StateOf(a) == <<"as_state", a>>
StateNodes == {StateOf(a) : a \in AS}
StatesHead == "application_server_states"
Heads == {StatesHead} \cup PSIds
Link == StateNodes \cup {NULL}

VARIABLES
    lnode,     \* StateNodes -> [prev, next]: the node's only ogs_lnode_t
    heads,     \* Heads -> [first, last]: the list heads
    config,    \* config.applicationServers_list, first to last
    queued,    \* StateNodes -> sessions set_on_post queued on the node
    posted,    \* sessions whose first CHC set_on_post has handled
    shutdown,  \* msaf_application_server_remove_all has run
    host       \* canonicalHostname of each AS, as configured

vars == <<lnode, heads, config, queued, posted, shutdown, host>>

(* ogs_list_add (open5gs lib/core/ogs-list.h): link n after the last node *)
(* of list h.  Returns the new links and heads.                           *)
OgsListAdd(ln, hd, h, n) ==
    LET last == hd[h].last
        ln1  == [ln EXCEPT ![n] = [prev |-> last, next |-> NULL]]
    IN <<IF last = NULL THEN ln1 ELSE [ln1 EXCEPT ![last].next = n],
         [hd EXCEPT ![h] = [first |-> IF last = NULL THEN n ELSE @.first,
                            last |-> n]]>>

\* The nodes ogs_list_for_each visits from n when the body changes no link;
\* a cycle stops after every node has been seen once more than it exists.
RECURSIVE Walk(_, _, _)
Walk(ln, n, fuel) ==
    IF n = NULL \/ fuel = 0 THEN <<>> ELSE <<n>> \o Walk(ln, ln[n].next, fuel - 1)

Traverse(ln, hd, h) == Walk(ln, hd[h].first, Cardinality(StateNodes) + 1)

\* application_server_state_init (lines 288-302): a new state node, with
\* empty queues, linked onto application_server_states.
StateInit(st, a) == OgsListAdd(st.lnode, st.heads, StatesHead, StateOf(a))

\* msaf_application_server_add (lines 115-131): the AS record goes on the
\* config list, then its state node is created.
ApplicationServerAdd(st, a) ==
    LET r == StateInit(st, a)
    IN [lnode |-> r[1], heads |-> r[2], config |-> Append(st.config, a)]

RECURSIVE LoadConfig(_, _)
LoadConfig(st, order) ==
    IF order = <<>> THEN st
    ELSE LoadConfig(ApplicationServerAdd(st, Head(order)), Tail(order))

Empty == [first |-> NULL, last |-> NULL]
Loaded(order) == LoadConfig([lnode |-> [n \in StateNodes |-> [prev |-> NULL, next |-> NULL]],
                      heads |-> [h \in Heads |-> Empty],
                      config |-> <<>>], order)

\* The AF after it has read a configuration: the application servers in
\* any order, with any hostnames (two entries may share a host).
Init ==
    /\ host \in [AS -> Hosts]
    /\ \E order \in SetToSeqs(AS) :
         /\ lnode = Loaded(order).lnode
         /\ heads = Loaded(order).heads
         /\ config = Loaded(order).config
    /\ queued = [n \in StateNodes |-> {}]
    /\ posted = {}
    /\ shutdown = FALSE

-----------------------------------------------------------------------------
\* The AS a state node belongs to (as_state->application_server).
ServerOf(n) == n[2]

\* Mutant of SetOnPostFrom: the loop saves the next link before the body,
\* as ogs_list_for_each_safe does.
RECURSIVE SetOnPostFrom_Safe(_, _, _, _)
SetOnPostFrom_Safe(st, p, n, fuel) ==
    IF n = NULL \/ fuel = 0 THEN st
    ELSE LET match == host[ServerOf(n)] = host[config[1]]
             r     == OgsListAdd(st.lnode, [st.heads EXCEPT ![p] = Empty], p, n)
             body  == IF match
                        THEN [lnode |-> r[1], heads |-> r[2],
                              queued |-> [st.queued EXCEPT ![n] = @ \cup {p}]]
                        ELSE st
         IN SetOnPostFrom_Safe(body, p, st.lnode[n].next, fuel - 1)

\* Mutant of SetOnPostFrom: the AS record, not its state node, is added
\* to the session's list (both are void * to ogs_list_add).
RECURSIVE SetOnPostFrom_AddsServer(_, _, _, _)
SetOnPostFrom_AddsServer(st, p, n, fuel) ==
    IF n = NULL \/ fuel = 0 THEN st
    ELSE LET match == host[ServerOf(n)] = host[config[1]]
             hd    == [st.heads EXCEPT ![p] = [first |-> ServerOf(n), last |-> ServerOf(n)]]
             body  == IF match
                        THEN [lnode |-> st.lnode, heads |-> hd,
                              queued |-> [st.queued EXCEPT ![n] = @ \cup {p}]]
                        ELSE st
         IN SetOnPostFrom_AddsServer(body, p, body.lnode[n].next, fuel - 1)

(* The loop of set_on_post (lines 35-59) from node n: a node whose AS has  *)
(* the first configured AS's hostname gets the session queued, and its     *)
(* lnode is re-linked into the session's list after ogs_list_init; then    *)
(* ogs_list_for_each reads the next link of that same lnode.               *)
RECURSIVE SetOnPostFrom(_, _, _, _)
SetOnPostFrom(st, p, n, fuel) ==
    IF n = NULL \/ fuel = 0 THEN st
    ELSE LET match == host[ServerOf(n)] = host[config[1]]
             r     == OgsListAdd(st.lnode, [st.heads EXCEPT ![p] = Empty], p, n)
             body  == IF match
                        THEN [lnode |-> r[1], heads |-> r[2],
                              queued |-> [st.queued EXCEPT ![n] = @ \cup {p}]]
                        ELSE st
         IN SetOnPostFrom(body, p, body.lnode[n].next, fuel - 1)

(* msaf_application_server_state_set_on_post (lines 23-61) for the first   *)
(* CHC of session p; ogs_assert(msaf_as) aborts with no AS configured.      *)
SetOnPost(p) ==
    /\ ~shutdown
    /\ p \notin posted
    /\ config /= <<>>
    /\ LET st == SetOnPostFrom([lnode |-> lnode, heads |-> heads, queued |-> queued],
                               p, heads[StatesHead].first, Cardinality(StateNodes) + 1)
       IN /\ lnode' = st.lnode
          /\ heads' = st.heads
          /\ queued' = st.queued
    /\ posted' = posted \cup {p}
    /\ UNCHANGED <<config, shutdown, host>>

\* msaf_application_server_remove (lines 304-311): unlink one AS record
\* from the config list (and free it).
ApplicationServerRemove(cfg, a) == SelectSeq(cfg, LAMBDA x : x /= a)

(* msaf_application_server_remove_all (lines 269-275): every AS record is  *)
(* removed at shutdown; the state nodes still point at the freed records. *)
RemoveAll ==
    /\ ~shutdown
    /\ config' = FoldSeq(LAMBDA a, c : ApplicationServerRemove(c, a), config, config)
    /\ shutdown' = TRUE
    /\ UNCHANGED <<lnode, heads, queued, posted, host>>

Next == (\E p \in PSIds : SetOnPost(p)) \/ RemoveAll

Spec == Init /\ [][Next]_vars

-----------------------------------------------------------------------------
TypeOK ==
    /\ lnode \in [StateNodes -> [prev : Link, next : Link]]
    /\ heads \in [Heads -> [first : Link, last : Link]]
    /\ config \in Seq(AS)
    /\ queued \in [StateNodes -> SUBSET PSIds]
    /\ posted \subseteq PSIds
    /\ host \in [AS -> Hosts]

\* msaf_application_server_state_update walks the session's
\* msaf_application_server_state_nodes: that walk must reach exactly the
\* state nodes set_on_post queued the session on, each once.
UpdateReachesQueued ==
    \A p \in posted :
        LET w == Traverse(lnode, heads, p) IN
        /\ ToSet(w) = {n \in StateNodes : p \in queued[n]}
        /\ Len(w) = Cardinality(ToSet(w))

\* Walking application_server_states visits the state node of every
\* configured AS, in configuration order, for as long as the AF runs.
StatesListComplete ==
    ~shutdown =>
        Traverse(lnode, heads, StatesHead) = [k \in DOMAIN config |-> StateOf(config[k])]

\* Every session's CHC is queued for every configured AS (spec section 8,
\* scenario 6: both AS endpoints observe a PUT CHC).
EverySessionOnEveryAS ==
    \A p \in posted, a \in AS : p \in queued[StateOf(a)]
=============================================================================
