# TLA+ models of the 5GMS Application Function

This directory holds TLA+ models of the 5G-MAG 5GMS Application Function (AF)
in `src/`, with the TLC configurations that check them. `PROJECT.json` lists
the components, the runs, the mutants that show each checked property can fail,
the map from each definition to the source lines it models, the findings, and
the hazards.

## 1. Inventory

### What the repository contains

| Source | What it is |
|---|---|
| `src/src/5gmsaf/application-server-context.c` | The M3 client engine. It keeps one state node per Application Server (AS), with work queues, and pushes certificates and Content Hosting Configurations (CHCs) to the AS. |
| `src/src/5gmsaf/server.c` | Builds HTTP responses (`Server`, `ETag`, `Last-Modified`, `Cache-Control` headers) and RFC 7807 problem responses. |
| `src/unnamed/part_003` (`sbi-path.c`) | SBI glue. `server_cb` and `client_cb` turn inbound requests and client replies into events on the single event queue. `msaf_sbi_open` and `msaf_sbi_close` start and stop the servers. |
| `src/unnamed/part_000` | Lines 1-32: meson support scripts. Lines 34-307: a patch to the open5gs SBI library. Each server gets its own backend (HTTP/2 nghttp2 or HTTP/1.1 MHD). Every stream carries a common header pointing to its server, and responses are dispatched through that server's backend. |
| `src/unnamed/part_001`, `part_002`, `meson.build`, `Maf_Management.yaml` | A SystemD unit, the OpenAPI generator script, build files and an API document. None has runtime state. |

`meson.build` names many files that are not under `src/`: the M1/M5 state
machine (`msaf-sm.c`), the provisioning store, certmgr glue, the PCF/BSF
subsystem and the SAI cache. Where the model needs their behaviour, it is
modelled from `spec.md` and marked `spec_modelled` in the map.

### Components, state and operations

- **M3 client engine** (C6, `application-server-context.c`). This is the core of what `src/` contains.
  - *State per AS-state node:*
    - the AS's `current_certificates` and `current_content_hosting_configurations` lists. Each is NULL until fetched.
    - four FIFO queues: `upload_certificates`, `upload_content_hosting_configurations`, `delete_content_hosting_configurations`, `delete_certificates`.
    - a `purge_content_hosting_cache` queue.
    - the `assigned_provisioning_sessions` list.
    - a lazily created SBI client.
  - *State per provisioning session:* the list of AS-state nodes serving it.
  - *Operations:*
    - `msaf_application_server_state_set_on_post`: a session's first CHC. It assigns the session to the node of the first configured AS, queues the session's certificates and its CHC, then drives the node.
    - `msaf_application_server_state_update`: a CHC replace. It queues the CHC again on each of the session's nodes, then drives them.
    - `msaf_application_server_state_set`: assigns a session to a given node. No caller is in the sources.
    - `next_action_for_application_server`: sends exactly one request, picked by strict priority: GET the certificate list, GET the CHC list, upload a certificate, upload a CHC, delete a CHC, delete a certificate, purge. An upload is a PUT if the cached list already holds the resource, and a POST otherwise.
    - `m3_client_as_state_requests`: hands the request to the SBI client and does not wait for it.
    - `client_notify_cb`: queues the reply as an event, or drops it when the exchange failed or the queue push failed.
- **M3 reply handling** (in `msaf-sm.c`, not under `src/`). From spec §4.6:
  - a 2xx pops the queue entry, updates the cached list, and drives the node again;
  - a 4xx drops the entry;
  - a 5xx keeps the entry and retries it after a backoff.
- **M1 provisioning** (C3/C5, not under `src/`). First CHC write, CHC replace, session delete (which queues the AS-side withdrawals), cache purge.
- **Event loop** (C9, `sbi-path.c` and `client_notify_cb`). One thread drains one FIFO queue. It holds inbound requests and client replies, and each event is handled to completion before the next.
- **HTTP server abstraction** (C1, the `part_000` patch):
  - *State:* a list of servers, each with a backend, and streams, each pointing to its server.
  - *Operations:* `init` and `final` act on both backends; `server_add` creates an HTTP/2 server and `sbih1_server_add` an HTTP/1.1 one. `start_all` stops at the first failure. `stop_all`, `send_response` and `server_from_stream` complete the set.
- **Response building** (`server.c`). Mostly header formatting. `nf_server_send_error` builds the problem `instance` path from the resource components.

### How the components interact

1. M1 handlers run on the event loop. They call `set_on_post` or `update`, and these call `next_action_for_application_server`.
2. Each M3 request goes out through the SBI client. The AS serves HTTP/2 streams concurrently, so replies may come back in any order.
3. `client_notify_cb` turns a reply into an event on the shared queue.
4. The reply handler pops the queue entry and drives the node again.

5. Inbound M1/M5 requests arrive on an SBI server (HTTP/1.1 or HTTP/2). `server_cb` queues them on the same event queue as the M3 replies. The handler answers through `ogs_sbi_server_send_response`, and errors go through `nf_server_send_error` in `server.c`. The patch sends that response through the backend of the stream's own server.

Nothing in the code checks whether a request of the node is already out before it sends another.

### What is hard

- **Interleaving.** M1 writes can arrive between an M3 request and its reply. Both the M1 path and the reply path drive the node, so two requests for the same resource can be out together, and the AS can serve them in either order.
- **Stale state.** The PUT/POST choice uses cached lists that are fetched once and then kept up to date only from replies.
- **Unreliable delivery.** A failed exchange produces no event, so nothing drives the node again.
- **Ordering.** Queue priority must keep certificates present on the AS whenever a CHC that needs them is there.
- **Partial failure.** An unreadable certificate file is logged, and the request is still sent without a body.

### Properties that make each component correct

- **M3 engine:**
  - when a node has nothing left to do, the AS mirrors the AF's sessions;
  - the AS never holds a CHC whose certificates it lacks;
  - reconciliation eventually comes to rest with the AS mirrored;
  - a node's assigned list is the set of sessions assigned to it;
  - every configured AS is served.
- **HTTP server abstraction:**
  - after `stop_all`, no server runs;
  - a failed `start_all` leaves a known set of servers running.
- **Event loop:** every queued event is handled exactly once, in FIFO order.
- **Response building:** the problem `instance` equals `/` followed by the matched components joined with `/`.

## 2. Modules and plan

| Module | Models | Runs |
|---|---|---|
| `ApplicationServerContext` | the M3 engine, with the M1 writes, the AS peer, the event queue and the reply handler | `m3_*` |
| `AsStateList` | the `ogs_list` links of the AS-state nodes: configuration load, the `set_on_post` walk, `remove_all` | `aslist_*` |
| `NfServer` | one call of `nf_server_send_error`, with its heap, down to `nf_server_send_problem` and the response built | `nf_*` |
| `SbiServer` | the SBI servers of the `part_000` patch and `server_cb`, `msaf_sbi_open`, `msaf_sbi_close` | `sbi_dispatch` |

Each `MC_*` module gives the constants model values.

Not modelled, and why. Each module's section lists what it leaves out.
Across the project:
- the M1 and M5 state machines, the provisioning store, the certificate
  manager, the M5 SAI cache and the PCF/BSF delivery boost. Their code is
  not under `src/`. Only the M1 writes that drive the M3 engine are modelled,
  from the spec. A spec-only model of the rest could check nothing against
  this repository's code. The unreadable-PEM path of the certificate manager
  (`application-server-context.c:176`) is modelled by the `Unreadable`
  constant;
- the open5gs library the AF links: the SBI client, the nghttp2 and MHD
  backends, the event loop and the NRF state machine. Only the parts the
  `part_000` patch changes are modelled;
- the build scripts, the OpenAPI generator and the systemd unit. They hold
  no runtime state.

## 3. Module `ApplicationServerContext`

### State

| Variable | Code |
|---|---|
| `current_certificates`, `current_content_hosting_configurations` | the node fields of the same names; `Unknown` = NULL |
| `upload_*`, `delete_*`, `purge_content_hosting_cache` | the node's queues, as sequences of AF-unique certificate ids `<<session, certId>>` or session ids |
| `assigned` | `as_state->assigned_provisioning_sessions` |
| `psStates` | `provisioning_session->msaf_application_server_state_nodes` |
| `inflight` | requests handed to the SBI client and not yet answered |
| `events` | the FIFO event queue (M3 replies) |
| `backoff` | the retry timer after a 5xx |
| `afChc`, `psState` | the session's CHC version and lifecycle in the provisioning store |
| `asCerts`, `asChc` | what the AS holds (the peer) |

The CHC content is abstracted to a version number, and a certificate's PEM to
its id. Those are the only things the properties tell apart.

### Actions

`SetOnPost` and `Update` are the two public functions with their M1 callers.

`SetOnPost` walks `application_server_states` looking for the first configured
AS. It stops at the first match, because `ogs_list_add` reuses the node's
lnode. The session is therefore assigned only to `FirstAS`.

`RequestFor` is `next_action_for_application_server`. `Drive` appends its
request to `inflight`. `Drive` is evaluated on the primed queues, because the
callers queue work before they call `next_action`.

`ApplicationServerReply` is the AS serving any outstanding request, followed by
`client_notify_cb` queueing the reply. `ClientNotifyFailed` is the failure
branch: the reply is dropped, and the AS may or may not have carried out the
request.

The reply handler is `OnListReply`, `OnEntryReply` and `OnServerError`.
`BackoffExpired` is the retry timer.

`DeleteProvisioningSession` and `PurgeCache` are M1 handlers modelled from the
spec.

### Constants

- `Overlap`: whether M1 writes may arrive while the node has work outstanding. `FALSE` is a provider that writes only while every node is idle. The code cannot make a provider wait, because an M1 write is answered 204 as soon as the work is queued (lines 58 and 82), so `FALSE` is a restriction of the environment, used to see what holds when writes do not overlap. `TRUE` is what the code allows.
- `Lossy`: whether `client_notify_cb` may see failed exchanges.
- `Unreadable`: the certificates whose PEM file `read_file` cannot read. Their upload goes out with no content (body 0), and the modelled AS refuses it with a 4xx. It is `{}` except in `m3_unreadable_cert`.
- `MaxVersion`, `MaxServerErrors` and `MaxPurges`: name the bounds.

### Fairness

Weak fairness applies to three things:
- the reply handler, because the event loop always drains its queue;
- the AS serving each node's requests, because a peer that never answers is the `Lossy` case;
- the retry timer.

M1 writes and transport failures get no fairness, because they need not happen.
Once the bounded inputs are used up, the AF idles waiting for requests. Every
cfg therefore says `CHECK_DEADLOCK FALSE`, and stalls are caught by
`EventuallyReconciled` instead.

### Runs

| Run | Expect | What it shows |
|---|---|---|
| `m3_sequential` | pass | With M1 writes only while the node is idle and a reliable transport, all of these hold: `TypeOK`, `MirrorConsistentWhenQuiescent`, `CertsPrecedeChc` and `EventuallyReconciled`. Two sessions, two certificates each, three CHC versions, two 5xx, two purges, session delete: about 12k states. |
| `m3_lossy_safety` | pass | A lost reply keeps its certificate or CHC-delete entry queued until a later write drives the node again, and the cross-queue order still never leaves a CHC without its certificates on the AS. Two sessions, two certificates each, one 5xx, one purge: about 1.1M states. |
| `m3_overlap_mirror` | violation | A CHC write during reconciliation sends a second request for the node (spec §5 allows one). Duplicate POSTs of v1 and v2 go out. The first is served, and its 2xx sends a PUT of v2. The AS refuses the second POST, and that 4xx drops the only upload entry left. The PUT then gets a 5xx, and the retry finds the queue empty, so the AS keeps v1 once all work is done (spec §8). |
| `m3_lossy_stall` | violation | One failed exchange stops the node's reconciliation (spec §4.6: retry). |
| `m3_lossy_mirror` | violation | A lost reply to a POST the AS carried out leaves the cached list stale. The next replace is POSTed, refused and dropped. |
| `m3_overlap_certs` | violation | `CertsPrecedeChc`: the session is deleted while its CHC POST is out, and the delete's drive sends the still-queued POST again. The first 2xx pops the upload entry and sends the CHC DELETE. The AS serves the DELETE before the duplicate POST, which recreates the CHC. The certificate delete that follows leaves the AS with a CHC and no certificate (spec §4.6). |
| `m3_unreadable_cert` | violation | `CertsPrecedeChc`: the PEM file of `p1:c1` cannot be read. Its upload goes out empty, the 4xx drops the entry, and the CHC of `p1` is uploaded next, so the AS holds a CHC without its certificate (line 176 only logs). |

Why the bounds are enough: one AS is enough because `set_on_post`
(line 33) only ever assigns a session to the head of
`applicationServers_list`. With two AS, the second one takes no step: the
state counts of `m3_sequential` and `m3_lossy_safety` are the same as with one.
Two sessions let the uploads and deletes of one session queue
behind those of another. Two versions are enough for a
replace to race the first upload. One 5xx is enough to exercise the retry
against a concurrent drive, and one purge exercises the last queue. Every action
and every disjunct of `Next` fires in the passing runs.

Each passing property has a mutant in `PROJECT.json`, and each mutant is a
plausible bug in the code it replaces. The mutants replace small helpers,
not whole actions. `QueueSession` is the queueing of `set_on_post`.
`PostDrive` and `UpdateDrive` are the `next_action` calls of `set_on_post`
and `update`. `Uploads` and `Deletes` are the upload and delete branches of
`next_action`. The mutants are:
- a CHC node added to the certificate queue (copy-paste);
- always POST;
- certificate deletes before CHC deletes, and CHC uploads before certificate uploads;
- a missing `next_action` call;

`AssignedSessionsFaithful` (a node's assigned list is the set of sessions
assigned to it) is stated in the module, and TLC finds it violated with
`m3_assigned.cfg`. `update` (lines 76-80) sets every entry of the node's
assigned list to the updated session. The cfg is kept for the reader, but it
is not among the runs: nothing under `src/` reads the assigned list, and the
run slot went to `m3_overlap_certs`.

### Not modelled

- `msaf_application_server_state_set` (lines 86-113): nothing in the sources calls it.
- Freeing a deleted session (hazard `:210`). The second phase of the delete
  is not under `src/`. The spec's guard frees a session only after every
  node's queues are empty of it, so a property about it would hold by the
  shape of the model.
- SBI client creation failure (`msaf_m3_client_init`, hazard `:321`). A NULL
  client goes to `ogs_sbi_client_send_request`, which is not under `src/`.
  Whether the AF aborts there or loses the request cannot be read from this
  repository.
- An AF restart. Nothing is persisted (spec §1, non-goals), and the systemd unit
  (`part_001`) has no `Restart=`. A restarted AF would start from the
  configuration, a state `Init` already covers. The AS's content from the
  earlier run is left alone: no code path lists or deletes AS resources the
  AF does not know of.

## 4. Module `AsStateList`

An `msaf_application_server_state_node_t` has one `ogs_lnode_t`, its first
member. `application_server_state_init` links it into
`msaf_self()->application_server_states`. `set_on_post` links the same node
into the session's `msaf_application_server_state_nodes`. The module keeps
these lists at the level of their links, so that reusing the lnode has its
real effect.

- *State:* `lnode` (prev/next of every state node), `heads` (first/last of
  every list head), `config` (the configured AS records), `queued` (the
  sessions `set_on_post` queued on each node), `posted`, `shutdown`, and
  `host` (each AS's `canonicalHostname`).
- *Operators:* `OgsListAdd` is open5gs's `ogs_list_add`. `Walk` is
  `ogs_list_for_each`, which reads the next link after the loop body.
  `LoadConfig` applies `msaf_application_server_add` and
  `application_server_state_init` in configuration order.
- *Actions:* `SetOnPost(p)` is the whole of `set_on_post`. Its loop is the
  `RECURSIVE` operator `SetOnPostFrom`. `RemoveAll` is
  `msaf_application_server_remove_all`.
- *Init:* every order of three configured AS records, and every assignment
  of two hostnames to them. Two records may share a host, so the walk can
  meet a second match.

| Run | Expect | What it shows |
|---|---|---|
| `aslist_sessions` | pass | `TypeOK` and `UpdateReachesQueued`: the list that `update` walks reaches exactly the nodes the session was queued on, each once. 384 states. |
| `aslist_states_walk` | violation | `StatesListComplete`: after the first `set_on_post`, walking `application_server_states` stops at the first node, because `ogs_list_add` set its next link to NULL. |

Mutants:
- the loop saves the next link before the body (`ogs_list_for_each_safe`).
  This breaks `UpdateReachesQueued`: the walk then reaches a second node on
  the same host, and the `ogs_list_init` inside the loop (line 55) drops the
  first one. The lnode cut masks this second bug today.
- the AS record, not its state node, is added to the list. Both are `void *`
  to `ogs_list_add`.

`EverySessionOnEveryAS` states that every session is queued on every
configured AS, as in spec §8 scenario 6, which has two AS endpoints.
`aslist_every_as.cfg` checks it, and TLC finds it violated: `set_on_post` uses
only the first configured AS (line 33). The cfg is kept for the reader, but
it is not among the runs in `PROJECT.json`. `ApplicationServerContext` models
the same choice with `FirstAS`.

## 5. Module `NfServer`

One behaviour is one call of `nf_server_send_error`. `pc` steps through its
stretches: parse `problem_detail`, format `type` and the first `instance`,
append each resource component, build and send the problem, and free.

`heap` maps each block the call can allocate (the parsed problem, the type,
one instance string per formatting) to `live`, `freed` or `freed_twice`.
Reading a freed block is undefined behaviour. It yields either the old text
or `Garbage`, which are the outcomes an allocator can produce.

`AllocFails` lets every `ogs_msprintf` return NULL. A NULL response from
`nf_build_response` trips `ogs_assert`, and the call ends `aborted`.

`NfServerSendProblem`, `BuildResponse`, `BuildContent`, `ProblemBody` and
`NewResponseHeaders` compute the response that is sent. Header text and the
`Server` string are layout and are left out.

Fairness: one call runs to its end, so `WF_vars(Next)` holds. The cfgs say
`CHECK_DEADLOCK FALSE`, because a call ends in `done` or `aborted`.

| Run | Expect | What it shows |
|---|---|---|
| `nf_send_error` | pass | With failing allocations: `TypeOK`, `NoDoubleFree`, `AnsweredIffTrue` (true exactly when the stream was answered) and `ProblemResponseWellFormed` (problem+json, HTTP status = body status). Up to three components, two statuses: 5076 states. |
| `nf_instance_uaf` | violation | `InstanceIsResourcePath`: with two components, the instance is formatted from the string the loop has just freed (line 168). |

`NoLeakOnReturn` states that a returning call has freed what it allocated.
`nf_leak.cfg` checks it, and TLC finds it violated: `problem_details` is freed
only when it has `invalidParams`. The cfg is kept for the reader, but it is
not among the runs in `PROJECT.json`. The leak is recorded in the hazard at
`server.c:161`.

## 6. Module `SbiServer`

This module covers the patch in `part_000` and `sbi-path.c`.

- *State:* `serverList` and `actions` (each server's backend), `running`,
  `af` (`init`, `open`, `failed`, `closed`), each stream's `owner` (the
  `common.server` header) and `stage`, the event `queue`, `expired` (streams
  whose session watchdog fired), and `wire` (the backend of every response
  written on each stream).
- *Init:* every order of two servers and every backend mix.
  `ogs_sbi_server_add` gives a server nghttp2, and `ogs_sbih1_server_add`
  gives it MHD.
- *Actions:*
  - `StartAll` is `msaf_sbi_open` with `start_all`, which stops at the
    first server that fails and leaves the earlier ones running.
  - `ServerCb` is the backend opening a stream, followed by `server_cb`,
    which pushes the event or drops the request when the queue is full.
  - `Dispatch` is the event loop.
  - `Respond` is `ogs_sbi_server_send_response`, which dispatches through
    `ogs_sbi_server_from_stream`.
  - `StopAll` is `msaf_sbi_close`.
- *Spec-modelled parts:* the backends' watchdog (`SessionTimerExpired`) and
  the discard of a late write (`BackendSend`) come from spec §4.1, because
  the backends are open5gs code outside `src/`.

| Run | Expect | What it shows |
|---|---|---|
| `sbi_dispatch` | pass | `TypeOK`, with the queue bound that `server_cb`'s push keeps. Two servers, three streams, one queue slot so that a push fails, failing starts: 65,640 states. |

Mutant: a queue that accepts every push.

`CHECK_DEADLOCK FALSE`: the AF exits after `msaf_sbi_close`, or after
`msaf_sbi_open` fails.

Not covered by a property:
- that a response goes through the backend of the stream's server. The
  cast in `ogs_sbi_server_from_stream` relies on the struct layouts of the
  nghttp2 stream and the MHD session, which the model does not represent. A
  property over `owner[t]` would only restate `ogs_sbi_server_send_response`;
- that a late write after the watchdog is discarded. That is backend code
  outside `src/`, and `BackendSend` models it from the spec;
- what the backends do with `OGS_ERROR` from `server_cb`;
- what stopping a server that never started does.

Both live in open5gs code outside `src/`, so any property about them would
check a model of that code, not this repository.
