# Specifications of yiz-tunnel

TLA+ modules for yiz-tunnel, an HTTP server and reverse proxy whose servers,
upstreams and routes are administered through a management API. Each module
translates a part of `src/src/*.rs`; `PROJECT.json` maps every definition to the
lines it stands for. TLC checks the modules on small instances; TLAPS proves the
theorems in the `*_proofs` modules for all values of the constants.

    tlc -config RuntimeConcurrent.cfg MCHttpRuntime.tla
    tlapm HttpRuntime_proofs.tla

## 1. Inventory of the system

| Component | State | Operations | What makes it correct |
|---|---|---|---|
| `HttpRuntime` (runtime.rs 24-711) | maps `listeners`, `server_listens`, `infos`; a `ListenGroup` per listener; `active_connections` | `apply`, `stop`, `info`; `accept_loop`; `increment_connection`, `decrement_connection` | the status reported agrees with what is served; no socket leaks; counters are exact; draining ends |
| `ProxyState` (runtime.rs 86-227) | `active_upstream_requests`, `retired_upstreams`, `round_robin` | `increment_upstream_request`, the guard's drop, `reconcile_upstreams`, the info reads | a removed upstream gets no new requests, is visible while it drains, and drains |
| `HttpServerStorage` (storage.rs) | `data` under a mutex; the rules file, its temporary file and backup | create, update, set_enabled, delete, add/delete upstream and route; `save_transaction`; `load_or_empty` | the file always loads; it is always a whole former state; accepted calls never make an invalid configuration |
| HTTP/1.1 connections (runtime.rs 794-1025, 1861-2101, 2548-2766) | the request in hand, its unread body, keep-alive | read a request, answer, proxy, relay, log | framing is kept; a body is forwarded whole and to one upstream; every request ends |
| Routing (runtime.rs 2111-2123, 2496-2546, 3010-3048) | the configuration cells, the rotation cursors | `select_server_config`, `select_route`, `select_upstream_candidates` | host and route are honoured; candidates complete and evenly rotated |
| HTTP/2 and HPACK (runtime.rs 1027-1859, 2768-2924, 3253-3305) | streams, dynamic table | frames, CONTINUATION, responses | streams do not mix; the table stays in step with the peer's; what was completed is answered |
| Forwarded requests (runtime.rs 1266-1274, 1897-1985, 2971-2997, 3115-3228) | none | `build_proxy_request`, `proxy_target`, `request_is_websocket` | the head frames the body that follows it; what lies between client and upstream arrives as it was |
| File responses (runtime.rs 2125-2475, 3071-3107, 3363-3369) | the file system's | `serve_file`, `build_file_response`, `parse_byte_range`, `resolve_file_path`, `file_etag` | ranges inside the file; paths inside the directory; a 304 tells the truth |
| Admin API (admin.rs) | none of its own | one handler per call | storage and runtime stay together; what an answer says holds |
| System configuration and start-up (config.rs, main.rs) | `yiz-tunnel.json` | create, read, validate; start, apply, serve, end | what was stored is served again after every restart |
| `LogManager` (logger.rs) | three log files | append a line under a mutex | its errors stop nothing; which entries are written |

How they interact. An admin handler calls the storage (one mutex for change and
save), reads the configuration again, and calls `apply` or `stop` of the runtime,
holding no lock between these. The runtime guards each of its maps by a mutex of
its own that is held for a single read or write. Accept loops spawn a task per
connection, which reads the groups and the configuration cells that `apply`
overwrites. A request works on a clone of its server's configuration. Proxied
requests share `ProxyState` with `apply`.

What is hard: several handlers inside `apply` and `stop` at once; values copied
under one lock and written back under another; a configuration copied before an
upstream is retired and used after; crashes and I/O errors inside a save; peers
that stall or fail in any phase of a request; bodies read in any pieces; an admin client
that leaves, whose handler is dropped at the next await. The list, with lines and
with the properties that watch each, is `hazards` in `PROJECT.json`.

## 2. Modules

| Module | Models | Instance, proofs |
|---|---|---|
| `HttpRuntime` | `apply`, `stop`, accept loops, connection counts | `MCHttpRuntime`, `HttpRuntime_proofs` |
| `ServedAddress` | abstract: where each server is served | property of `HttpRuntime` |
| `UpstreamDrain` | admin handlers, `reconcile_upstreams`, request guards | `MCUpstreamDrain`, `UpstreamDrain_proofs` |
| `ServerConfigs` | configurations as data: what each storage call does and when it refuses | used by the next two |
| `ConfigStorage` | memory, rules file, `save_transaction`, crash, restart | `MCConfigStorage`, `Process_proofs` |
| `Process` | start, admin handlers over storage and runtime, graceful end, crash; extends `ConfigStorage` | `MCProcess`, `Process_proofs` |
| `ConfigStore` | abstract: a value and its last persisted version | property of `ConfigStorage` and `Process` |
| `HttpConnection` | one HTTP/1.1 connection with its proxied requests | `MCHttpConnection`, `HttpConnection_proofs` |
| `ProxyRequest` | the head of a request as it is read and as it is forwarded | used by `HttpConnection`; `HttpConnection_proofs` |
| `RequestRouting` | host, route and upstream selection under `apply` | `MCRequestRouting`, `RequestRouting_proofs` |
| `Hpack` | the decoder and its dynamic table; the client's encoder | used by `Http2Connection` |
| `HpackIntegers` | `hpack_encode_int`, `hpack_decode_int` with their width | used by `HpackStrings`; `HpackStrings_proofs` |
| `Http2Frames` | the length, padding and priority of frames | used by `Http2Connection` |
| `HpackStrings` | HPACK strings and the Huffman code | used by `Http2Connection`; `HpackStrings_proofs` |
| `FileResponse` | paths, conditional requests, ranges: what a file route answers | used by `Http2Connection` |
| `Http2Connection` | one HTTP/2 connection: frames, streams, requests, responses | `MCHttp2Connection`, `Http2Connection_proofs` |
| `NatLemmas` | induction and recursion over naturals and sequences, by least elements; division | used by the proofs of connections, routing and HPACK |

Operators named "Faulty variant" in a comment are not part of a specification:
each is a plausible bug in the operator after it, and the project's mutation runs
put it in that operator's place to show that a property notices.

**HttpRuntime.** The Rust maps are functions with `None` for a missing key. Every
lock acquisition of `apply` and `stop` is an action, and `caller[c].at` is the
next one: `Apply`, `LookupGroup`, `LookupConfig`, `Snapshot`, `UpdateInfo` for the
same address; `Unlisten`, `RemoveConfig`, `DropListener`, `StopSnapshot`,
`StopInfo` for `stop`, which `apply` also runs when the address has changed;
`Starting`, `FindGroup`, `Bind`, `Register`, `InsertConfig`, `RecordListen`,
`Running` for a start. `Abandon` is a handler that hyper drops where it waits, for a
configuration's lock or a bind, because its client has left. A `ListenGroup` is on a
heap (`groups`), since tasks and
callers hold it after it has left the map. `AbortTakesEffect` is separate from
`DropListener` because `JoinHandle::abort` is asynchronous; a socket is open until
then. A bind may fail at any time, as another process may own the address.

**UpstreamDrain.** One server. `stored` and `enabled` are what the storage holds
in memory, `running` what the configuration cell in the listener's group holds.
`starts` identifies the cell: a handler that has looked the cell up and writes to
it after the server was stopped and started writes to nothing. A save may fail
after the change is in memory and a bind may fail (`MayFail`); `failed` is a
history variable that remembers it until a call has brought the runtime up to
date; a handler that is dropped (`Abandon`) counts as failed. Requests copy
`running`, connect, are counted, and drop their guard.

**ConfigStorage.** `save_transaction` is five actions: validate and truncate the
temporary file, fill it, read it back, copy the backup, rename. `SaveFails`
and `Crash` may happen before each. The conversion to JSON is modelled by what
can be told of it: a file is absent, whole, or torn (not parseable). `Restart`
is `load_or_empty`, which refuses a torn or an invalid file.

**Process.** `at` is where `run()` is: creating (`system`, `fill`) and reading the
system configuration, `load`, `logs`, `apply`, `listen`, `serving`, `closing`, or
`down`. `system` is that file: missing, torn by a crash, valid, refused, or accepted
with a host that is no address. The storage is `ConfigStorage` step by step; `call`
is the handler that drives it, which then applies to or stops the runtime, writes
admin.log and answers. One handler runs at a time: two at once are the subject of
`HttpRuntime` and `UpstreamDrain`. The runtime is `served`, the configuration it
serves of each server; a bind may fail, at the start and later. `told` is what the
last answer said of a server, `Unknown` from the moment the next call on it begins.
`Gone` is the end of the process in any way: by an error of the start, by Ctrl-C
with the handlers finished, or killed anywhere.

**HttpConnection.** Bytes are units: a head, a piece of a body, the terminator of
a chunked body. A read takes any number of those that have arrived, so that a body
comes with its head, later, or in parts. Each write to a peer may fail, each read
may time out, or return an error once the client has reset the connection
(`ReadFails`). Time-outs that the code treats as an end (`NoRequest`, `StreamEnds`)
and as an error (`PeekTimesOut`, `BodyStops`, `ResponseFails`) are kept apart. `handled`, `keepAlive`, `closeAfter`, `reached`, `heads`, `outcomes`
and `access` are the variables of the same names in the code or what its peers and
the log have seen.

**ProxyRequest.** A header is a lower-case name and the tokens of its value, a target
its characters. `Chunked`, `LengthRead`, `KeepAlive` and `IsWebsocket` read a head as
the code does, `BuildHeaders` and `ProxyTarget` write the one for the upstream. The
property reads what was written by the same rules: the upstream is one of this kind.

**RequestRouting.** Configurations are cells with a write lock; the scan of
`select_server_config` tries one cell per step. `select_route` and the rotation
are operators. The cursor counts modulo `Wrap`. `firsts`, `quiet` and `rewritten`
are history variables for the properties.

**Http2Connection.** `at` is where the task is: between frames (the `while` of
`handle_h2_connection_group`), inside `read_h2_continuations`, in a phase of
`handle_h2_request`, in `send_h2_response`, or ended. `table`, `streams` and
`header` are `hpack`, `streams` and the block that waits for its CONTINUATION.
The client is a correct one, after RFC 7540 and 7541: it chooses among all
encodings of a field (`Encodings`), splits a block anywhere, interleaves streams,
adds trailers, resets, changes its table size, and may send frames that the server
must refuse (`malformed`), say GOAWAY, or leave. While a request is handled nothing
is read, and so the client's frames are enabled only between: they would wait in
the socket, and nothing in between depends on them. An error anywhere is the `?`
that ends the connection and drops its outcomes (`Fail`).

**Hpack.** A block is a sequence of representations; names and values have a
length (`Octets`) and no content. `Evicted` is one turn of the loop of `evict`.
The encoder (`LongestFitting`) is written from the RFC and shares nothing with the
decoder except the size of an entry, so that `TableInStep` compares two definitions.

**HpackIntegers.** The width of the integer, of a group and the last shift are
constants: the code's 32, 7 and 28 bits are scaled to 8, 3 and 6. As in the code,
the last group reaches beyond the width, and bits shifted out of it are lost. Powers
of two are a recursive function (`TwoTo`), which can be proved about where `^` cannot.

**Http2Frames.** A payload is its octets. The peer's framing (`Framed`, `Possible`) is
written from the RFC. `Http2Connection` has a refused payload as `malformed`.

**HpackStrings.** The Huffman table is kept by length and first code; a run checks
that it is canonical and complete. `HuffmanDecode` goes bit by bit (`ReadBit`); the
encoder (`HuffmanCode`, `HuffmanEncode`) is the client's.

**FileResponse.** A range has two bounds, either omitted; a header that cannot be
parsed has neither. A path is a sequence of characters of which only slash and dot
matter. A file is what `metadata` finds: its kind, size and time, in ticks of which
`Second` make a second; its content is named by the version that wrote it, and is
read after size and time, when a newer version may be there.

## 3. Runs

| Run | Question | Instance | States |
|---|---|---|---|
| `runtime_concurrent` | do counters, groups and listeners survive concurrent calls? | 2 servers, 1 address, 2 callers, 1 connection, 3 calls | 165 000 |
| `runtime_sequential` | does the status tell the truth to one administrator? | 2 servers, 2 addresses, 1 caller, 4 calls, 3 listeners, accept may fail | 1 736 000 |
| `drain` | do removed upstreams drain, visibly and for good? | 2 upstreams, 2 requests, 1 handler, failures | 62 000 |
| `storage` | does what an administrator was told survive failures and crashes? | 1 server, 2 upstreams, 2 routes, 1 target, 1 match rule, 2 failed saves in a row | 2 995 000 |
| `connection` | is every request framed, forwarded, answered and ended? | 3 requests of 10 shapes, 2 upstreams, keepalive_requests 2; heads of up to 3 headers | 360 000 |
| `routing` | does each request go where it should? | 2 servers, 2 configurations, 3 paths, 2 requests, 3 rotations | 1 294 000 |
| `http2` | are streams, header tables and responses kept straight? | 2 streams, window of 2 pieces, table of 2, 1 frame in flight, 2 upstreams; small files, frames, integers, strings | 563 000 |
| `runtime_stop_race`, `runtime_stopping_stuck`, `drain_invisible`, `storage_failed_write`, `connection_second_head` | is the documented promise kept? (no, section 6) | smallest that shows it | |

Why the bounds are enough:

- *Calls (`MaxCalls`)*. Three concurrent calls give a start, a stop and a third call
  that meets both; the known races need two or three. Four sequential calls start,
  move, stop and restart a server. `GroupIds` covers every bind those calls can make
  without one being reused; a bind beyond it can only fail.
- *Upstreams, requests*. An upstream kept and one removed are all that
  `reconcile_upstreams` tells apart; two requests are needed for a count above one.
  `MaxStarts` is one restart, which gives a write to a cell that has been left.
- *Storage*. All rules relate at most two upstreams or two routes. With one target
  and one match rule each pair collides, which is the interesting case. Operations
  never relate two servers, except by `Valid`, which is per server; that an answer for
  one server survives the calls on others is proved for any number of them
  (`AnswersAlwaysHold`). Two failed saves in a row (`MaxErrors`) let a call fail on
  top of a change that was refused.
- *Connection*. The third request meets the limit of two (`KeepaliveRequests`);
  bodies are below, at and above `MaxBodySize`, chunked and not.
- *Heads* (`HeadsForwardedTruly`). Thirteen header lines, each name that the code looks
  at with the values it tells apart, in every list of up to three: a header that comes
  twice, with another between, or after the one it contradicts. Targets have up to
  five characters, enough for a prefix, a rest and two question marks.
- *Routing*. Paths of three lengths with full and prefix routes that overlap; three
  upstreams of one priority let a rotation be uneven; one more and a different
  configuration check priorities and stale cursors. `Wrap` is larger than
  `MaxPicks`: the wrap-around is not reached in this run, see the hazards.
- *HTTP/2*. Two streams interleave; entries of size one and two in a table of two
  are evicted singly and in pairs; a request that repeats a field uses the entry it
  has added; a table of one makes an entry larger than the table. A body of two
  pieces is too large. Responses of none and of two frames end in both ways. One
  frame in flight is enough: the server looks at one frame at a time, and a frame
  has no effect before it is read. The integers are tried at every value and every
  encoding of the scaled width, with each prefix of the code's (4 to 7 bits); strings
  are all of one octet, pairs of one octet of each code length, the first and the last
  characters of three and four octets of UTF-8, and two examples of the RFC. Payloads of
  frames have up to seven octets, two more than a priority, with paddings that fit, that
  leave nothing and that do not fit.
- *Files*. Three versions of a file, times on both sides of a second, sizes that agree
  and differ; `Found` and `Asked` are what the HTTP/2 run finds and asks for.

Deadlock is not an error in the runs whose counters are bounded (the system stops
where the bound is reached) or where it really may end: a connection that has
ended. The storage run checks for deadlock: a process that has ended can be started.

### Properties

The safety properties are stated where they hold: several of them for one
administrator at a time, as the tables say, because the code does not serialise
handlers and the concurrent form is false (section 6). The refinements are the
strongest of them:

- `ImplementsServedAddress`: hiding maps, groups and sockets, a server is served
  at no address or at one, changes only through not being served, and no call
  changes where another server is served.
- `ImplementsConfigStore`: hiding files and phases, there is a current value that
  changes by one accepted operation at a time and a persisted value that is always
  a whole former current one; a crash falls back to it and nothing else. It is checked
  and proved of the whole process.

`AnswersHold` is the promise to a client of the admin API: an answer of success stays
true, on disk and, while the API is served, in what is served, until the next call on
that server, whatever calls on others, crashes and restarts come between. Its two
exceptions are what the code does: a server whose bind failed at a start, and one
whose disabling failed to save, which section 6 describes.

`RequestsForwardedTruly`, `RangesInside`, `FilesServedTruly` and `EncodingsExact` are
about operators alone, evaluated over all their small inputs; they are listed as
invariants of the run whose specification uses the operators. Section 4 proves what
they say for inputs of any size where that makes sense.

### Fairness

- `HttpRuntime`: weak fairness of the steps of a call that has begun, of a
  connection's task and of an abort. Tokio drives every task that can proceed; no
  mutex is held over an await. No fairness is given to making calls or opening
  connections. That a connection ends (`Finish`) is fair: its reads and writes are
  bounded by time-outs (`RequestConcluded` below says so for all but relayed
  streams).
- `UpstreamDrain`: the same for handlers and requests. The fairness of `Drop` is an
  assumption about peers: a websocket or an endless response is not bounded by the
  code, and `RetiredDrains` says that draining ends *if requests do*.
- `HttpConnection`: weak fairness of the task until it relays. Every wait in those
  steps is under `timeout(...)`, so some step, be it the time-out, is taken. Steps
  of the client and the relaying of streams have no fairness.

- `Http2Connection`: weak fairness of the connection's task. Upstreams are under
  time-outs as above. Writes to the client are not, so that the client reads is an
  assumption. No fairness for the client: it may stop anywhere, and
  `RequestConcluded` is about what it has completed.

The other specifications have no fairness and no liveness property.

## 4. Proofs

`HttpRuntime_proofs`, for any servers, addresses, callers, connections, listeners
and number of calls. The inductive invariant `IInv` is the type invariant, what each
program counter implies about the locals that the next step dereferences (a caller
at `register` has a group, one at `drop_listener` an address, a counted connection
a server), `GroupsWellFormed` and `CounterExact`. The types alone are not
inductive: a step that reads `groups[caller[c].group]` needs the group to be there.
`Abandon` changes only the caller, so it keeps all of it.
`GroupsWellFormed` needs that `Without`, the model of `Vec::retain`, keeps the order
and the distinctness of a sequence, which are lemmas of their own. `CounterExact`
needs that each step adds or removes exactly one connection from `Counted`.

- `TypeCorrect`, `CounterIsExact`, `GroupsStayWellFormed`.

`ListenersOwnSockets` rests on `SocketInv`, for any number of callers. A registered
listener has a live accept loop at its own address (`RegisteredAreLive`), and a live
one is registered or held by the call that has just bound it (`LiveAreReachable`).
The second is not inductive without three more facts: two open sockets never share
an address (`OneSocketPerAddr`; `Bind` refuses that, and a socket is open until its
abort has taken effect), what a call holds is fresh (`HeldAreFresh`), and only one
call holds it (`OneHolder`). `AcceptMayFail = FALSE` is a hypothesis: a failing
`accept` ends the loop of a registered listener, which section 6 lists.

- `ListenersOwnTheirSockets`.

The status properties are about one caller (`Callers = {c}`; two refute them, which
is the first finding). `AdminInv(c)`: a registered listener was bound at its address
and a group with servers is registered (`RegisteredWasBound`, `UsedIsRegistered`); a
server is routed exactly where `server_listens` has it, but for the two steps that
move it (`RoutedWhereRecorded`); the status of a server that no call is for says
"running" exactly if it is recorded (`StatusIsRecord`); and what the call knows at
each step of the maps that it read under locks it has since released (`CallKnows`).
The refinement follows: the addresses that route to a server are what
`server_listens` records, and each step is one of `ServedAddress` or a stutter.

- `RunningIsRegistered`, `StoppedIsNotServed`, `RuntimeImplementsServedAddress`.

`UpstreamDrain_proofs`. `CountInv` (types, a request past its connect has an
upstream, counts exact) for any number of handlers and requests. For one handler
(`OneHandler`, the hypothesis of the last three theorems; two refute them),
`HandlerInv`: what the handler knows at each step about the state it is about to
change (`HandlerKnows`: at `write`, for example, that its copies of the stored and
the running configuration are still current and that its cell is the one being
served), that ids are never reused, and that retired upstreams are apart from the
stored ones always and from the running ones outside the window between
reconciliation and write, unless a handler has failed or was dropped in it.

- `TypeCorrect`, `CountsAreExact`, `RuntimeFollows`, `RetiredLeftAlone`, `RetiredStays`.

`Process_proofs`, first of `ConfigStorage`, for any servers, ids, groups, names and
match rules. Each
operation of `ServerConfigs` preserves validity and distinct targets (one lemma
each). The invariant adds that the temporary file equals the memory from its
filling until the rename, and that what is renamed was validated. From it, the
refinement: every action is a `Change`, a `Persist`, a `Lose` or a stutter.

- `StorageTypes`, `FileAlwaysLoads`, `ConfigsAreSound`, `StorageImplementsStore`.

Then of `Process`, for any bound of errors too. `ProcessUsesStorage` shows that each step of the process is a step of
`ConfigStorage` or leaves it alone, which carries its theorems over
(`RulesAlwaysLoad`, `ProcessImplementsStore`). `AnswersAlwaysHold` needs the invariant
`PInv`: where the handler is and where the save is agree (`CallInv`), as do `at` and
the phase of the storage (`PlaceInv`); what a client was told of a server is its entry
on disk and in memory (`ToldInv`); of the enabled ones it is what is served, but for
those that wait for the start or could not be bound (`ServedInv`), the others are not
served, but by a call about to stop them or after its error (`StoppedInv`); and before
the rules are loaded nothing is served (`DownInv`). `AnswersHold` alone is not
inductive, since it says nothing of the memory that the next rename writes for all
servers at once. `ProcessTypes` adds `SideInv`, the types of what is beside the
storage.

- `ProcessUsesStorage`, `RulesAlwaysLoad`, `ProcessImplementsStore`,
  `AnswersAlwaysHold`, `ProcessTypes`.

`HttpConnection_proofs`, for any shapes and number of requests, body limit,
keep-alive limit and upstreams, and for pieces of any size. `HeadPosition` is a
recursive function over positions of any number; `PositionsExist` and `HeadPositions`
say that it exists and grows. `CInv` is the types, where the current request lies in
the stream of units and how much of its body has been taken (`PlaceInv`), that at most
one upstream has got the request and all of its body once a response is awaited
(`UpstreamInv`), and that every head sent so far promised keep-alive while the loop
may still read (`KeepInv`).

- `ConnectionTypes`, `RequestsForwardedOnce`, `CloseIsFinal`.

Two more hold of clients that wait for each answer (`Pipelining = FALSE`; with
pipelining the code drops the bytes behind a body, section 6). `FrontInv` bounds what
such a client has sent by the head after the next, so that nothing of a later request
can be in the buffer that is dropped. `LogInv` relates the outcomes to the heads: one
for each request handled so far, in order, with the status of the last head that was
sent for it; where the accept task has written the access log (`at = "logged"`), it is
the outcomes. A connection that fails goes to "ended" instead and has logged nothing.

- `FramesAreKept`, `CleanEndsAreLogged`.

Last, heads of any number of lines and targets of any length. `NamedIn`, the lines of a
head with given names in their order, is a fold: the lemmas give what it keeps of one
line more (`NamedInAppend`) and of lists in parts (`NamedInConcat`, by
`AppendInduction`). With them the list that is forwarded is read name by name, through
the steps that build it (`HostedNamed`, `BuiltNamed`), and each name has the lines that
the client sent or those the proxy sets (`ForwardedHead`). A target is compared
character by character in front of the first question mark and behind it.

- `HeadsAreForwarded`, `TargetsAreKept`, and `RequestsAreForwarded`, the instance that
  the run checks.

`RequestRouting_proofs`, for any servers, configurations, paths, hosts and requests.
Lemmas first: `InOrder` enumerates a finite set of positions, `Rotated` permutes, and
`SelectRoute` returns the best match or `None`. `RequestInv` says of the locals of
each request what earlier steps leave to later ones: no cell tried so far has the host
unless an `apply` has interfered (`HostInv`), the candidates are the members of the
group that are no longer left, sorted, and before all that are left (`SelectInv`), and
the copy is current while nothing was overwritten (`CopyInv`). For the rotation,
`CountInv` bounds the cursors by the picks and `EvenInv` gives each class a base and
its first `cursor % size` members one more. `RotationStaysEven` assumes
`MaxPicks < Wrap`: at a wrap the cursor starts over, which takes 2^64 picks of the
code. That routes have distinct matches and upstreams distinct ids is the assumption
on `Configurations`: `validate_loaded_file` and the storage's calls see to it, and
`ConfigsAreSound` proves it of them.

- `RoutingTypes`, `TheBestRoute`, `AllCandidates`, `HostsAreHonoured`,
  `RotationStaysEven`.

`Http2Connection_proofs`, for any streams, fields, static table, sizes of tables,
bodies and files, and for any number of frames on their way. In the order of the
module:

- *HPACK.* The sizes of fields add up (`Sum`); `Evict` keeps the longest prefix that
  fits (`IsLongest`), so a table always `Fits`. Decoding a block is decoding the first
  part and then the rest with the table the first part leaves, and a block that the
  encoder writes decodes to its fields and leaves the decoder's table like the
  encoder's (`Says`, `Matches`).
- *Tables.* `TInv` is the types. `StepInv`: decoding all that is outstanding, which is
  the header block that waits, the pieces on the wire (`Flow`) and the rest that the
  client still keeps, succeeds and ends with the client's table. `TableInStep` alone
  speaks only of moments when nothing is outstanding and is not inductive.
- *Ranges.* `FileInv` keeps the range of a partial response together with the size of
  its file until the response is sent.
- *Responses.* `SendingInv`: what the DATA frames have carried and what remains is the
  length that was announced.
- *Requests.* `ReadOn` is what the server will have read after one more frame if it
  handles nothing in between, and a run of it goes over the whole wire. `FutureInv`:
  the run from the server's state meets complete requests only as their clients have
  sent them and ends where the client is (`InTouch`), each stream being what was sent
  of it but for a header block that is not complete. A step of the client makes the
  run longer, a step of the server takes its first step off, and the answer to a
  request changes only where it begins. `EndInv` and `ReachedInv` add what is noted at
  the end, and that the one upstream that a request is sent to is the one connected.
- *Files.* These do not depend on the state. A path that is not refused has names
  only, so each of its components leads one deeper, whatever an alias has taken off;
  a version between two of the same second is of that second. `FilesServedTruly`, which
  the run asks of paths up to 5 and three versions, is an instance.
- *Frames.* `FramesAreRead` has three parts. Of any octets that are carried, with any
  padding whose length an octet can say, what is read is what was framed; of payloads of
  any octets and any length `HeadersPayload` and `DataPayload` refuse exactly those that
  cannot have been framed; each length of 24 bits is read as it was written. `FramesTold`,
  which the run asks of short frames and of lengths at the borders of their octets, is an
  instance.

Theorems:

- `Http2Types`, `TablesStayInStep`, `RangesStayInside`, `ResponsesAreWellFormed`,
  `RequestsStayIntact`, `CompletedGetAnswered`, `PathsAlwaysStayInside`,
  `CachesAlwaysStayTrue`, `FilesAreServedTruly`, `FramesAreRead`, `EncodingsAreExact`.

`HpackStrings_proofs`, for machine integers and groups of any width
(`WidthAssumption`) and octets of any number. In the order of the module:

- *Integers.* The powers of two, the groups of a value and the sums of the decoder are
  recursive functions; each exists and obeys its equation (`TwoToEquation`,
  `GroupsEquation`, `SumsExist`). What is left of a value after a group and the sum of
  the groups so far make up the value (`WrittenMeansIt`), and no sum is cut off where
  the value fits the width (`NothingCut`).
- *The table.* Row by row, the first code of a length is where the codes of the length
  before stop, as many bits further (`RowsFollow`); every octet has a code, in its order
  (`OctetsHaveCodes`, `RowsAscend`).
- *The decoder.* It is a run of `ReadBit` over the bits (`DecodedByStates`). The first
  bits of a code are beyond all shorter codes, and ones beyond those of any length up to
  30, so neither is a code (`PrefixesAreNoCodes`, `OnesAreRead`), and a code
  is read with its last bit as its octet (`CodeIsRead`). Over what the encoder wrote,
  by induction over its codes, the run has read the octets where their codes end
  (`CodesAreRead`, `EncodedIsRead`).
- *Padding.* With ones alone behind the codes the decoder ends as `Padding` says of
  their number (`OnesAreLeft`): up to seven are padding, eight or more are not. Behind a
  zero a code begun is smaller than ones alone, or has become one octet too many, and
  remains so for whatever bits follow (`StaysUnfinished`).
- *Strings.* A length below 127 is one octet, and what lies behind it is decoded
  (`SaidIsRead`). The two examples of the RFC are read bit by bit (`NextLetter`).

Theorems:

- `IntegersReadAsMeant`, `IntegersReadAsWritten`, `HuffmanReadsBack`,
  `ShortStringsReadBack`, and `EncodingsAreExact` in `Http2Connection_proofs`, which
  states the invariant of the run from these, `TableIsCanonical`, `PaddingIsRefused`,
  `StringsAreReadAsWritten` and `FramesAreRead`.

`NatLemmas` replaces induction. The library's induction theorems take the predicate
as an operator, which the provers here cannot instantiate; a property of numbers is
therefore stated as a *set* of numbers, and what would be the induction step excludes
a least element outside it (`LeastElement`, `IntervalInduction`, and `AppendInduction`
over sequences). `Iteration` gives the existence of a function defined by steps, and
with it a value to the recursive functions of the models.

The assumptions are the named `ASSUME`s of the modules (finite sets of connections
and requests, `None` apart from the values, bounds that are numbers); TLC evaluates
them in every run. Hypotheses beyond them are those named above: `OneHandler`,
`Callers = {c}`, `AcceptMayFail = FALSE`, `Pipelining = FALSE` and `MaxPicks < Wrap`.

Only model-checked:

- everything under fairness (`IdleListenerReleased`, `RetiredDrains`,
  `RequestConcluded`), which is beyond the prover;
- strings of HPACK of 127 octets or more, whose length takes several octets:
  `IntegersReadAsWritten` and `HuffmanReadsBack` are about their parts.

## 5. Not modelled, and why

- HTTP/2: stream numbers of more than 31 bits, header names that the server filters. Window
  updates are not sent by the server and not modelled; the client's window is spent
  and never grows.
- Files: MIME types, the formatting of dates, symbolic links (the code follows them).
- The text of log lines and responses. Log lines are appended one at a time under a
  mutex, and no code reads them.
- Arguments of the command line and the joining of configured paths: no state.
- Reads of the admin API (lists, info, status): they change nothing.
- Poisoned locks: a mutex is poisoned by a panic while it is held, and nothing that
  runs under these locks panics.
- Syntax checks of requests (`validate_listen`, `validate_conf` and the like): they
  refuse before anything changes.
- The backup file: it is written and never read. Durability of writes that have
  returned (there is no fsync): assumed.
- `handle_connection` and `handle_h2_connection`, the one-server variants, are
  compiled for tests only.

## 6. Where the code and its documents disagree

Each has a run that exhibits it; `findings` in `PROJECT.json` quotes the documents.

1. `StoppedMeansNotServed` (`runtime_stop_race`): two handlers for one server, one
   starting and one stopping, leave it "stopped" and served.
2. `StoppingEnds` (`runtime_stopping_stuck`): a connection ends between the read and
   the write of `stop`; the server stays "stopping".
3. `RemovedActiveIsDeading` (`drain_invisible`): a request that is still connecting
   when its upstream is removed, or that began before the server was disabled, is
   served by an upstream that nothing lists.
4. `MemoryIsPersisted` (`storage_failed_write`): a call that failed to save has
   changed what the API shows and what the next save writes.
5. `OneResponseHead` (`connection_second_head`): an upstream that fails in the middle
   of its response makes the server send a second head.

Met while modelling, and stated here because a property had to be restricted:

- With two admin handlers, `RuntimeFollowsStorage`, `RetiredGetsNoNewRequests` and
  `RunningMeansRegistered` do not hold: the later `apply` may carry the older
  configuration (set `Admins` or `Callers` to two values to see it).
- A handler that is dropped while it waits for the write lock, after it has reconciled
  the upstreams, leaves one shown as "deading" that still gets new requests, until the
  next call applies the configuration (runtime.rs 314-320). Hence `~failed` in
  `RetiredGetsNoNewRequests` and `u \notin running` in `RetiredDrains`. One dropped
  during a bind leaves the status "starting" (354).
- A call to disable a server whose save fails leaves it running; later answers show it
  disabled, as memory has it, and if the save of a delete that follows fails too, no
  call can reach it any more (`unstopped` in `AnswersHold`).
- `reload` after a failed save answers success for a configuration that is not on disk;
  `AnswersHold` therefore takes the answer of `reload` to say nothing.
- The system configuration is created in place (config.rs 104): a crash during the
  first start leaves a file that later starts refuse until it is edited. The admin
  address is parsed only when the servers already run (main.rs 49-53).
- The graceful end covers the admin API (main.rs 72): connections of the servers end
  with the process.
- Of several `X-Forwarded-For` lines only the last is kept and appended to
  (runtime.rs 3156); src/plans/PROJECT_CONTINUATION.md:230 speaks of the existing one.
- `If-Modified-Since` with the server's own `Last-Modified` gets 200 and not 304 when
  the file's time has a fraction of a second (2389), and it is honoured also when
  `If-None-Match` is there and does not match. Two versions of equal size within a
  second have the same tag.
- An accept error ends the accept loop while its servers are reported running
  (`AcceptMayFail` refutes `ListenersOwnSockets`).
- With `Pipelining = TRUE`, `FramesKept` does not hold: bytes behind a body are
  dropped with the buffer (runtime.rs 1963-1965). The documents promise keep-alive
  and do not mention pipelining.
- A local response says `keep-alive` although the connection is closed after it when
  the body was not read (runtime.rs 892-897); a client that trusts it sees a reset.
- A failure to send the request upstream closes the connection with no response
  (2646-2652), and a read time-out in the middle of a response ends it as if it were
  complete (2760).
- The access entries of a connection are lost when a later request on it ends in an
  error (652-674), and a 413 is never logged.
- HTTP/2 trailers replace the fields of their request (runtime.rs 1191), its method
  and path too. `RequestsIntact` leaves the fields of such requests out.
- After a GOAWAY of the client the loop ends at once (1233): streams that it had
  opened and not ended are not answered. `CompletedAreAnswered` is about the others.
- An error that is not a time-out while a request is sent to its upstream ends the
  whole HTTP/2 connection with the outcomes of its earlier requests (1846-1858).
- For HTTP/2 clients the framing of a chunked upstream response is not decoded:
  `transfer-encoding` is dropped and the body passed on with its chunk sizes
  (2900-2924). A read time-out ends such a response as if it were complete.
- HPACK integers of more than 32 bits lose bits and are not refused (1581).
- A Range header that cannot be parsed is answered 416 (2426), where RFC 9110 lets a
  server ignore it.

## 7. Plan

Done: the modules, runs and proofs above. Every safety property that a run checks is
a theorem. What is left:

1. *`Process`*: two admin handlers at once, over the interleavings that
   `UpstreamDrain` and `HttpRuntime` have apart.
2. *Strings of any length*: that `DecodeInt` does not look behind the octets of its
   integer, which would join the theorems about integers and about the code.
