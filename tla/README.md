# TLA+ models of go-little-project

The repository holds four small Go programs that rebuild well-known libraries:
`geeRpc` (an RPC library in the manner of `net/rpc`, with a service registry),
`geeCache` (a distributed cache in the manner of groupcache), `gee` (a web
framework) and `geeGorm` (an ORM). This directory models the parts whose
correctness depends on the order in which goroutines, machines and callers act.

## 1. The system

### geeRpc

| Component | State | Operations | Talks to |
|---|---|---|---|
| Client (`client.go`) | `seq`, `pending`, `closing`, `shutdown`, the shared `header`, locks `sending` and `mu`; per call `Seq`, `Error`, `Reply`, `Done` | `Call`, `Go`, `send`, `registerCall`, `removeCall`, `receive`, `terminateCalls`, `Close` | the codec, and through it one server connection |
| Server, one connection (`server.go`) | lock `sending`, WaitGroup `wg`; per request the header, `called`, `sent` | `ServeConn`, `ServeCodec`, `readRequest`, `sendResponse`, `handleRequest` | the codec; registered services |
| Server, registration and accepting (`server.go`, `service.go`) | `serviceMap`, the method tables, call counters | `Register`, `FindService`, `Accept`, `ServeHTTP` | reflection, listeners |
| Codec (`codec/`) | a buffered writer, two gob streams | `ReadHeader`, `ReadBody`, `Write`, `Close` | the connection |
| Dialling (`client.go`) | - | `DialTCP`, `DialHTTP`, `XDial`, `dialTimeOut` | a new connection |
| XClient (`client.go`) | cached clients per address | `dial`, `Call`, `Broadcast`, `Close` | Client, discovery |
| Discovery (`xclient/`) | list of servers, round-robin index, time of last update | `Refresh`, `Update`, `Get`, `GetAll` | the registry over HTTP |
| Registry (`registry/`) | server -> start of its lease | `putServer`, `aliveServers`, `ServeHTTP`, `HeartBeat` | servers and clients over HTTP |

What is hard here: a call can be ended by five parties (its answer, a repeated
answer, its failed write, its expired context, the end of the connection), two
locks and a bounded channel are taken in different orders, the server runs two
goroutines per request that share a header and two channels of capacity one,
and connections end in several ways. Correct means: every call is signalled
exactly once and with its own answer; nobody waits for a signal that cannot
come; responses are not interleaved; the server outlives every request before
it closes; failures are reported.

### geeCache

| Component | State | Operations | Talks to |
|---|---|---|---|
| LRU (`lru/lru.go`, behind `cache.go`) | list, map, `nBytes` | `Get`, `Add`, `removeOldest` | - |
| Group (`geecache.go`) | main cache, peers, getter | `Get`, `load`, `getLocally`, `populateCache`, `getFromPeer` | singleflight, LRU, pool |
| singleflight | lock `mu`, map of calls in flight | `Do` | Group |
| HTTP pool (`http.go`) | ring, getter per peer | `Set`, `PickPeer`, `ServeHTTP`, `httpGetter.Get` | other nodes |
| Consistent hashing | sorted hashes, hash -> node | `Add`, `Get` | the pool |

What is hard here: one request crosses two machines, each with its own flights;
machines start late and disappear; errors change shape on the way from one
machine to another. Correct means: one load per key and node at a time, no
flight left behind, the right answer or an error for whoever asked, only real
keys in a cache, an LRU list, map and byte count that never disagree, servers that
agree on the owner of a key although each builds its own ring.

### gee and geeGorm

`gee` keeps a routing tree per HTTP method, groups with middlewares, and a
context that steps through a chain of handlers with a recovery. Groups share
slices, handlers share an index with the loops that call them, and a panic ends
some of these loops; in the tree a search may have to come back, and a wildcard can
be mistaken for another part. Correct means: a group has its middlewares, a request
runs each of its handlers once, a panic is recovered, the route that serves a path
is the one its patterns ask for, whatever the order of registration.
`geeGorm` builds SQL from clauses, maps structs to tables and wraps
transactions; it cannot start (section 6).

## 2. Modules

| Module | Models | Lines it stands for |
|---|---|---|
| `RpcClient` | the Client | `geeRpc/client.go` 31-46, 163-249, 305-316, 381-451 |
| `RpcCalls` | what a program that uses the Client can rely on; `RpcClient` implements it | the API of `geeRpc/client.go` |
| `RpcServer` | one connection of the Server | `geeRpc/server.go` 122-270, `codec/gob.go` |
| `RpcAccept` | the connections of a server, one after the other | `geeRpc/server.go` 51-65, 109-151 |
| `XClient` | XClient and dialling | `geeRpc/client.go` 47-157, 251-378, `discovery.go` (`Get`) |
| `Lru` | the LRU cache under `cache.go`'s mutex | `geeCache/lru/lru.go` |
| `CacheGroup` | Group, singleflight, pool on several nodes | `geecache.go`, `singleflight.go`, `http.go`, `cache.go`, `main.go` |
| `HashRing` | the ring of every server's HTTP pool | `consistenthash/consistenthash.go`, `http.go` 36-65 |
| `Registry` | leases and heartbeats | `registry/registry.go` |
| `Discovery` | the cached list, composed with `Registry` | `xclient/discovery_gee.go`, `discovery.go` |
| `GeeChain` | groups, middlewares and the chain of a request | `gee/context/mygee/`: `gee.go` 31-72, 113-141, `context.go` 39-49, `recovery.go`, `router.go` 84-99 |
| `Router` | the routing trees: registration and search | `gee/context/mygee/`: `router.go`, `tire.go` |
| `RpcClientProofs`, `RpcServerProofs`, `XClientProofs`, `LruProofs`, `CacheGroupProofs`, `HashRingProofs`, `DiscoveryProofs`, `GeeProofs` | theorems | - |
| `MC*` | constants for TLC | - |

Operators marked `MUTANT` in a comment are not part of a specification. Each is
a wrong variant of the definition below it; substituting it breaks a property,
which shows that the property depends on that line of the code.

### RpcClient

Variables are the fields of `Client` and `Call` under the names of the source;
`pc`, `ret` belong to the goroutines in `Call` or `Go`; `rcv`, `rcvCall`,
`rcvErr`, `rcvHdr`, `todo` are the locals of `receive` and the loop position of
`terminateCalls`. A critical section of `mu` is one step, because nothing in it
blocks, except in `terminateCalls`: there `mu` is held over the loop (`muHeld`)
since each `call.done()` may block. `sending` is held over several steps.

| Actions | Code |
|---|---|
| `Begin`, `LockSending`, `RegisterCall` / `RegisterRefused`, `Write` / `WriteFails`, `RemoveUnsent`, `SendDone` | `Go`, `send`, `registerCall`, `removeCall` after a failed write |
| `CallReturns`, `CtxDone`, `CancelCall` | the `select` of `Call` |
| `Collect` | the user's receive from the shared Done channel |
| `Close` | `Close` |
| `ReadHeader` / `ReadHeaderFails`, `ReadBody` / `ReadBodyFails`, `Deliver` | `receive` |
| `TerminateLockSending`, `TerminateLockMu`, `TerminateCall`, `TerminateUnlock` | `terminateCalls` |
| `ConnLost` | environment |

The server is reduced to what the client can see of it: every request that was
written while the connection was up can be answered up to `MaxAnswers` times, in
any order, with or without an error. More than one answer is what this
repository's server does (`RpcServer`).

### RpcCalls

The abstract client: a call is issued, ends at most once, and its outcome (an
answer, an error, or nothing) is final; the program gets this outcome, or, if the
call has a context, an expiry. Two things of the code show here as they are: a call
may end with nothing, neither an error nor a reply, but only when the connection is
gone (see `client_lost`); and a call with a context may be given up before or after
it ends. There are no locks, numbers, header or goroutines.

`Abstract == INSTANCE RpcCalls WITH ...` in `RpcClient` is the refinement mapping. A
call is over when its Done channel got it (`signals`); `Outcome` reads from its
`Error` and `Reply` what it ended with, `AbstractResult` what `Call` returned or the
user collected, and the connection is up while `conn` is. That every step of the
client is a step of `RpcCalls` or a stutter is checked (`ImplementsRpcCalls`) and
proved: a late duplicate, for example, may still write the `Reply` of a call, but
never so that the outcome changes.

### RpcServer

`loop` is the program counter of `ServeConn`/`ServeCodec`; `handler[r]` and
`method[r]` those of `handleRequest` and of the goroutine it starts. Lock and
write of `sendResponse` are separate steps, so that overlapping writes would be
visible. `skewed` stands for the position of the gob decoder: after a refused
request its unread body comes next, and after a read-ahead of the JSON decoder
the type descriptions are missing. A method's early answer (`SendReply` runs
before or after `MethodReturns`) carries the body `"early"` or `"final"`.

The write of the string `req.h.Error` races with its encoding. The model takes
the race at the granularity of the whole string (old or new value); a torn
string is not modelled. A method that panics ends the program (service.go:102), which
is left out, and so are a body that happens to decode as a header and a read-ahead
that takes a part of a request only.

Three things are modelled as the code has them and not as one might read it.
A handler consumes its own token from `sent` and returns before the goroutine of a
failed method has answered, so that `ServeConn` closes the connection under that
goroutine although a comment (server.go:174) says it waits; `ClosesAfterHandlers`
says that this is so for failed and late methods only. The goroutine of a failed
method may never end: two tokens go into `sent` (capacity 1, server.go:241) and one
at most is taken, although the comment at server.go:239 gives the buffers as the
reason why it can; if its token is first, `handleRequest` blocks for ever instead
(`StuckAtSent`), and the connection with it, which `ConnectionEnds` excepts and nothing
else. And a method's early answer is sent before its `Reply` is final.

`answers` are the responses handed to `cc.Write`. On a connection that is already closed
the peer does not get them, so that `AnswerBound` and `FailureReported` are about what
the server does, not about what arrives.

### RpcAccept

`Accept` is the loop of the same name: `Accept` takes the next connection of the
listener, `PeerEnds` and `OptionRefused` are the two ways `ServeConn` returns.
`ServeHTTP` answers a `CONNECT` with 405. A listener that fails makes the loop go
round and changes nothing. `RpcServer` is what happens inside of one `ServeConn`.

### XClient

`x.clients` is a map from addresses to Clients, named after the goroutine that
dialled them; `pc` of a goroutine runs through `call` -> `dial` ->
`dialTimeOut` -> `Client.Call`; a goroutine of `BroadCast` has the name of the
address it calls. `f`, `conn`, `status` describe the goroutine, the connection
and the Client of a dial. Nobody but `Close` takes `x.mu`, so that every access
to the map is a step of its own and `MapThrow` is the throw of the Go runtime
that may come instead. `RpcClient` is abstracted to: a call is refused, or sent
and then returns nil or an error.

The model follows the code in three places where it ends badly: the first call
to an address panics on the nil Client `dial` returns (client.go:86), in
`BroadCast` this ends the program, and so does its first success if the caller
wants a reply (client.go:149). This last is not what the comment at client.go:114
promises, that the result of a success is returned; `FirstErrorReported` is only about
a `BroadCast` that returns, and about the half of the promise that concerns errors. A
dial over HTTP never succeeds, because the server waits for the method `CONNECTED` and
answers `CONNECT` with 405 (server.go:52). `ConnectTimeOut = 0` only removes behaviours and has no case of
its own.

### Lru

One action per outcome of `Get` and `Add`. `Place` is the element the map has for a
key, `MoveToFront` what `container/list` does. `uses`, a history variable, lists the
keys by last use and gives the order the list is compared with; `Bytes` is the sum
`nBytes` is compared with. `maxBytes` is a variable that never changes, one of the
constant `Limits`. A limit of 0 has no case of its own in the code: an `Add` evicts what
it added, as with any entry that is larger than the limit, although lru_test.go:14-16
expects to find it. `AddAtLimit` states what the code does, for this limit too: an `Add`
that ends over the limit gains no entry, and keeps the entry it was called for unless
this alone is over the limit.

### CacheGroup

A request `t` that a user sends to a node is the goroutine `<<t, 0>>`; if this node
asks the owner of the key, that serves it in `<<t, 1>>`. Every critical
section of `singleflight.Group.mu` and of the cache is one step. The LRU is
abstracted to the set of its keys, from which an insertion may evict any one:
`Lru` shows that an `Add` evicts at most one. Keys are not empty (`Get` refuses the
empty one at once).

The node asked does not always get the same key. `httpGetter.Get` escapes it with
`QueryEscape` and puts it into a path (http.go:113), and `ServeHTTP` takes it from
`URL.Path` (http.go:78), where `+` stays `+`: "a b" arrives as "a+b". The constant
`Escaped` is this change, of which only is assumed that a second time changes
nothing. The node asked need not own "a+b"; it then asks a third node, in `<<t, 2>>`,
and can panic there. So `RightAnswer` promises the source's answer on the owner
only; another node may give the answer for the escaped key, with an error as an empty
value. `GetReturns` excepts a panic anywhere on the way. When a node panicked on a
connection that was in use before, `net/http` sends the GET once more
(`PeerAskedAgain`), which then waits for the call the panic left behind.

`singleflight.go:28` locks a mutex that line 18 of the same function already
holds. With the constant `Relock = TRUE` the model does this, and no miss ever
returns (run `cache_relock`). With `Relock = FALSE` that one `Lock` is left out.
Its purpose is to check everything that comes after that line, which the code cannot
reach today. Runs depart from the code in one other place, the `reads` of `Registry`,
for the same reason.

### HashRing

One ring per pool, since every server builds its own. `Set` makes a new `Map` and
adds a list of servers to it; `Add` adds more to a ring in use. The hash function is
a variable that never changes: `Init` chooses any function, so that replicas may
coincide, as they may with crc32; of two servers with one hash the one added last
owns it, and since `main.go` passes the servers in the order in which Go walks a map,
two servers may then disagree. `keys` is a sorted slice in the code and a set here,
and `sort.Search` is modelled by what it is documented to return. `added` is a
history variable. Servers in one call, and in one ring, are different, as they are
in `main.go`.

`CacheGroup` takes the owner of a key as a constant, that is, a ring set once on
every node and no collision; `SameServersSameOwner` is what justifies this.

### Registry and Discovery

`Registry` has the map of leases, the goroutine `HeartBeat` of every server (the
states of `beat`) and the POSTs on their way. The death of a server is
`HeartbeatFails` if it comes during a heartbeat and `ServerDies` otherwise; the
registry may die and come back empty, which makes the heartbeats of that time
fail and ends their loops for ever. `Discovery` adds the callers: `BeginRefresh`
takes `d.mu` and sends the GET, `ServeGet` is `aliveServers` on the registry,
`RefreshDone` or `RefreshFails` release the lock, and the actions on `"pick"` are
the second critical section. Other critical sections are one step.

`registry.go:75` reads the address of a heartbeat from the headers of its own
answer, so that no server is ever registered. `reads = "answer"` is this code;
`reads = "request"` changes that one word, so that leases exist at all. `Init`
chooses, every run and theorem covers both, and `TimesInv` says that with
`"answer"` nothing is ever listed. What a lease is worth is therefore stated of the
heartbeats themselves: `heard` and `known` record every one that reaches the registry,
and `HeartbeatsInTime` says that the next comes before a lease would have ended,
with both values of `reads`. That it would then be listed is a part of `LeaseInv`, for
`"request"` alone. `DeadServersLeave` has something to say only for `"request"`, too.

Time is a counter. A timer that is due fires before time goes on, and an exchange
with the registry ends within `MaxDelay`, with an answer or an error. An HTTP
client without a time limit, as here, does not guarantee this; the bounds that
`HeartbeatsInTime` and `DeadServersLeave` give are relative to it. A POST whose
sender has died may arrive at any time.

`heard`, `known`, `served`, `listed`, `asked` and `checked` are history variables.

### GeeChain

A slice is an array and a length; `arrays` holds the arrays that groups may
share. `stack` are the handlers that wait in `c.Next()`, innermost last, and all
their loops count the one `index`. `Unwind` takes a panic through the stack to
the innermost Recovery. What a handler does is left open: call `Next` or not,
write a status or not, panic before or after. One request is enough, since
requests share nothing but the groups, which they only read. `Grown` is the capacity
`append` chooses, rounded up to a size class. `EveryHandlerOnce` counts the places of
the chain: a middleware that a group inherited from a parent which matches the path
as well is in the chain twice (gee.go:66, 130-133), and runs twice.

### Router

A node is the sequence of parts on the way to it, so that `node.part` and its
parent need no variables; `nodes` lists them per method in the order they were made,
of which the order of every list of children is a part. `AddRoute` is `addRoute` with
the `insert` it calls: `Child` takes the first child that matches, so that a pattern
whose part meets a wildcard that came first (tire.go:15) goes into the wildcard's
node; `Way` is the recursion of `insert`, `Target` the node where it ends. `Found` is
`node.search` with its way back, from every node, `Search` its call in `getRoute`,
`ParamsOf` what `getRoute` binds, `Handle` the handler of `router.handle`. The
handlers are in `handlerOf`, each under the number of its registration.

Strings are taken apart by `parsePatterns` before anything else looks at them, hence
the sequences of parts. It takes apart the path of a request as well (router.go:57), and
a part of a path may look like a wildcard: `/*a/b` is cut to `/*a`, which `/:x` serves.
The parameters are kept under the name of a wildcard without its prefix (`NameOf`;
router.go:72 and 76), so that of `:f` and `*f` in one pattern the later one remains. A
route of a group is registered without the group's prefix (gee.go:75), so that groups do
not appear.

## 3. Runs

| Run | Question | Result |
|---|---|---|
| `client` | `DoneOnce`, `NoCrossedReplies`, `NoOrphan`, `LateWriteOnlyAfterTimeout`, the inductive invariant `StrongInv`; `CallsReturn`, `LostConnectionDrains` under fairness; `ImplementsRpcCalls` | hold |
| `client_lost` | `NilErrorMeansReply`: a nil error comes with a reply | violated: the `err` of `ReadHeader` is declared in the `if` (client.go:226), so `terminateCalls` gets nil |
| `server` | `OneWriter`, `AnswerBound`, `FailureReported`, `ClosesAfterHandlers`, `ConnectionEnds` | hold |
| `accept` | `AcceptGoesOn`: a connection in service keeps nobody from being accepted (server.go:117) | violated: `Accept` calls `ServeConn` in its own goroutine |
| `xclient` | `FailedDialsVanish`, `AvailableIsCached`, `FirstErrorReported`, no deadlock | hold |
| `lru` | `LruInv` (list, map and byte count agree), `LeastRecentLast`, `AddAtLimit` | hold |
| `ring` | `NearestOwns`, `SameServersSameOwner`, `RingInv`, `KeysMoveToNewServersOnly` | hold |
| `cache` | `OneLoader`, `CallsForgotten`, `RightAnswer`, `GetReturns` | hold (`Relock = FALSE`) |
| `cache_relock` | `GetReturns` for the code as written | violated |
| `discovery` | `HeartbeatsInTime`, `DeadServersLeave`, `RefreshesApart`, `CallsEnd` | hold, for both values of `reads` |
| `router` | `BestRouteServes`, `OnlyNewRouteTakes` | hold |
| `chain` | `GroupsKeepTheirs`, `EveryHandlerOnce`, `FirstPanicIsRecovered` | hold |

The runs `server`, `cache`, `discovery` and `chain` also check the inductive
invariant `IInv` of section 4, of which `TypeOK` is the first part; `StrongInv`,
`LruInv` and `RingInv` take its place in theirs. `XClient` has its `IInv` by proof
only.

Some properties have a condition that excepts what the code does differently, and
this condition is the point where the code could be better: `GroupsKeepTheirs` the
groups made from a slice with room (gee.go:66), `BestRouteServes` the routes
registered behind a wildcard in their way (tire.go:15), `SameServersSameOwner`
replicas that coincide (consistenthash.go:36), `GetReturns` a panic of
the getter, `RightAnswer` keys that escaping changes (http.go:113), `AvailableIsCached`
two dials at once, `ConnectionEnds` a handler stuck at `sent` (server.go:258),
`CallsReturn` and `LostConnectionDrains` a shared Done channel that stays full
(client.go:218).

In four places a text of the repository says something else than its code does, beside
those the three violated runs show. The properties state what the code does: lru_test.go:14-16
expects an entry in a cache of limit 0 (`AddAtLimit`); client.go:114 promises the
result of the first success of a `BroadCast`, which panics (`FirstErrorReported` is
about errors only); server.go:174 wants every request to have ended before the
connection is closed (`ClosesAfterHandlers` has the exceptions); server.go:239 says
that the goroutine of a method always ends.

### Bounds

- `client`: one `Call` and two `Go` calls, one of whose requests is answered twice.
  Two concurrent senders contend for `sending`; three calls give answers in all
  orders, a duplicate that arrives while another call is handled, and a
  `terminateCalls` loop over several entries. `DoneCap = 1` lets the shared channel
  be full while its user is still in the second `Go`, so that `call.done()` really
  blocks: in `receive`, in `terminateCalls` with `mu` held, or in `send` with
  `sending` held. Its user may stop reading it for good, and then all of this stays
  blocked, a `Call` with an expired context included; `CallsReturn` and
  `LostConnectionDrains` say that nothing but such a channel does it. The
  safety results and the refinement are also proved for every size.
- `accept`: two clients of the listener, one of which is enough to keep the other
  waiting, and one over HTTP.
- `server`: two requests on one connection. A request has two goroutines of its
  own and shares only `sending`, `wg` and the decoder with others, so that two
  requests meet in every way two can.
- `xclient`: two users and two servers. The users' calls are what puts Clients in
  the map, so that a `BroadCast` can find both; two dials to one address and a
  `Close` race for it. Users and servers are interchangeable (symmetry; the run
  has no liveness property).
- `lru`: four keys of length 1, values of length 0, 1, 3 and 4, limits 0 and 4: up to
  four entries fit, a long value pushes others out, one is larger than the limit,
  updates exceed it by more than one eviction repairs; with 0 nothing fits.
- `cache`: two nodes, two requests, and three keys: one exists, another reaches its owner
  as this one, which the other node owns, and a third arrives as it is and does not
  exist. Joint flights, flights across two nodes and back, nodes that register late or
  go away. Of initial states that differ in the names of the requests `MCSpec` keeps one.
- `discovery`: `Period` 1, `MaxDelay` 1, `Timeout` 4 is the least lease with the
  margin `Period + 2 * MaxDelay < Timeout`; `UpdateTimeout` 2 lets
  two GETs overlap within it; the clock runs to 7, when a server whose last
  heartbeat came at 0 has just become impossible to offer (4 + 2 + 1).
  Servers meet only in the registry's map, an entry each, so that one is enough;
  two callers meet at `d.mu`, and `MCSpec` fixes which of them updates if one does. `MaxIndex` 0: the first round robin finds a server, the
  second is out of range.
- `ring`: three servers with two replicas each on three hashes, so that almost all
  functions have collisions, of replicas of one server too; two pools, since
  agreement is between two; one key, as no property relates two. The theorems hold
  for every size.
- `router`: three registrations, with two methods, out of 32 patterns of up to three
  parts, built from two names, two parameters and two stars, one of them without a name
  and one with the name of a parameter: a pattern, one that makes `search` come back, and
  one that is diverted. The 17 paths have up to three parts; six of them have parts that
  look like wildcards. Only the methods are interchangeable (symmetry).
- `chain`: groups of up to four middlewares, which leaves an array with room behind
  its last element, two groups, and requests of up to five handlers, the
  route's own and two middlewares of each group, for example.

### Deadlock

`XClient` is checked for deadlock: the only states without a successor would be
those where every goroutine has ended or the program has crashed, and these are
explicit (`Terminated`). `Lru`, `HashRing` and `Discovery` never stop, `GeeChain`
only after its request. The configurations that say `CHECK_DEADLOCK FALSE` are those
of systems that really stop: `RpcClient`, where a call may wait for ever for room in
a Done channel that its user never empties; `RpcServer` and `CacheGroup`, in the
blocked states described above and after everything was served; `RpcAccept`, when
all clients are gone; `Router`, after its last registration.

### Fairness

Weak fairness of goroutine steps is the Go scheduler's. `sync.Mutex` is fair
to a waiter in the long run (it has a starvation mode), and in the models each
lock is requested finitely often, so that weak fairness is enough. Beyond it:

- client: `codec.Write` ends; a context passed to `Call` has a deadline (the
  repository's callers give one); a read ends once the connection is gone.
  Nothing is assumed of users, who may leave the shared Done channel full, of the server
  or of the network.
- server: methods return, and do not panic; a peer that closed answers writes with a reset.
- accept: `Accept` and the goroutine of an HTTP connection run when they can, and a
  `ServeConn` whose peer has gone returns. Clients need not come, nor leave.
- cache: nothing else. Nodes may stay away for ever; `GetReturns` excepts
  exactly the requests for a key on which a goroutine of the node panicked.

- discovery: a GET ends, if only with an error, since the handler of the registry
  never blocks. Nothing is assumed of heartbeats, and time may stand still.

## 4. Proofs

Eight modules prove an inductive invariant and from it the safety properties their
runs check, for every value of the constants.

| Module | Theorems (property) | For |
|---|---|---|
| `RpcClientProofs` | `Invariant` (`IInv`), `TypeCorrect` (`TypeOK`), `SignalledOnce` (`DoneOnce`), `RepliesMatch` (`NoCrossedReplies`), `NobodyOrphaned` (`NoOrphan`), `RepliesSettled` (`LateWriteOnlyAfterTimeout`), `StrongInvariant` (`StrongInv`), `Implementation` (`ImplementsRpcCalls`) | any calls, any channel capacity > 0, any number of answers |
| `RpcServerProofs` | `Invariant`, `TypeCorrect`, `ResponsesNotMixed` (`OneWriter`), `HandlersAwaited` (`ClosesAfterHandlers`), `AnswersBounded` (`AnswerBound`), `FailuresReported` (`FailureReported`) | a finite set of requests, which `wg` counts |
| `XClientProofs` | `Invariant`, `TypeCorrect`, `NothingLeftBehind` (`FailedDialsVanish`), `ClientsKept` (`AvailableIsCached`), `FailureReported` (`FirstErrorReported`) | any users, any addresses |
| `LruProofs` | `CountsAgree` (`LruInv`), `VictimLeastRecent` (`LeastRecentLast`), `LimitKept` (`AddAtLimit`) | any keys, values, lengths and limits |
| `CacheGroupProofs` | `Invariant`, `TypeCorrect`, `LoadedOnce` (`OneLoader`), `NoStaleCalls` (`CallsForgotten`), `AnswersRight` (`RightAnswer`), `CacheReal` (`OnlyRealKeysCached`) | any nodes, keys, requests, any owner per key, any idempotent `Escaped`, both values of `Relock` |
| `HashRingProofs` | `RingIsItsServers` (`RingInv`), `ServersAgree` (`SameServersSameOwner`), `NearestServerOwns` (`NearestOwns`), `GrowthIsLocal` (`KeysMoveToNewServersOnly`) | any servers, pools, keys, replicas and hash function |
| `DiscoveryProofs` | `Invariant`, `TypeCorrect`, `HeartbeatsCome` (`HeartbeatsInTime`), `DeadServersBounded` (`DeadServersLeave`), `UpdatesApart` (`RefreshesApart`) | any servers, callers and limits with `MarginAssumption`, both values of `reads` |
| `GeeProofs` | `Invariant`, `HandlersOnce` (`EveryHandlerOnce`), `FirstPanicsRecovered` (`FirstPanicIsRecovered`), `GroupsKept` (`GroupsKeepTheirs`) | any middlewares, groups and lengths |
| `GeeProofs` | `OnlyNewRoute` (`OnlyNewRouteTakes`), `BestRoute` (`BestRouteServes`) | any methods, parts and names of wildcards, any patterns and paths made of them, of any length, any number of routes |

Apart from these the only facts used are the assumptions named in the modules
(`ClientAssumption`, `ServerAssumption`, `XClientAssumption`, `GroupAssumption`,
`RingAssumption`, `RegistryAssumption`, `MarginAssumption`, `DiscoveryAssumption`,
`ChainAssumption`, `LruAssumption`, `RouterAssumption`), which TLC evaluates in every
run of these modules.

Why the invariants are needed:

- Client. `DoneOnce` is preserved by `Deliver` only if the call `receive` holds
  was not signalled before. `IInv` says who may signal a call: this right is a
  token which `send` holds while it prepares the call, which passes to the entry
  in `pending` when the call is registered, from there to whoever removes the
  entry (`receive`, a failed `send`, an expired context) or, once `shutdown` is
  set, to the loop of `terminateCalls`, and which is spent by `call.done()`.
  `TokenInv` states that the token is in one place; `SeqInv` that sequence
  numbers lead from an answer to its call and nowhere else; `LockInv` which
  goroutine holds which lock at which point, and with that that nothing is
  registered during the loop of `terminateCalls` or after it.
- Refinement. The step simulation needs that a call's `Error` and `Reply` do not
  change their meaning after its signal, which `IInv` gives, and that a call ends
  with nothing only when the connection is gone. `OutcomeInv` says so before the
  signal: what `receive` is about to deliver has an error or its own reply, and a nil
  `rcvErr` in `terminateCalls` comes from a connection that is no longer up.
- Server. `LockInv` makes the holder of `sending` the one goroutine that writes.
  `CountInv` ties `wg` to the number of running handlers and says that none is
  left after `wg.Wait()`. `AnswerInv` reads off an answer how far its sender has
  come; so each of the possible senders has sent one at most, and the number of
  answers is bounded by the number of senders (an injection into a set of names).
- XClient. `DialInv` says that only a Client whose dial has returned it can be in
  the map or in use, which a dial that failed never does. `TasksInv` says that
  the error is kept in the step that cancels the other calls.
- Cache. `FlightInv` says that the goroutine on its way through `load` is the
  one whose call is in the map, and that who waits does so for a call of its own
  key and node. `AnswerInv` says that a result is what `Right` allows from the
  moment it exists, on all three nodes a request may cross.

- Ring. `RingInv` says that `keys` and `hashMap` are a function of the servers that
  were added and of their order. That the search finds the nearest replica is then
  arithmetic modulo the size of the hash, that two rings agree follows because
  without a collision the last server with a hash is the only one.
- Discovery. `HeartbeatsInTime` needs to know how late the next heartbeat can be:
  `LeaseInv` bounds the next tick by a period after the last POST (and one delay,
  if the ticker was started by its answer), `TimesInv` the age of a POST; together
  they leave less than a lease between two heartbeats at every point of the loop. `DeadServersLeave` chains
  three clocks: `ListInv` says that every server of a list had a lease when the
  registry made it (leases only grow, lemma `LeasesGrow`), that the list was not
  much older than `lastUpdate` says, and that whoever is about to choose has found
  it recent. `MutexInv` ties `d.mu` to the GET, and with it `RefreshesApart`.
- Chain. `GroupsInv` says that two groups share an array only when both slices fill
  it, unless a group was made from a slice with room: the next `append` of either
  then moves away. `IndexInv` says that the handlers called so far are exactly the
  positions up to `index`, and which of them the stack holds; `PanicInv` that every
  Recovery that was called and has not returned is in the stack, where `Unwind` finds
  it.
- LRU. `LruInv` is inductive. Its hard part is the sum: taking an element from the
  middle of a list of any length, putting one in front and changing the length of a
  value change the sum by what `nBytes` is changed by (lemmas on `BytesUpTo`).
  `LeastRecentLast` needs it, and the fact that moving the same key to the front of
  two lists keeps the order of everything else in both.
- Router, `OnlyNewRouteTakes`. `TreeInv` says that `nodes` lists every node below the
  root once, that the parent of a node is in the tree, and that every pattern in the
  tree has a handler. A registration makes the tree larger and gives one node a pattern; `LargerSearch`
  compares the searches before and after, from every node: the later one finds what
  the earlier one found, or the new route's node, because a search gives up a child
  only if it finds nothing there, and new children come after the old ones.
- Router, `BestRouteServes`. `OrderInv` says what the tree is while no route was
  diverted: its nodes are on the way of a route, a node where routes end has the
  pattern of the last of them, and among siblings only the last may be a wildcard. That names come before wildcards wherever a search has
  the choice is the heart of it: `SearchBest` shows that from every node on the path a
  search finds the most specific of the routes that lie below it, by induction on
  what is left of the path, the case of a child that leads nowhere included.

Each invariant has a lemma per group of actions with a case per action and a
step per part of the invariant.

Sums, ways through a tree and searches are recursive functions, `f[i] == ... f[i - 1]
...`, and never `RECURSIVE` operators. The induction rules of the library have a
predicate as a parameter, which the provers cannot instantiate; so induction is over a
set of natural numbers in place of a predicate, from the fact that such a set has a
least element (`LeastElement`, `UpTo`). In this way is proved first that each of these
equations has a solution (`SumExists`, `WayExists`, `SearchExists`), then what the
solution is.

Only model-checked: liveness (`CallsReturn`, `LostConnectionDrains`,
`ConnectionEnds`, `GetReturns`, `CallsEnd`), since fairness and ENABLED are not within
reach of the proof system. Every other property that a run finds to hold is stated by
a theorem.

## 5. Plan

The modules were written in the order of importance: `RpcClient`, `RpcServer`,
`XClient`, `Registry`, `Discovery`, `Lru`, `CacheGroup`, `GeeChain`, then `RpcCalls`
and the refinement, `HashRing`, `Router` and `RpcAccept`; the proofs followed each of
them. What could still be added:

1. A composition of `RpcClient` with `RpcServer` over one connection. The client's
   environment allows every answer `RpcServer` gives (`AnswerBound` bounds them, any
   order, with or without an error), so that no new outcome is expected; what it
   would add is the refused request whose body shifts the server's decoder.
2. The counters of `service.go` (`numCalls`), once a method with a usable signature can
   be registered (section 6).

## 6. Not modelled

- `geeGorm`: the `init` of `clause/generator.go` writes to a nil map, so that
  every program which imports the package panics before `main`. No behaviour of
  the session can be reached.
- Reflection (`service.go`, `Register`, `FindService`): only the outcome of a lookup
  matters to a connection. `registerMethods` takes the receiver and the first argument
  (`In(0)`, `In(1)`, service.go:78) for argument and reply type, so that of the
  methods it accepts only those can run whose receiver, argument and reply have one
  and the same pointer type.
- gob, JSON and HTTP: external; modelled by how they fail.
- Generated protocol buffer code, example programs.
- The registry of cache groups and `CacheServer.mu`: they are written before
  requests arrive and read afterwards.
- Templates, static files and the helpers of `Context` are straight calls of the
  standard library.
