# TLA+ models of txSDK

txSDK is a collection of Go programs that drive an Ethereum-like chain, on top of
a JSON-RPC package (`src/rpc`) that carries nearly all of its concurrency. This
project models that package (the client with its subscriptions, the server with
its notifier and codec), the programs that choose nonces, and the token contract.

Line numbers refer to `src/rpc/client.go` unless another file is named.

## The system

| Part | State | Operations | Talks to |
|---|---|---|---|
| RPC client (`rpc/client.go`) | `writeConn`, `respWait`, `subs`, the channels `requestOp`, `sendDone`, `readResp`, `readErr`, `reconnected`, `close`, `didQuit` | CallContext, BatchCallContext, Subscribe, Close; internally send, write, reconnect, dispatch, read | callers through one channel per request, the peer through a `net.Conn`, subscriptions through `deliver` and `quitWithError` |
| Client subscription (`rpc/client.go`) | `in`, `quit`, `quitOnce`, `err`, `errOnce`, forward's list | start, forward, deliver, Unsubscribe, Err | the subscriber's channel; the client, by `requestUnsubscribe` |
| HTTP client side (`rpc/http.go`) | none across requests | sendHTTP, sendBatchHTTP | BatchCall, which reads the answers from `op.resp` |
| RPC server (`rpc/server.go`) | `run`, `codecs`, one WaitGroup per connection | serveRequest, exec, execBatch, handle, Stop | codec, notifier, service callbacks |
| Notifier (`rpc/subscription.go`) | `active`, `inactive` | CreateSubscription, activate, Notify, unsubscribe | codec, server |
| Codec (`rpc/json.go`) | decoder and encoder locks, `closed` | ReadRequestHeaders, Write, Close | server, notifier |
| Load generator (`tool/`) | nonce, `stop` channel | txsend, checkNonce | a node, over RPC |
| Transfer scripts (`transfer*`, `callsol`) | nonces | loops like txsend's | a node |
| EIP20 token (`contract/`) | balances, allowances | transfer, transferFrom, approve | its callers |
| Transports, types, utilities, single-request scripts | little or none | | |

What is hard in it:

* the client has one goroutine per caller, one dispatch goroutine, a read loop
  per connection and a forwarding goroutine per subscription. They share
  `writeConn` without a mutex, channels that may be closed only once, and
  `sync.Once` bodies that make network calls;
* a request can be answered, answered twice, answered in parts, cancelled, fail
  in its write, and be closed by a lost connection or by Close, in any order;
* reconnecting replaces the connection while the old read loop may be anywhere;
* a subscription can be ended by its owner, by its own error, by the connection
  and by Close at the same moment;
* the server activates a subscription after it has written its id, while the
  client may already be unsubscribing; Stop races with requests in flight;
* the load generator guesses its next nonce from a pool that changes under it.

## Modules

| Module | Content |
|---|---|
| `RPCClient` | the client over a stream connection: callers, dispatch, read loops, reconnect, the life cycle of subscriptions, Close |
| `RemoteCall` | abstract: what the client promises its callers |
| `MCRPCClient` | instances of the client for TLC |
| `RPCClient_proofs` | the inductive invariant of the client and the theorems about it |
| `RemoteCall_proofs` | refinement of `RemoteCall` |
| `NotificationStream` | abstract: what a subscription promises its subscriber |
| `ClientSubscription` | one subscription in detail: deliver, forward's select, the list, the subscriber's channel, the four ways to end |
| `ClientSubscription_proofs` | refinement of `NotificationStream`, order, limits, end |
| `RPCServer` | the server: serveRequest per connection, exec and execBatch per message, the notifier, the codec's Write and Close, Stop, single requests over HTTP and the client call that waits for them |
| `SubscriptionLife` | abstract: what the server promises of its subscriptions |
| `MCRPCServer` | the instance of the server for TLC |
| `RPCServer_proofs` | the inductive invariant of the server and the theorems about it |
| `SubscriptionLife_proofs` | refinement of `SubscriptionLife`, and the unsubscribe that cannot be too late |
| `TxScripts` | how txsend, checkNonce and the three sendTestTx loops choose nonces, against a node |
| `TxScripts_proofs` | its properties for any bounds |
| `EIP20` | the token, in the contract's modular arithmetic |
| `EIP20_proofs` | exact moves, conservation, credits that always fit, and allowances that are never exceeded |

### RPCClient

A step is what one goroutine does between two operations another one can see: a
channel operation, a `sync.Once`, a read or a write of the connection. A send on
an unbuffered channel is one joint step of both sides; `sendDone` (buffer of one)
and `op.resp` (buffer of `len(ids)`) keep their contents.

| Code | Model |
|---|---|
| a goroutine in CallContext, BatchCallContext, Subscribe, requestUnsubscribe | `pc[o]`: idle, send (select in send), write, dialed (select in reconnect), sent / unsent (about to signal sendDone), wait (op.wait), done |
| send 459-475, write 477-494, reconnect 496-510 | `SendCancelled`, `SendQuit`, `AcceptOp` (joint with dispatch), `Write`, `DialFails`, `Dial`, `DialQuit`, `Reconnected`, `SignalSendDone` |
| op.wait 138-145 and the loop of BatchCall | `Receive`, `ReceiveClosed`, `WaitCancelled` |
| dispatch 515-606 | `dp`: loop, deliver (inside handleNotification), readErr and closing (inside closeRequestOps), drain, reconn (waiting for the old read loop), quit (`didQuit` closed) |
| closeRequestOps 609-627 | first loop: operator `closeRequestOps`, in the step that starts it; second loop, which can block: `PickSub`, `QuitSub` |
| handleNotification, handleResponse 629-671 | `DispatchNotification`, `Deliver`, `DeliverQuit`, `DispatchResponse` with `handleResponse` |
| read 673-704 | `rd[c]`: reading, resp (offering a message), err, dead |
| quitWithError 753-769, start, Unsubscribe | `once`, `quit`, `serr`, `serrClosed`, `fwd`, `usr` and the actions `Fwd...`, `Unsubscribe...` |
| Close 264-274 | `Close`, `AcceptClose`, `CloseReturn` |

Abstractions: a message carries the request it answers, which elements of the
batch, and success or failure; ids are pairs (request, element) and so unique,
as `nextID`'s 32-bit counter is until it wraps. The peer answers in any order,
in parts, twice (bounded by `MaxExtra`) or never, may end a connection at any
time, and sends notifications for live subscriptions (`MaxExtra` too). What a
decoder has buffered can still be read after a connection is closed. A write may
fail after the request has reached the peer, and may succeed on a connection
that is already broken. A JSON array that mixes answers to several requests
appears as several messages, between which dispatch may do something else; the
code does not pause there, so the model has more interleavings than the code,
never fewer. `op.err` is read by a caller without synchronisation (143): both
outcomes of that race are behaviours of `Receive`.

`RemoteCall` is the promise to the callers, for calls, batches, subscriptions and
unsubscriptions alike: a request is made once; each of its parts is answered at
most once and only while the client waits for it; the client may give requests up
(a lost connection or Close gives up all of them); the caller gets one result, nil
only when every part was answered; when the client is over it waits for nothing
and makes no request. The refinement mapping is `status` from `pc` and `res`,
`pending <- respWait`, `over <- dp = "quit"`, and `answered` is what is in
`op.resp` or with the caller; for Subscribe it is the start of the subscription. An
answer may still come for a caller whose context has expired, and one that is
buffered is thrown away when `op.err` is set (143); the specification says both.

### ClientSubscription and NotificationStream

`RPCClient` says nothing of what notifications carry. `ClientSubscription` takes
one subscription, numbers its notifications in the order the connection brings
them, and has forward's list, the subscriber's channel (its capacity `cap` is
chosen at the start; 0 is an unbuffered channel, where forward's send is joint
with the receive) and the history of what was received. The rest of the client
is reduced to whether dispatch is in its loop, in deliver, in closeRequestOps or
gone, and to the progress of the Call made by requestUnsubscribe: sent, accepted
(its write and the wait for the answer in one, so closeRequestOps may end it at once
or leave it to its write), returned.

`NotificationStream` is the promise: in order and gapless until the end; from the
end on a suffix of what is underway, and some of what still arrives, may be lost,
but nothing is repeated or reordered. The weaker clause is needed: forward's
select may still take a value or send one after `quit` is closed, while deliver
has dropped the one before it. The refinement mapping is
`queue <- channel \o buffer`, `last <- n`, `ended <- quit \/ fwd # "run"`.

### RPCServer

Lines here are of `src/rpc/server.go`.

| Code | Model |
|---|---|
| serveRequest 125-209 with ServeCodec, ServeSingleRequest | `pc[c]`: new (before codecsMu, 150), loop (159), read (161), badread (about to write the read error), check (173), refuse (answering during shutdown), exec (a single request, executed by serveRequest itself), wait (pend.Wait), unreg (the deferred Remove), close, done |
| the goroutine per message, exec and execBatch 323-371 | `job[m]`: handle (with `pos[m]`, the loop over the batch), write, activate (the loop over the callbacks), done, panicked |
| handle 256-321 | `HandleCall`, `HandleUnsupported`, `CreateSubscription`, `Unsubscribe` |
| Notifier (`subscription.go`) | `active`, `inactive` (of all connections; a request's connection is `ConnOf`), `errCloses`; `subMu` is held for reading while a service is in "notify" and the writers need `SubMuFree` |
| Write and Close of the codec (`json.go` 344-358) | `WriteOK`, `WriteFail`, `closed` |
| Stop 227-239 | `StopFlag`, `StopLock`, `StopClose`, `StopReturns` |
| a service's goroutine, as `subscription_test.go` writes it | `svc[s]`: idle, notify, ended |
| sendHTTP, sendBatchHTTP and BatchCall's loop (`http.go` 154-193) | `BatchCallReturns` |

The peer of a stream may stop reading (writes then wait until the codec is closed),
read again, or hang up. A write may fail at any time, over HTTP too: the network
fails under it, or `encode` refuses the value. The peer sends an unsubscribe only with
an id it has received. ServeHTTP's codec closes nothing but its channel, so its
writes go on after Stop; its connection has one request and no notifier. A panic
of a callback, of a call or of a subscribe, is recovered for a single request only; in the goroutines of a
stream it would end the program, and is not a behaviour of the model. Left out:
RegisterName and reflection (before the server runs), the context (callbacks do
not look at it), and `encMu` on its own, since a write is one step.

`SubscriptionLife` is the promise of the notifier: a subscription is unknown,
inactive, active, cancelled, in this order; its request is answered at most once; it
becomes active only when it has been answered or its connection has been cut; a
notification begins only while it is active, reaches the client only after the
answer and never over a connection that is cut, and is never under way when the
subscription is cancelled. The case of the cut connection is needed: exec runs the
callbacks also when the write of the id has failed, after it has closed the codec
(see "Violations and what they mean"). The mapping takes `life` from `errCloses`,
`active` and `inactive`, `told` from `replies`, `sending` from the services inside
Notify, and `cut` from the closed codecs.

### TxScripts

The node is external: it accepts a transaction at a free nonce, calls it known,
or rejects it, and an error may also be the loss of the answer to an accepted
transaction. `book` is what the node holds at each nonce. A program offers one price,
so the node replaces none of its transactions by another one (a second attempt with
another content is rejected); that the pool replaces an older, cheaper transaction of
the account, or evicts one, is left out. txsend (`tool/main.go`)
is `TxSend`, `Signal`, `TakeStop`, `Requery`, `RequeryFails`, `TestStop`, `Drain`,
checkNonce `CheckNonce` and `CheckSignal`; the loops of `transfer`, `callsol` and
`transferadder` are `TimeOver`, `Tick` and `SendTestTx`, which differ in what the
transaction is made of (`Content`). `gap` is history: the nonce txsend was told in
its stop branch.

Two observations the properties state as they are. txsend's stop branch asks for
the pending nonce and goes on with the next one (107): `GapStaysOpen` shows that
the nonce it skipped is never sent, in any later round, so nothing it sends from
then on is executed. And txsend is the only receiver of `stop` and sends to it
itself (120): with ten signals of checkNonce waiting both block; this state is
reachable, takes ten rounds of checkNonce during one hanging call, and nothing in
the repository says otherwise.

### EIP20

One action per function of the contract; a failed `require` or `assert` reverts
and is no step. `add` and `sub` are computed modulo `MaxUint + 1`, `add` before its assert
looks at the result, and the two assignments of a transfer happen one after the other, which
matters when sender and receiver are one account. `granted`, `taken` and
`unlimited` are history.

## Runs

| Run | Instance | Question |
|---|---|---|
| `client_core` | a call and a subscription, both cancellable, two connections, a failing forward loop, Unsubscribe, Close, one extra message (1.6 million states) | requests are those of `RemoteCall`, nil means an answer, no channel is sent on or closed when it must not be, one reader, no leaked connection, a clean quit |
| `client_batch` | a batch of two and an empty batch, two connections, two closers, one repeated answer | every element is delivered once and nobody is forgotten |
| `client_live` | a call and a subscription on one connection, Close | Close returns and aborts all calls; a lost connection releases all calls and reaches all subscriptions |
| `client_unsub_close` (violation) | one subscription, Unsubscribe, Close | Close can hang with Unsubscribe |
| `client_reconnect_close` (violation) | two calls, two connections, Close | Close can hang after a reconnect |
| `client_reconnect` (violation) | three calls, two connections | a call on the old connection is never signalled |
| `sub_stream` | five notifications, one malformed, list of two, capacity 0 or 1, two owners | the subscription is a notification stream; dispatch is not stuck in deliver; a reader who keeps reading gets everything; the end is told |
| `sub_overflow` (violation) | the same with one owner | the overflow error can be lost |
| `server_core` | a stream and an HTTP request; a subscribe, a batch of two unsubscribes and a call; failing writes, stalls, hang-ups, a panic, Stop (156 thousand states) | every subscription lives as `SubscriptionLife` says, an unsubscribe that is not too early is effective and a second one closes nothing, nothing is answered twice or silently dropped, Stop leaves nothing open and everything ends, a call over HTTP returns |
| `server_unsubscribe` (violation) | the same with an unparsable message | an unsubscribe can miss its subscription |
| `tx_scripts` | each of the four programs, nonces 0 to 4, three transactions, four recipients, `stop` with its real capacity of ten | where holes in the nonces come from, and that nobody is paid twice |
| `token` | three accounts, two-bit amounts, every supply and creator, one owner who approves up to three in total (177 thousand states) | conservation, that no transfer fails for its receiver's balance, and allowances over sequences of calls |

Why the bounds are enough to be interesting: two connections are the least with a
reconnect, and the interference of three connections is only that of two
neighbours, since dispatch keeps one. One extra message is enough for a repeated
answer and for a notification that finds dispatch, forward or the owner at every
point. A batch of two is the least that can be answered in parts. A list of two
and five notifications let the list fill, drain and fill again, overflow, and
meet the malformed one with the list empty, part full and full. On the server one
subscription meets its own unsubscribe, activation, notifications, the failure of
its connection and Stop at every point; the batch may come on either connection. The
message that does not parse is left to `server_unsubscribe`, where it costs nothing:
from `badread` on serveRequest goes the way of a read that fails, which `server_core`
has.
Three accounts are the least where sender, owner and receiver differ, and two-bit
words wrap around; `Approvers` and `MaxGrants` bound only the history. Five nonces
let a program be taken back by its ticker, collide, and go on. Deadlock is not
checked: a client that is closed, or that nobody uses, stops; what must not stop
is stated as a liveness property.

### Fairness

The Go scheduler runs every goroutine that can go on: weak fairness for each
caller once it is inside the package, for dispatch, for each read loop's error,
for forward and for goroutines inside Unsubscribe and Close. `Write` and `Dial`
are among these because both have deadlines. Nothing is assumed of the decisions
of callers, of contexts, of the peer's answers or of the network. A Go select
that is offered several cases may pick any; weak fairness of the whole goroutine
does not force one of them, and the liveness results do not need it since the
extra traffic is bounded. On the server every serveRequest, Stop and service
inside the package runs, and every callback returns; the goroutines of messages
have strong fairness because they take `subMu` for writing while notifications
come and go, and Go's RWMutex does not let readers starve a writer. That Stop is
called, that peers read, or that services notify is not assumed. `KeptUp` alone assumes a subscriber who goes on
reading, as its premise.

### Violations and what they mean

1. `client_unsub_close`: Unsubscribe runs requestUnsubscribe inside `quitOnce`
   (754-761). If dispatch starts closeRequestOps, for Close or for a read error,
   before it has accepted that request, it calls quitWithError on the same
   subscription and waits for `quitOnce`; the holder waits in send for dispatch
   or for `didQuit`. Close never returns (264: "Close closes the client, aborting
   any in-flight requests").
2. `client_reconnect_close`: with `reading` still true, dispatch handles a
   reconnect by closing the old connection and receiving from `readErr` only
   (578). A read loop that has decoded a message is blocked on `readResp`.
3. `client_reconnect`: on that path nobody calls closeRequestOps, so a call that
   waits on the old connection is not signalled, against 595-597.
4. `sub_overflow`: between forward's return and start's `quitOnce` another
   goroutine may end the subscription; the documented
   ErrSubscriptionQueueOverflow is then not delivered.

5. `server_unsubscribe`: exec writes the id of a subscription (`server.go` 334)
   and activates it afterwards (340). The client's unsubscribe, served by another
   goroutine in between, looks into the active map only, answers
   ErrSubscriptionNotFound, and the subscription is then activated and goes on,
   against `subscription.go:43`.

A disagreement without a run of its own: the comment at `server.go:284` says "active
the subscription after the sub id was successfully sent to the client", but exec runs
the callback (340) whether or not `codec.Write` (334) has succeeded. After a failed
write a subscription is active although its client never got the id. The codec is
closed by then (336), so the client hears nothing of it, and its service ends by
Closed or by its first failing Notify: that is what `LifeSpec` says, and its guard of
`Activate` names both cases.

Stop's comment (`server.go` 227: "wait for stopPendingRequestTimeout to allow
pending requests to finish") describes a wait the code does not have; reading it
is enough to see that. `AnsweredOrClosed` says what remains of the promise.

The comment at 411 also gives the limit as 8000 notifications where line 64 says
20000; no run is spent on a constant.

## Proofs

All proof modules hold for every value of the constants that satisfies the
assumptions of the modules: `ClientAssumption` and `SubscriptionAssumption` (types
of the parameters, at least one connection, a list limit above zero),
`ServerAssumption` (what messages are made of: every request is in one place of one
message, an unsubscribe is about a subscribe), `ScriptsAssumption` (types) and
`TokenAssumption` (types, and finitely many accounts, of which Ethereum has 2^160).

`RPCClient_proofs`. None of the safety invariants is inductive alone.
`ClientInv` is the conjunction of

* `TypeOK`;
* `LockInv`: the write lock, and that a failed send has returned to its caller
  before dispatch takes its `sendDone` (so dispatch deregisters nobody who waits);
* `OpInv`: ids are accounted for. A registered op has each of its ids in
  exactly one of `respWait`, the buffer and the caller's hands, or its channel is
  closed; from this come AnsweredOnce, NoPanicOnResp and NoLostWakeup;
* `ReadInv`: one reader, none while dispatch handles a read error;
* `ConnInv`: dispatch's connection is closed before dispatch lets go of it, and
  nobody dials while dispatch waits for the old read loop (the write lock is
  what makes this inductive);
* `SubInv`: a running subscription whose `quitOnce` is free is known to dispatch;
* `StartInv`: while the request of a subscription is open it has not started.

Each part has a lemma with one step per action that can disturb it; `InvCorrect`
combines them, and the theorems named in `PROJECT.json` follow.

Two further invariants are proved on top of it. `AnswerInv` says that an op whose
`op.resp` was closed without an error is a subscription: with it
`OkIsAnsweredCorrect` shows that the nil which a receive from a closed channel
returns is never taken for an answer. `DeadInv` and `SignalInv` follow the end of a
read loop: its connection is closed, or about to be, and nobody who wrote to it has
an id registered. One step of the client breaks `SignalInv`, the receive from
`readErr` inside dispatch's reconnect case (578), and `ReadEndCorrect` says that
there is no other: in a behaviour without that step the comment at 595-597 is true,
for any number of connections. `OneConnectionCorrect` draws the conclusion for a
client that never reconnects, the instance of `client_live`.

`RemoteCall_proofs`. `ClientInv` and `AnswerInv` are enough to map every step:
`FailStep`, `SucceedStep`, `GiveUpStep`, `MakeStep`, `QuitStep` and `AnswerNext` are
the steps of `RemoteCall`, `StutterStep` the rest; `OpNext`, `DispatchNext` and
`SubNext` go through the actions and `CallCorrect` concludes. In `CallSpec` the start
of a subscription is its answer, so that it happens once; `StartedOnceCorrect` says
the same in terms of `c.subs` and is proved on its own.

`ClientSubscription_proofs`. Six lemmas on sequences (moving a head, cutting a
concatenation, ...) let `StreamStep` show that every step is a step of
`NotificationStream` or a stutter: `StreamCorrect`. The order of the queue is then
proved from the steps of the stream alone: `QueueInv` says that what is received
or underway is increasing and at most `n` long, and until the end is exactly
`<<1, ..., n>>`; `GaplessCorrect`, `InOrderCorrect` and `OverflowCorrect` follow. (The run
leaves `InOrder` to `StreamSpec`, from which the proof takes it.)
`OnceInv` (who runs `quitOnce`, that they are alone, who has been told) gives
`ErrSafeCorrect` and `EndCorrect`.

`RPCServer_proofs`. `ServerInv` strengthens the six safety properties of the run by

* `WireInv`, `CurInv`, `MsgInv`: a message is on the wire, in the hands of one
  serveRequest, or executed, in one place only, and unanswered until its write
  (for AnsweredOrClosed, PendingFinishFirst and the bounds of the loops);
* `FreshInv`: the notifier has not heard of a request whose turn in its batch has
  not come (so no subscription is created twice);
* `SubInv`: an unsubscribe comes on the connection of its subscription, which is
  why `subMu` of that connection protects it, and an active subscription has its
  id on the wire unless its codec is closed (for NotifierSafe and
  IdBeforeNotification);
* `StopInv`: Stop clears the flag before anything else (for StopLeavesNone);
* `PendInv`: only a stopping server refuses requests.

One lemma per part, one step per action that can disturb it.
`IdBeforeNotification` is part of `SubscriptionLife` and is proved here on its own.

`SubscriptionLife_proofs`. The refinement needs more than `ServerInv`. `LifeInv` adds

* `OutcomeInv`: a request has no outcome before its turn in the loop of exec;
* `CallbackInv`: nothing is active before the responses of its message were
  written, and nothing is left inactive when the callbacks have run;
* `GrantedInv`: what was granted is in one of the maps until its err is closed, and
  only what was granted is asked to be cancelled.

`LifeCorrect` is the refinement. That an activation finds the id sent or the codec
closed comes from `AnsweredOrClosed`, that nothing arrives over a closed codec from
`SubInv`; `QuietStep` is the lemma for all steps that at most close connections.
`LateUnsubscribeCorrect` is the other half of
violation 5: an unsubscribe that is handled after the callbacks of its
subscription's message have run finds the subscription, so the window between the
write of the id and `activate` is the only one in which it can be lost.

`TxScripts_proofs`. `NonceInv`: below the program's nonce everything is taken until
txsend skips one, and the one it skips stays below its nonce; `AddInv`: a recipient
that has a transaction has been passed by the loop.

`EIP20_proofs`. `AddExact` and `SubExact` show that behind the asserts the arithmetic
is exact; `MoveEffect` that a transfer is then an exact move, also to oneself; `GrantInv` adds
that an allowance of MAX_UINT256 is always an approved one. `MovesCorrect` is the
step of conservation. `Conservation` itself is stated without a recursive sum:
`Tokens` has one element `<<a, i>>` for each of the `balances[a]` tokens of each
account, and its cardinality is `totalSupply`. `MoveKeepsTokens` counts the two
accounts of a move apart from all others, which `FiniteSetTheorems` can do without
induction over the accounts; `ConservationCorrect` follows. `CreditCorrect` draws from
it that the assert of `add` never fails in a transfer: two balances (`TwoBalances`) are
two disjoint sets of tokens.

Only model-checked, because the prover does not do fairness: the liveness properties
CloseReturns, CloseAborts, LossReleasesOps and LossReachesSubs of the client,
DeliverReturns and KeptUp of the subscription, StopDrains and HTTPReturns of the
server. A violation is TLC's counterexample and needs no proof. Every invariant and
action property that a passing run checks is a theorem.

## Not modelled

Of the roughly 86 thousand lines of the repository's own files, more than 70
thousand are lists of keys and addresses (`callsol/fuwuqi`, `generateKey`,
`transfer2`) and bindings made by abigen (`contract/HW.go`). There is nothing in them
to model, so the share of lines the models cover is small; of the packages with
state of their own, `rpc` is covered nearly whole.

* Formatting and parsing of JSON, reflection, logging; in `rpc/http.go` the headers,
  CORS and virtual hosts.
* The websocket, IPC and in-process transports, which only produce a `net.Conn`.
* `eth1`, `tool/eth.go`, and the scripts in the repository's root: one request each,
  no state. `transfer2` counts up from a
  fixed nonce whatever the node's is, so it promises nothing about holes.
* Hazards without a property. The 32-bit id counter (250) wraps after four billion
  messages on one client; ids are unique in the model. A cancelled call leaves its
  ids in `respWait` until the answer comes (140), and a Subscribe whose context
  expires still starts its subscription when the answer comes (668): both are
  behaviours of `RPCClient`, and nothing in the code promises otherwise. The race on
  `op.err` (143) is in `Receive`, both outcomes allowed; `OkIsAnswered` and `CallSpec`
  hold with either.

## Plan

Done: `RPCClient` with `RemoteCall`, `ClientSubscription` with `NotificationStream`,
`RPCServer` with `SubscriptionLife`, notifier, codec and the client's side of HTTP,
`TxScripts`, `EIP20`; proofs of the safety properties of all of them and of the
three refinements.

Left, in this order:

1. Proofs: that `ClientSubscription` and `RPCClient` agree on who may end a
   subscription (an abstract `quitOnce` both implement); the safety part of
   `HTTPReturns` (a single request that is done was answered or failed).
2. A composition of client and server over one connection, for a subscription from
   Subscribe to the last notification.
