# A TLA+ verification of c-cometd-client

A client library for the Bayeux/cometd protocol in C. This directory holds TLA+
models of its core, TLC configurations that check them on small instances, and
proofs, checked by TLAPS, for every instance. `PROJECT.json` lists components,
runs, mutants, hazards, findings and theorems, and maps definitions to lines.

    tlc -workers 2 -config MCConnection.cfg MCConnection
    tlapm ConnectionProofs.tla

## 1. Inventory

A program using the library has up to three threads on one handle:

    application           receive thread              listening thread
    cometd_connect  ----> cometd_loop_gthread_run
      cometd_handshake      cometd_recv (POST)        cometd_listen
    cometd_subscribe        cometd_inbox_push  -----> cometd_inbox_take
    cometd_publish          cometd_process_msg        cometd_process_msg
    cometd_disconnect ....> (join)                      cometd_listener_fire
                 \             |                       /
                  one cometd_conn, one table of listeners, one last_error

Only the inbox has a lock. Everything else is shared bare.

| component | state | operations | correct when |
|---|---|---|---|
| connection (`cometd.c`, `conn.c`) | `state`, `advice`, `transport`, `client_id` of `cometd_conn` | connect, handshake, process_handshake, process_connect, disconnect | state says what the threads do; a poll has a transport; each failure in a row pauses longer; connect and disconnect return |
| retry arithmetic (`cometd.c:365-403`) | none (reads advice, config) | get_backoff, should_backoff, compute_backoff | every sequence of failures reaches -1, and -1 is never slept on |
| receive loop (`loops/gthread.c`) | `attempt`, `backoff`, the message | run, start, stop, wait | ends when retrying is exhausted or on disconnect, and only then; the end is visible |
| inbox (`inbox.c`) | queue, mutex, condition | push, push_msg, take | every message once, in order; no lost wake-up; NULL only after 100 ms |
| listeners (`event.c`, `channel.c`) | table channel -> list of subscriptions | add, remove, count, get, fire; matches | table and subscriptions agree; a message reaches those who selected it, in order |
| publish/subscribe calls (`cometd.c:223-295`) | the table, the server's set, `last_error` | subscribe, unsubscribe, publish, send_msg_sync | client and server agree on the channels; a failure is not half done |
| listening (`cometd.c:183-221`) | none | listen, listen_async | delivers what was pushed; ends after the connection did |
| transports (`transport.c`, `transport_long_polling.c`, `cometd.c:717-762`) | registry list, `conn->transport` | register, unregister, find, negotiate, send, recv | a common transport is found if there is one; an offer stays understood; the newest of a name goes first |
| messages (`msg.c`, `cometd.c:587-706`) | `msg_id_seed` | constructors, accessors, extract_connect | ids are unique; each message of a payload is handled once, on the right thread |
| extensions (`ext.c`, `exts/*.c`) | list of extensions | add, remove, fire incoming and outgoing | each sees each message once, in order, before it is posted or handled |
| life cycle (`cometd_new`, `cometd_configure`, `cometd_destroy`) | the handle | - | called in a legal order |
| errors (`error.c`) | code, message | error, last_error | the code is that of the failure asked about |
| HTTP, JSON, `main.c` | none | - | - |

What is hard to test here: two threads on an unlocked state word; a receive
thread that ends while `cometd_connect` is still running; replies that fail,
lack fields, or arrive during a disconnect; retries that must end; signals,
spurious wake-ups and time-outs of a condition variable; dispatches that change
the table they walk; requests that fail before or after the server handled
them. `PROJECT.json` lists each at its line under `hazards`.

## 2. Modules

| module | models | run by | proved in |
|---|---|---|---|
| `Backoff` | the retry arithmetic, as operators | `MCConnection` | `ConnectionProofs` |
| `Link` | what a connection promises to the rest: who stores which state when | (implemented by `Connection`, used by `Delivery`) | `ConnectionProofs` |
| `Connection` | application thread and receive thread on one `cometd_conn` | `MCConnection` | `ConnectionProofs` |
| `Mailbox` | the abstract promise of the inbox | (implemented by `Inbox`) | `InboxProofs` |
| `Inbox` | `inbox.c` step by step | `MCInbox` | `InboxProofs` |
| `Delivery` | `Link`, `Inbox`, the threads in `cometd_listen` and the end of a handle, composed | `MCDelivery` | `DeliveryProofs` |
| `Channel` | the wildcard candidates; what a subscription means | `MCListeners` | `ListenersProofs` |
| `Listeners` | `event.c`, nested dispatch on one thread | `MCListeners` | `ListenersProofs` |
| `Subscriptions` | subscribe, unsubscribe, publish, composed with `Listeners` and a server | `MCSubscriptions` | `SubscriptionsProofs` |
| `Transports` | registry, offer of a handshake, negotiation | `MCTransports` | `TransportsProofs` |
| `Messages` | ids, extensions, payloads and who handles what is in them | `MCMessages` | `MessagesProofs` |

`SequenceLemmas` says, for the proofs, what `g_list_prepend`, `g_list_append`,
`g_list_remove` and a search do to a list, and that a walk along a list has the
value that its steps give it. Names ending in `_Something` under a comment "Mutant" are
plausible bugs used to show that a property can fail. They are in no
specification.

### Connection

`pc` says where each thread stands, `hs` holds the locals of `cometd_handshake`
in each thread, `loop` those of `cometd_loop_gthread_run`. A step makes at most
one access to `conn->state`, the field both threads use at the same time:
`cometd_process_connect` is therefore two steps, the guard (line 515) and the
update. The update is one step with the advice it takes (520), the state it
stores (525/529) and the decision to handshake (526): the advice is read by
the application only inside `cometd_handshake`, and the application of the model
joins the receive thread before it connects again (`NoLoopWhileConnecting` in the
proofs, an order of the application and nothing the library enforces). One round
of `cometd_handshake` is a check and a POST whose reply is dispatched to
`cometd_process_handshake` in the same call. `cometd_loop_wait` happens at the
start of the step that sends.

`posts` and `polls` are for `PausesGrow` alone: the requests made in a row in
which nothing got better. Before each request the code must have slept for the
pause that their number calls for: `attempt` is reset in the receive loop after
a round that is no retry and never in `cometd_handshake`, and
`cometd_get_backoff` counts one less when there is advice.

Replies are records with the fields the code decides on: whether the request
got lost, what kind of payload it was, `successful`, what negotiation makes of
it, and the advice. `successful` and the rest are independent, as in the code:
`cometd_msg_is_successful` looks at the first element of a payload whereas
`cometd_process_handshake` gets the handshake message.

Modelled on purpose, because the code does so: the handshake takes the reply's
advice even when NULL, and even when no transport was negotiated; the transport
of an earlier session is never cleared, so a second `cometd_connect` may succeed
on a reply that negotiated nothing (`HandshakeBeforeLoop` and `ExitHasAReason`
are for that reason stated for the first connection); after a disconnect with
"retry" or "none" advice in store `cometd_connect` makes no request at all; the
receive thread handshakes although the application is disconnecting.

Left out: replies without a client id or advice without `reconnect` (the code
passes NULL to `strdup`/`strcmp`), two receive threads (the application of the
model disconnects before it connects again), callbacks that call back into the
connection, and `/meta/connect` or `/meta/handshake` messages that reach
`cometd_process_msg` otherwise than as the reply waited for. There are two ways
for those to get there: a second connect message of a payload goes to the inbox
and to the listening thread (`PayloadsAreSplit` in `Messages` says which), and a
caller dispatches whatever the reply to its own request contains
(`cometd.c:570-571`). Each runs `cometd_process_connect` beside the receive
thread, which frees the advice that the other may be reading. Callers of
`cometd_publish` and `cometd_subscribe` also read the transport and the client
id (580, 641, 669) that a handshake of the receive thread is replacing. Nothing
protects these fields; reading freed memory has no outcome to model. The memory
model is sequential consistency.

### Link and Delivery

`Link` keeps of `Connection` the state, the phases of the two threads and the
number of connects, and forgets advice, delays, transports and replies. One step
of it is one access to the state. `Connection` implements it (`LinkSpec`), so
`Delivery` can use it in the place of `Connection` and stay small.

`Delivery` instantiates `Link` and `Inbox` on shared variables and adds
`cometd_listen`: `listener[c]` is testing the state (outer loop), taking (inner
loop, inside `cometd_inbox_take`, whose steps are those of `Inbox`) or
dispatching. `LoopReceives` is the end of `cometd_recv` together with the start
of `cometd_inbox_push`; the receive thread does nothing else until the payload
is pushed. `handle` is the application of `examples/stress.c`: it disconnects
and joins its listeners. It may also give up on a connection that failed, and
connect again. `cometd_destroy` is not a step: it tests and joins nothing, so
what it does to a thread still running is undefined, and after the join there is
none. `seen` is for `ListenDrainsTheInbox` alone: how many messages had been
pushed when a listener last found that the connection goes on. Those have been
taken when `cometd_listen` returns; later ones may stay in the inbox, and a
`cometd_listen` that finds the connection ended takes nothing at all.

Two states keep `cometd_listen` going for ever, since its mask does not hold
them. HANDSHAKE_SUCCESS is left when `cometd_connect` fails after a successful
handshake; CONNECTED when the receive thread had given up before
`cometd_connect` returned (finding 2) and the application then disconnects
without waiting. `StateAtTheEnd` says that there is no third one, and
`ListeningEnds` that in all other cases the shutdown comes to its end; neither
keeps the code from hanging in these two.

### Inbox

One step per GLib primitive. `waiting` is the set of threads in the condition,
`late` whether a deadline has passed. A wait ends by a signal, spuriously, or at
its deadline, and competes for the mutex before it returns. `cometd_inbox_push`
holds the mutex for one message at a time, so a consumer may run between two
messages of a payload. There is one pushing thread, as in the library.

### Channel and Listeners

A channel is the sequence of its parts. `ChannelMatches` builds the candidates
in the code's order, part by part; `Selects` and `Distance` say independently
what a subscription means: a channel begins with a "/", so a wildcard is never
its first part. `ListenerGet` walks the candidates and collects. `calls` is the
stack of dispatches under way on the thread, each with the copied list it walks
and its position. Addresses are reused after a `free`. A dispatch goes on with
the listeners it has copied, also when one has been freed by a callback; what
such a call does is undefined in C, and the model lets it return either way. A
callback that returns an error ends the dispatch. Firing a wildcard channel ends
the program (`g_assert` in `event.c`) and is therefore no step.

### Subscriptions

Instantiates `Listeners` for the table. A call is idle, about to send, sent,
accepted or refused by the server, and done with a code; the listener is added
or removed when it finishes. A POST without a usable answer (before or after the
server handled it) yields the code in `last_error`, which the transport does not
set, and which nothing resets to success. A successful handshake starts a new
session at the server, with an empty set of channels, and the transport is NULL
before the first one. The dispatch of the reply to listeners on `/meta/...` is
in `Listeners` and `Messages`, not here. A table
operation is one step; two threads inside a GLib container is undefined
behaviour and left out. A caller does not unsubscribe a subscription that is
being unsubscribed.

### Transports

The registry is a list of addresses, prepended to. `Negotiate` goes over the
types of the server's answer as the code's outer loop does: a later match
replaces an earlier one, so the last common type wins, not the first, which is
what `NegotiatesTheLastCommonType` says. A reply that negotiates nothing leaves
the transport of an earlier handshake. A transport that is unregistered is freed
and its address may be used again. `cometd_unregister_transport` has no guard and
neither has its action: the transport in use may go, and any transport while a
handshake is under way. What the code does give is `OnlyTheNewestIsFreed`: as
long as a newer transport of its name is registered, the one in use stays. And
`OfferIsKept` counts (`gone`): a name that was offered more often than it was
unregistered since is still understood. "NULL" stands for the null pointer and is
therefore no type a server can list.

### Messages

`pc` follows each thread from `++msg_id_seed`, a read and a write, over the
outgoing extensions and the POST to the payload that comes back. Messages
received are numbered; the number, the kind (connect or event) and the payload
they came in are all that is kept of them. An extension leaves a mark on each
message it is shown. The inbox is a sequence, as `Mailbox` has it.

What the code does and the properties spell out: `cometd_impl_send_msg_sync`
makes the node it posts before it calls the outgoing extensions, but
`json_node_copy` takes a reference to the message's JSON object, so that what an
extension adds to the object, such as the token of the Yammer extension, is
posted (`ExtensionsSeeEachMessage`; its mutant copies the object, too); the
connect message of the receive thread passes no outgoing extension; of two
connect messages in a payload the receive thread handles the last and the
listening thread the other; a made-up connect message takes an id as a real one
does; after a payload without a connect message the incoming extensions are
called with NULL (`ProcessNull`).

Extensions are added and removed before the first request only, as the
programs of the repository do: the list has no lock. Listeners do not send.

## 3. What the runs check

| run | question | result |
|---|---|---|
| `connection` | types; a poll has a transport; before each request the pause that the failures call for, and none after giving up; the receive thread ends for a reason; a first loop starts from a handshake; retrying ends when the server is gone (`GivesUp`), handshakes and disconnects return; it implements `Link` | holds, two connections, 87 thousand states, liveness under fairness |
| `disconnect_reset` | comment at `cometd.c:513` | refuted |
| `giving_up` | comment at `gthread.c:71` | refuted |
| `old_advice` | comment at `cometd.c:518` | refuted |
| `inbox` | mutual exclusion, order, no lost wake-up, honest NULL, refinement of `Mailbox`; every message is taken by the signals alone | holds, two consumers, 29 thousand states; the liveness under fairness of the threads, none of time |
| `delivery` | messages reach the handlers in order; a listener leaves nothing that was pushed while it saw the connection go on; which states may be left at the end; what is pushed is dispatched and listening ends | holds, one listener, 105 thousand states, liveness under fairness |
| `listeners` | the table is consistent; a dispatch finds the right listeners in the right order | holds, three subscriptions alive, four adds, dispatches two deep |
| `subscriptions` | client and server agree; the server is told only for the last listener | holds with one caller |
| `two_callers` | the same, comment at `cometd.c:274` | refuted with two |
| `remote_call_fails` | comment at `cometd.c:290` | refuted |
| `transports` | unregistering frees the newest of the name alone; negotiation finds the newest transport of the last common type; an offer stays understood | holds, three addresses, five registrations, 30 thousand states |
| `messages` | ids; no message lost or handled twice; payloads are split as documented; extensions see each message, once and in order, before it is posted or handled; every message gets to the listeners | holds, three threads, 96 thousand states, liveness under fairness |

### Bounds

* `BackoffIncrement = 1`, `MaxBackoff = 2`, `MaxAttempt = 3`: the linear delay
  has one value below the maximum, then gives up; `RetriesAreBounded` and
  `SaturationIsExact` show in general that attempts beyond `MaxAttempt` add
  nothing. The default configuration has 29 delays instead of one.
* `Intervals = {-1, 0, 3}`: one that reads as "give up", no pause, or one that no
  linear delay equals. (The refuted comments need the last two only.)
* `MaxConnects = 2` (1 for the refuted comments): the second connection meets
  the transport, advice and state that the first left.
* Inbox: payloads of 0, 1 and 3 messages, 4 in all, two consumers: a payload can
  meet no, one or two waiting consumers and a nonempty queue.
* Delivery: payloads of 0, 1 and 2 messages, 3 in all, one listener, as the
  programs have: one payload can end the first connection and another begin the
  next with the listener in any phase. The safety is proved for any number.
* Listeners: three addresses, four adds, so that an address is reused; channels
  of two and three parts, and one of four, which is over the limit of parts set
  to 3 here (254 in the code) and matches nothing.
* Subscriptions: three subscriptions in all, two sessions, two application
  channels and a meta channel. Symmetry in the addresses only, for safety.
* Transports: three addresses for five registrations under two names, so that
  addresses are reused and a name is registered twice; the server's list has
  up to three types, one of them never registered. Symmetry in the addresses.
* Messages: one caller beside the receive and the listening thread, two
  requests, payloads of at most two messages: enough for two increments to
  overlap and for two connect messages in one payload. Senders stop at
  `MaxRequests`, which is why this run does not check for deadlock.

### Fairness

`Connection`: weak fairness of the application's steps inside a call and of the
receive thread's steps. A thread that was started keeps running, a POST ends
(`CURLOPT_TIMEOUT_MS`), a sleep ends. Nothing makes the application connect or
disconnect, nothing makes a server answer or go down. `DisconnectReturns` is
stated while DISCONNECTED is still stored and no handshake with a pause is
under way: both exceptions are real (`DisconnectIsNotReset`; the loop in
`cometd_handshake` has no limit when the advice has an interval).

`Inbox`: weak fairness of each thread's next step, none of the clock: a message
is taken although no wait ever times out. The mutex is not assumed to be handed
over fairly, so with two consumers one may starve the other.

`Delivery`: weak fairness of the receive thread's pushes and of its other steps,
of each listener, of time (a deadline passes and GLib ends the wait), and of the
join of an application that is closing. The application need not
connect, listen or disconnect, the server need not answer.

`Messages`: weak fairness of each thread. A request that is under way is
answered or times out.

## 4. Findings

1. `cometd.c:515`: the test for DISCONNECTED and the assignment after it are not
   atomic; a disconnect in between is overwritten, and its join waits for a
   receive thread that was never told to stop.
2. `cometd.c:158`: CONNECTED is stored after the receive thread started, and can
   overwrite the DISCONNECTED of one that ended, its polls having failed under
   retry advice without an interval: no receive thread, and a `cometd_listen`
   that never returns.
3. `cometd.c:526`: an unsuccessful connect without advice keeps the stored
   handshake advice but does not act on it; the loop polls without a pause.
4. `cometd.c:279`: between the count of the listeners and the unsubscribe
   request another caller can add one; the server then cuts off both.
5. `cometd.c:291`: the condition is inverted: the local listener is removed when
   the remote call failed and kept when it succeeded.

Two observations contradict no text of the repository and are therefore no
findings: `cometd_listen` has no end in two states (`StateAtTheEnd`), and an
incoming extension must be ready to be called with NULL (`ProcessNull`).

## 5. What is proved

`ConnectionProofs` assumes `ConfigAssumption`, `BoundsAssumption` and
`SaturationAssumption` (the constants are naturals, and attempts saturate no
earlier than the linear delay exhausts). It proves, for all constants, type
correctness and every safety invariant of the run. None but the type invariant
is inductive. `IInv`, which holds `ExitHasAReason`, adds:

* `TransportIsKept`: once negotiated, transport and client id stay, and each
  program point past a successful handshake implies them. Needed for
  `PollsOverATransport`, as the poll is several steps after the handshake.
* `NoLoopWhileConnecting`: the application of the model is inside
  `cometd_connect` only while there is no receive thread.
* `LocalsAreFresh`: the locals of `cometd_handshake` are reset outside a call,
  and the receive thread holds GiveUp only between giving up and its end.
* `FirstSession`: until the first receive thread, the state follows the
  transport; while it runs and the application is not in its join, the state is
  one that `cometd_should_recv` accepts. This is what makes an exit need a reason.

`PausesHold` rests on an invariant of its own. `CountersAgree` says that each
loop's attempt counter is its number of requests in a row and one, as far as the
two are told apart; `Waits` that the delay in store is the `Pause` of that
number whenever a request is next. `PauseOf` is the arithmetic between them: what
`cometd_get_backoff` computes from the attempts before the last one is the pause
after the requests made.

`SaturationIsExact` and `RetriesAreBounded` are about the arithmetic: the cap on
attempts in the model changes no delay, and every attempt from `MaxAttempt` on
gives up unless the server asked for an interval.

`Refinement` maps each access to the state to a step of `Link` and the rest to a
stutter. `Link` leaves open why a step is taken, not which one may follow which.

`InboxProofs` assumes `ThreadsAssumption` and `SizesAssumption` and proves, for
any finite set of consumers, everything that run `inbox` checks. `IInv`
strengthens with `WaitSet` (the condition's set is the threads at the wait),
`LeftToPush`, and `PatientTake` (a take that leaves its loop sees a message or
is late, and nobody can take that message while it holds the mutex).
`NoLostWakeUp` counts: a push raises the queue and announces a signal, the
signal turns a waiting thread into an awake one, and a thread falls asleep only
on an empty queue. `Refinement` maps push to `Mailbox!Push`, pop to
`Mailbox!Take` or `TakeNothing`, everything else to a stutter.

`ListenersProofs` assumes `MaxPartsAssumption` and `ListenersAssumption` (among
others, that no pattern is the empty channel, which `cometd_listener_add`
refuses) and proves all of run `listeners`, for any patterns, channels,
addresses, limit of parts, numbers of adds and depths of dispatch.

* `TableIsConsistent` is inductive with the types of the table. The lemmas
  `AppendOnce` and `RemoveOnce` say what the two list operations do to a list
  without repetitions: since a subscription occurs once, the first occurrence
  that `g_list_remove` takes out is all of them.
* `BornInOrder` says that the list of a channel is in the order of subscribing.
  It is the part of `DispatchesAsSubscribed` that has a history: an append puts
  the latest last, a removal leaves the order of the others.
* The rest of `DispatchesAsSubscribed` is about one state. `MatchesShape` gives
  the k-th candidate of a channel; the candidates are the patterns that select
  the channel, the k-th at distance k - 1 (`CandidateDistance`,
  `SelectedIsCandidate`); and the walk along them collects the subscriptions of
  the first i candidates, those of nearer ones first (`CollectStep`).
* `CallsShape`: every dispatch under way is within its copied list, whatever
  callbacks add, remove or dispatch in the meantime. `TypeOK` needs it.

`SubscriptionsProofs` assumes `SubscriptionsAssumption`. `TypeCorrect` holds for
any number of callers; its invariant `TInv` adds the consistency of the table
and what a call carries from start to end. The three theorems about agreement
assume that any two callers are equal, and run `two_callers` shows that they
need to. `OneInv` says of the one call: the count that an unsubscribe decided on
holds until its request has been answered (`CountHolds`); nothing is sent before
the first handshake (`NotSent`, `NothingYet`); a channel that the server granted
is one it has (`GrantedIsRemote`); an unsubscribe that will remove its listener
without the server's knowledge leaves another one (`LeavesAnother`). The last
two bridge the time between the server's step and the change of the table.

`DeliveryProofs` assumes `DeliveryAssumption` and proves every safety property
of its run for any number of listeners, messages and connections. `IInv` adds
to the properties that a receive thread exists only between connect and join
(`LoopLives`), that a thread is in `cometd_inbox_take` exactly when
`cometd_listen` called it (`TakesInsideListen`), that the mutex and the condition
are used from inside the inbox only (`LockInUse`), and the order of the shutdown
(`ClosingOrder`). `Composition` shows that `Delivery` implements both `Link` and
`Inbox`: whatever is proved of `Inbox` holds in the whole.

`DispatchesInOrder` is proved by composition. `BP` instantiates `InboxProofs` on
the variables of `Delivery`, so that its invariant holds of the inbox inside:
what was taken and what is queued are together the numbers 1 to the number
pushed, in order. `DInv` adds what is outside: no handler gets anything but a
message (`HandlersGetMessages`: a take that returns NULL dispatches nothing),
and a listener that is on its own has dispatched all that was taken but the one
message it holds (`AllInHand`), which it does from the pop to the dispatch.
`Drained` is behind `ListenDrainsTheInbox`: a take that returns NULL found the
queue empty after the test of the state that led to it, so `taken` had caught up
with `seen`. With two listeners `AllInHand` is false, and so is the order.

`TransportsProofs` assumes `TransportsAssumption` and proves every property of
its run. `NewestFirst`: the registry lists every transport that is not freed,
once and the newest first. The first one of a name is the minimum of a set of
positions; that it exists (`MinOfPositions`) follows from the library's theorem
that strict inclusion of finite sets is well founded. So the search finds the
newest transport of a name (`FindShape`), and the walk along the types of a
reply keeps the one found for the last type that has any (`Decided`,
`NegotiateShape`). That the one unregistered is the newest of its name
(`NewestFreedFirst`) follows from `NewestFirst` and `FindShape`; nothing is
assumed about who unregisters when. `OfferCount` is behind `OfferIsKept`: of the
transports of a name that were on offer as many are still held as were not
unregistered, an argument about cardinalities.

`MessagesProofs` assumes `MessagesAssumption` and proves every safety property of
its run for any number of callers, requests, messages of a payload and
extensions.

* `IInv` is about ids. Without a race one thread at most is between its read and
  its write of the seed, and the seed is the number of ids (`OneCounts`); in any
  case every value read or stored is one that all smaller ids have led up to
  (`NoneSkipped`).
* `SInv` is about sending: what a caller has built has an id and no mark yet, what
  stands ready to be posted (`Ready`) and what was posted has the marks of all
  outgoing extensions, once and in order; what the receive thread posts has none.
* `RInv` is about receiving: what is on its way has no marks, what a thread has
  shown to the extensions has all of theirs, once and in order (`CalledShape`
  is the walk along the extensions), and extensions change only while nothing is
  there to be seen.
* `FlowInv` is about where messages are. The stream of a thread is what it has
  handled followed by all that is on its way to it: for the listening thread its
  message, the inbox and the payload still to be pushed; for the receive thread
  its connect message; for a caller its answer. Numbers increase along each
  stream, each number received is in one stream, and a connect message is in the
  stream of the listening thread only if a later one of its payload is in that of
  the receive thread. Pushing, taking, showing and handling move messages within
  a stream; an answer or a payload adds to the ends. `EveryMessageHasOnePlace`
  and `PayloadsAreSplit` are what this says of the single places.

A walk along a list, such as `ChannelMatches`, `ListenerGet`, `Negotiate` or
`Called`, is a recursive function on 0..n. TLA+ defines it by a choice of a
function that satisfies the equation; that there is one is `WalkExists` in
`SequenceLemmas`, and what it computes after n steps is proved by induction on
n over a set of numbers (`SetInduction`).

Only model-checked: the liveness properties (`GivesUp`, `HandshakeReturns`,
`DisconnectReturns`, `EveryMessageIsTaken`, `EveryMessageIsDispatched`,
`ListeningEnds`, `EveryMessageIsHandled`), since the prover has no rules for
fairness and ENABLED. Every other property of the passing runs is a theorem. The
findings are counterexamples of TLC.

## 6. Not modelled

* The JSON layer and HTTP: wrappers of libraries, without state of their own.
  What they may return is in the replies of `Connection`, `Subscriptions` and
  `Messages`.
* The creation and configuration of a handle: straight-line assignments. The
  destruction joins and tests nothing: `Delivery` goes as far as the join of the
  listeners, after which no thread is left to use what is freed.
* The sample programs and `main.c`; `Delivery` follows the use of the library in
  `examples/stress.c`.
* Illegal orders of calls (disconnect before connect, twice, or from a callback
  on the receive thread), data races on C objects beyond the accesses to
  `conn->state` and `msg_id_seed` (advice, transport and client id among them),
  sending over a transport that was unregistered, and use after free: undefined
  behaviour without a result to state a property about; they are listed as
  hazards.
* Bodies of messages, error texts and the content of requests are abstracted
  away. The client id of a request is that of the session in which it was built
  (`Subscriptions`).

## 7. Plan

Done: all modules of the table in section 2, their runs, and the proofs of
section 5. Left:

1. Proofs: what `Subscriptions` promises as an abstract specification (a client
   and a server that agree on the channels between calls) and its refinement for
   one caller; the theorems about agreement under the weaker assumption that
   several callers use different channels.
2. A callback that sends: `Listeners` and `Subscriptions` composed on the
   listening thread, the reply being dispatched inside the call.
