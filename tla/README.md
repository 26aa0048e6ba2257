# Verification of webhook-processor

TLA+ models of the webhook processor, model-checked with TLC on small instances.
Every safety property the runs check is also proved with TLAPS, for every value
of the constants, and so is that calls, requests, deliveries and scripts' runs take
a bounded amount of work.

An HTTP server receives webhooks of an e-mail service (MailerCloud), answers
each with 200, 429 or 500, and publishes what it accepts to a RabbitMQ exchange.
Worker processes consume the queue behind it and store the events in MongoDB.
Both declare what they need of the broker when they start.

## 1. Inventory

| Component | Code | State | Operations |
|---|---|---|---|
| Event | `internal/models/webhook.go` | none | statuses pending, processed, failed, retrying |
| Event store | `internal/storage/mongodb.go` | the collection; indexes are not unique | `InsertEvent`, `UpdateEventStatus` |
| Topology | `internal/queue/rabbitmq.go` `DeclareTopology` | exchange, durable queue, optional TTL, optional dead letter exchange and queue, bindings | declare, at each start and reconnect |
| Queue | the same, and the external broker | where each message is | publish, deliver, ack, nack, expire |
| Worker | `internal/worker/processor.go`, `cmd/worker/main.go` | process and goroutines, deliveries in hand, loop counter | start, consume, process with retries, stop, exit |
| Publisher | `internal/queue/rabbitmq.go` `RabbitMQ` | `r.conn`, `r.ch`, shared by all requests without a lock | `Publish`, `reconnect`, `Close` |
| Webhook handler | `api/handlers/webhook.go` | one goroutine per request | limit, publish with retries, report, answer |
| Failure tracker | `api/handlers/failure_tracker.go`, `pkg/metrics` | a count per event key, and a gauge | `RecordFailure`, `RecordSuccess`, `Set` |
| Rate limiter | `api/handlers/rate_limiter.go` | per client a count and the start of its window | `AllowRequest` |
| Server | `internal/server`, `cmd/app` | process, listener | start, `Shutdown`, exit |
| Client mapping | `internal/mapping` | webhook id to client, filled once | load, look up |
| Router, authentication | `api/router`, `api/middleware` | none that is used | route, check key |
| Debug handler | `api/handlers/webhook_debug.go` | files that nothing reads | capture, limit, publish once, answer |
| Registration scripts | `scripts/update_webhooks.go`, `scripts/production/update_webhooks.go` | the remote service's webhooks | search, update, read, activate |
| Config | `config/config.go`, `config/config.yaml` | read once | `Load`: a file, and what the environment overrides |
| Logger, monitoring, nginx, deployment, diagnostics | | output, or configuration of other programs | |

How they interact. A handler goroutine calls the limiter (in memory, under a
mutex), then the publisher (a blocking call with sleeps inside), then the
tracker and the gauge. Which client a
request belongs to comes from a map that the server fills from the e-mail
service before it listens; the scripts change that service's registry from
outside. The publisher talks to the broker over one connection
with one channel. The broker pushes messages to the channel of each worker
process, where several `consumeLoop` goroutines take them from one Go channel.
A goroutine makes two database calls per attempt, and settles the delivery on
the shared AMQP channel. Nothing but the queue connects server and workers, and
both name and configure it from settings of their own. `WEBHOOK_DEBUG` puts the
debug handler in the place of the webhook handler when a server starts.

What is hard, and what makes each part correct:

* **Worker.** Goroutines interleave with each other, with the broker and with
  the shutdown; the process may die between any two calls; a connection may be
  lost with deliveries in hand; a database call may take effect although it
  reports an error. Correct means: no event is acknowledged that is neither
  stored nor given up after all attempts; no delivery is settled twice; a stop
  is no reason to give an event up; what does not decode stays apart; a delivery
  that is not settled is in somebody's hands; errors bring no message back;
  everything is settled in the end and every stop ends.
* **Publisher.** All requests reconnect on their own, with no lock. Correct
  means: `Publish` recovers from any state earlier races left, returns whatever
  happens, and leaks a connection only where reconnects overlap; `Close` leaves
  none open that was there.
* **Handler, tracker, gauge.** The count and the gauge are set in two steps by
  concurrent requests; a sender may hang up; the process may restart. Correct
  means: the count is that of the failures since the last success, the gauge
  agrees when no reports overlap, every request let in is answered.
* **Delivery.** A server is stopped under its requests and told nothing by the
  broker of what it has written; a sender repeats what was not answered with
  200. Correct means: a refused request has put nothing into the queue, one
  answered with 200 is there until it is dealt with, only unheard answers make
  duplicates.
* **Topology.** Processes with settings that differ declare in any order, call by
  call, and are refused, cut off or stopped half way; a TTL is cut to 32 bits.
  Correct means: who has been up has a way through the broker, dead letters and
  TTL included, and may declare it all again; whoever is refused is refused for
  what a configuration says, and not for the order in which processes start.
* **Limiter.** The window is 24 hours from a client's first request, by a wall
  clock that may be set meanwhile. Correct means: a bound on any 24 hours, and no
  refusal that is not deserved, but for what the clock was set.
* **Mapping.** Fetches fail, pages are cut, webhooks are registered later, a body
  may name a client, and a header may hold any text. Correct means: a webhook's
  requests are all charged to one client while the process lives, webhooks that were
  fetched share their client's limit and spend no other, and nobody else spends it
  without writing that client's name, which the code accepts.
* **Scripts.** Runs overlap with each other and with the users' edits; requests
  are lost, refused or take effect unheard. Correct means: what a run logs as
  completed is, or was warned of, an error with one webhook costs no other, and an edit is undone
  only where the search is out of date.

Every hazard is listed in `PROJECT.json`, at its line and with the properties that
watch it, or with the reason why none does.

## 2. Modules

| Module | What it is |
|---|---|
| `Events` | messages, webhook ids, what does not decode |
| `EventStore` | the collection and the two database calls |
| `Broker` | places of messages, channels, prefetch, settling, dead lettering, TTL |
| `Worker` | the worker processes over `EventStore` and `Broker`; its properties, its inductive invariant, its fairness |
| `WorkerHistory` | `Worker` with counts of deliveries and failures per message |
| `AtLeastOnce` | the abstract specification `Worker` implements |
| `Publisher` | `Publish`, `reconnect`, `Close` with any number of goroutines |
| `RateLimiter` | `AllowRequest` |
| `MailerCloud` | the e-mail service's registry of webhooks, as the code calls it |
| `Intake` | the router's and either handler's checks, the mapping, whose limit a request meets; over `MailerCloud` and `RateLimiter` |
| `WebhookSync` | runs of the registration scripts, over `MailerCloud` |
| `EventID` | `generateWebhookID` |
| `FailureTracker` | the tracker and its gauge |
| `Ingress` | a request from the limiter to the answer, with either handler; over `RateLimiter`, `FailureTracker` and `EventID` |
| `Delivery` | `Ingress` in a server that is stopped and restarted, and `AtLeastOnce` behind it: from the sender to the collection |
| `Config` | `Load` as far as the queue goes, and `int32` |
| `Topology` | processes that declare what they need, with settings from `Config` |
| `*_proofs` | theorems about the module of that name; `Worker_proofs` has the refinement too |
| `MC*` | small instances, and the claims of the repository's texts that runs refute |

An operator whose comment begins with "Variant" is no part of a model. It is a
definition with a plausible bug in it, kept to show that the properties notice.

### Worker: correspondence to the code

Every call to the database or the broker is a step of its own, and so is every
branch between two calls. A goroutine's `pc` says which call comes next:

| `pc` | next call | actions |
|---|---|---|
| `idle` | the `select` of `consumeLoop` | `Receive`, `ExitLoop` |
| `reject` | `Nack(false, false)` | `RejectMalformed` |
| `insert` | `InsertEvent` | `Insert` |
| `update` | `UpdateEventStatus(processed)` | `MarkProcessed` |
| `mark_retrying` | `UpdateEventStatus(retrying)`, error ignored | `MarkRetrying` |
| `backoff` | the `select` on `ctx.Done` and the timer | `Retry`, `NackOnShutdown` |
| `mark_failed` | `UpdateEventStatus(failed)`, error ignored | `MarkFailed` |
| `ack` | `Ack(false)` | `AckMessage` |
| `exited` | the goroutine has returned | |

`main` is `StartWorker`, `Signal`, `StopConsuming` (the goroutine `Start` leaves
waiting) and `Exit`. The environment is `Publish`, `DeliverTo`, `ExpireMessage`,
`Crash` and `Disconnect`. Choices made:

* A database call under a cancelled context fails and has no effect; the driver
  checks the context before it writes. One that completes while the
  cancellation arrives is the same as one that completed just before it. Any
  other error may or may not have taken effect.
* `UpdateOne` may pick any document with the webhook id.
* The queue is the set of ready messages: requeued messages and several
  consumers leave no order to rely on.
* Ack and nack on a lost channel do nothing: the code drops the error they
  return.
* A worker that cannot connect at start exits with `Fatalf`, which is the same
  as not starting.
* A lost connection is not noticed by `main`, so its process stays up with all
  its goroutines returned (`Stalled`).

### Publisher: correspondence to the code

`check_conn` and `check_ch` are the two parts of the condition in `Publish`,
`close_channel` to `set_ch` the statements of `reconnect`, `send` the call of
`PublishWithContext`, `backoff` the sleep and the loop. Each statement that
reads or writes `r.conn` or `r.ch` is a step. The two fields are words that a
goroutine reads whole; Go's memory model allows more for unsynchronised
accesses, and that is not modelled. A channel stands for the connection that
opened it, so both go by one name. `Conns` is the broker's limit on open
connections: a leak uses it up, and `Dial` then fails though the broker is up.
`Close` is `CloseChannel` and `CloseConn`; a call that is still running, or comes
later, opens a new connection that nothing will close. The history `reopened` says
that there was such a call, and `CloseClosesAll` that without one, and without
overlapping reconnects, nothing stays open.

### Mapping and checks

`Fetch` and `FetchFails` are one turn each of the loop in
`LoadMappingFromEnvironment`; `toLoad` is what is left of its range over a map,
which has no order. An empty `MAILERCLOUD_API_KEYS` is an empty `Configured`.
`Posts` is what the decisions read of a request: the router's validation check,
its API key check and the handler's checks of the body are `IsValidation`,
`Authorised` and `IsEvent`. With `debug` set the handler is the one of
`webhook_debug.go`: it takes a test body for an event, and the client from the body
if there is no `Webhook-Id` (`ClaimOf`; `Claims` bounds what bodies name). A
restart may choose the other handler. The `Webhook-Id` is any webhook's, any text of
`Claims`, the names of clients among them, or missing: the router lets any text
through, and `ByHook` charges one that is not mapped to the client of that very
name. A webhook that users delete sends nothing more, and
is not modelled.

### Scripts

`pc` is the request a run is at, one per call of `makeRequest` in
`processWebhooks`; a try of it is a step, and so the runs interleave between any
two tries. `list` is what the search returned, so `webhook` holds a URL, a name
and events that may be out of date. A write may take effect although its answer
is lost. A PUT that is answered with 200 has taken effect, which the code takes on
trust; a toggle may have none, which is why the code reads the status again. A
status that does not read as active is a warning (`warned`), after which the
webhook is logged as completed all the same. The service is outside the repository: `MailerCloud` assumes that it
does what the requests say, and that a request whose answer was lost does not
take effect later. A script handles one client per account.

### Limiter, tracker, handler

The limiter compares times of `time.Now().UTC()`, which has no monotonic reading: a
day is one of the wall clock `now`. `Tick` is the passing of time, and `SetClock` the
setting of the clock, forward or back, by an operator or NTP. The histories `elapsed`,
`jumps` and `back` keep the real time, how often the clock was set forward, and by
how much in all it was set back. `WindowBound` and `RefusedOnlyWhenSpent` are about
real time, and say what each setting costs.

`AllowRequest` and the tracker's methods hold a mutex and are one step each. The
gauge's `Set` comes after the mutex is released, and is another. A request
starts where its payload has been parsed and is no validation request. Its client
is a constant of the model, `ClientOf`, and so is the part of its `Payload` that
`generateWebhookID` reads. `LabelsOf` has the labels of a request's gauge, and `KeyOf` the
text `failureKey` makes of them, which two pairs of labels may have in common
(`Shared`): the constant `failureKey` says which text a pair becomes. `HangUp` is a sender
lost at any time, under the handler or under the answer on its way. A call of `Publish` is one step
that returns nil or an error; that it returns is `Publisher`'s `EveryCallReturns`.
With `debug` set, `DebugPublishOK` and `DebugPublishFails` are all that follows the
limiter: one call, and no tracker. `Restart` loses the requests in progress and
all that is in memory. The history `cleared` has the requests whose failure was counted
before a success of their key. `isPremium` and `webhookCount` are never set by any code, so
the branches on them are left out.

### Delivery

`server` says how far `Shutdown` has got:

| `server` | what has happened | actions |
|---|---|---|
| `up` | the server listens | `ClosePublisher`, `Crash` |
| `closing` | the publisher is closed, the listener not | `CloseListeners`, `Crash` |
| `draining` | `http.Server.Shutdown` waits for requests, 5 seconds at most | `ListenerFails`, `ShutdownReturns` |
| `exiting` | `ListenAndServe` has returned, `main`'s goroutine is at `Fatalf` | `FatalExit`, `ShutdownReturns` |

Every exit is `Ingress`'s `Restart`. `Arrive`, `Publish`, `PublishErrs` and `Handle` are
the steps of `Ingress`, with what they do to the queue. The queue is
`AtLeastOnce` by `INSTANCE`, with the requests for messages, which is what `Worker` is proved to
implement. A `Publish` that returns nil may leave its message `vanished`: frames
were written to a connection that was lost under them, and without publisher
confirms nobody learns of it. One that returns an error has not written all
frames, so the broker drops what it has of them; that is an assumption about
the AMQP library and the broker. `Repeats` is the sender: it sends an event
again until it hears 200. What `Publish` does after `Close` is in `Publisher`.

### Topology

A step is one call of `DeclareTopology`, so processes interleave between any
two; `step` counts them. `settings` is what `Load` made of a file and an environment
(`Deployments`), and a process may find other settings at each start. Start and
`Refused` in `starting` are `main`'s and its `Fatalf`; `cut` is a server or worker whose
connection is gone, `reconnecting` a server in `reconnect`. The broker is external:
`Accepts` has its rule that a declaration agree with what is there, and that a
TTL is not negative; `Routes` has its direct and fanout exchanges. `Delete` and
`Recreate` are an operator's. `Half` stands for 2^31, so that the cut to 32 bits
happens at small numbers. Only arguments of the queue that the code passes are
modelled; names of hosts, credentials and prefetch play no part in it.

## 3. Runs

| Run | Instance | Shows |
|---|---|---|
| `worker_faults` | 1 worker with 2 goroutines, an event and a message that does not decode, 3 attempts, a dead letter queue, no TTL; 3 database faults, one crash, lost connection and signal | nothing is lost, settled twice or wrongly marked failed; the poison stays apart; an acknowledged event says "processed"; no delivery is stranded (`NoneStranded`); the inductive invariant holds |
| `worker_connection` | 2 workers, 1 event, 3 attempts, 3 deliveries; 3 database faults, 1 lost connection, 1 signal | `Worker` implements `AtLeastOnce`; documents <= deliveries + failures; a loss takes `MaxRetries` failures; without a signal, deliveries <= 1 + crashes + lost connections (`RedeliveryBound`) |
| `worker_liveness` | 2 workers, 1 message, TTL, no dead letter queue, fair; a database fault, a crash, 2 lost connections, a signal | every stop ends; only if all workers stall is a message left unsettled |
| `publisher` | 2 goroutines, 3 connections, 3 attempts; outages, losses and calls without limit, `Close` | calls recover, get nearer to their end with every step (`CallsEnd`), and return; leaks come of races; `Close` closes all but what is made after it |
| `intake` | 3 webhooks of one account, pages of 2, 2 clients, one of which headers and bodies may name, limit 2, day of 2 ticks, 4 ticks of time, the clock set once, by 2 forward or 1 back, restarts with either handler | who shares a limit and who may spend it; one client per webhook; the bound on a window and the grounds of a refusal, and what setting the clock adds |
| `webhook_sync` | 2 runs, 2 webhooks of one account in any condition, 2 tries, an edit of one of them | completed means done or warned of; errors stay with their webhook; edits lost only in flight; every step of a run leaves it less to do (`RunsEnd`) |
| `delivery` | 2 requests with one event, 2 attempts, limit 1, one day; a sender that repeats and hangs up, shutdowns, crashes, restarts with either handler | what each answer is worth (`AnswersHold`); where duplicates come from; exact counts (`FailuresCounted`); when the gauge may be wrong; every request let in is answered |
| `topology` | a server and a worker, 5 deployments, one fault, one act of an operator | who has been up is wired, dead letters and TTL included, and may declare again; who starts gets up or is refused; a refusal has its cause in a configuration (`RefusedForCause`) |
| `worker_dlq`, `delivery_gauge`, `delivery_shutdown`, `topology_drift` | | refute a sentence of the repository, see below |

Bounds. Faults are bounded per kind by `MaxFaults`: three database faults use up
the code's three attempts of one event, one crash or lost connection
redelivers what was in hand, and two lost connections stall both workers. Two
goroutines or two workers are the fewest that interfere; two events that share a
webhook id are in no run, and left to the proof of `FailedEarned`. Their
queues differ: without a TTL only a rejection dead-letters a message, which is what
`PoisonSeparated` is about; with one, in `worker_liveness`, a message may expire under
everything else that happens.
`worker_connection` has one event, since what it counts is per event. Two
publishing goroutines are the fewest that race, and three connections let one
leak while `r.conn` and `r.ch` refer to two others. The limiter's time passes two
resets, and `WindowBound` spans three windows; its limit is 2, the least in which a
window is neither new nor spent, and the clock is set once, as the theorems cover
any other number of times. The constraint
`OneClientOverTime` lets time pass only for states in which one client's requests
have been let in: limits of different clients have nothing in common, and what
their webhooks share is seen before the clock moves. A third webhook on a page of two leaves one unlisted
while two share, which is the least that can break `LimitsShared`. Two tries show
a write repeated and one given up; two webhooks on one list, an error before the
end of it. Two requests with one event race on its gauge, are copies of each
other, and fail one attempt or both. The five deployments are the repository's
file, its development environment with the longest TTL that fits, a TTL that is
negative when it is cut, one dead letter exchange that is the primary exchange,
and no dead letters with a TTL that is cut short; two processes take any two of
them, and one fault cuts either off half way. Symmetry is used only in
`worker_connection`, `intake` and `webhook_sync`, which check no
formula with fairness, and only over sets whose members the model does not tell apart.

`CHECK_DEADLOCK` is off where a system that has done all its work, or spent all
its faults, rightly stops.

Fairness. Goroutines are scheduled, so each has weak fairness on its own steps.
The container runtime restarts an exited worker (`restart: unless-stopped` in
`docker-compose.prod.yml`), the broker delivers to a consumer with room, the
goroutine that cancels the consumer and the deferred calls of `main` run: weak
fairness on `StartWorker`, `DeliverTo`, `StopConsuming`, `Exit`. Weak is enough, as
each stays enabled until it is taken. No fairness is assumed of publishing, of
signals, of faults or of a sender. That messages are settled rests on
the limit on attempts, not on the database: one that fails for ever still has
every message settled. `Publisher`, `Ingress` and `Delivery` assume only that a
goroutine in a call goes on, and that the AMQP library's calls return. Of the
workers `Delivery` asks nothing: they may all have stalled, so that an accepted event
is settled is said by `worker_liveness` alone, with its exception.
`Topology` has weak fairness of each process's own steps, its restart by the container
runtime included.

## 4. Findings

Where the runs contradict a text of the repository:

1. *"After retries, the message should land in the DLQ"*
   (`.github/copilot-instructions.md:168`). `processDelivery` acknowledges it
   (`processor.go:170`), so the dead letter queue receives only what does not
   decode or has expired. Run `worker_dlq`.
2. *"Tracks consecutive ingress failures per webhook"*
   (`pkg/metrics/metrics.go:42`). The key has the id of the event in it
   (`webhook.go:334-336`), so different events of a webhook count apart. Run
   `delivery_gauge`.
3. *"Health checks and graceful shutdowns"* (`README.md:19`). The goroutine that
   runs the listener calls `Fatalf` for whatever error `ListenAndServe` returns
   (`cmd/app/main.go:26`), and `http.ErrServerClosed` comes as soon as `Shutdown` has
   closed the listener: the process exits under the requests that `Shutdown` is
   waiting for. Run `delivery_shutdown`. The metrics server's goroutine does
   exclude that error (`server.go:56`).
4. *"`DeclareTopology` will recreate the topology if it drifts"*
   (`.github/copilot-instructions.md:149`). What was deleted is declared again, but
   a queue with other arguments is in the way: the broker refuses, and the process
   exits or its `reconnect` fails until somebody removes the queue. Run
   `topology_drift`.

Worth knowing, though no run refutes a text with it:

* A worker that has lost its connection stays up and consumes nothing (`Stalled`).
* Overlapping reconnects leak connections until the broker refuses more.
* A sender that hangs up ends the retries early (`webhook.go:320-321`), so a 500
  may come before the attempts are exhausted (`copilot-instructions.md:165`).
* Until its consumer is cancelled, a worker that stops may be given the message it
  has just handed back, and hand it back again, any number of times: the
  goroutines and the one that cancels (`processor.go:76`, `:156`) are not ordered.
  `RedeliveryBound` excepts a shutdown for this.
* A 200 says that the frames were written. A connection lost at that moment loses
  the event, and `AnswersHold` has to except it (`vanished`).
* The gauge may stay wrong after overlapping reports of one key.
* The limiter's window starts with a client's first request and not with a new
  day (`rate_limiter.go:52`, `:61`): one day may see nearly twice the limit. All
  limits are forgotten at a restart.
* A day is measured by the wall clock (`rate_limiter.go:52`, `:58`), since `UTC()` drops
  the monotonic reading. Setting the clock forward lets one more limit in; setting
  it back prolongs the window, and refusals with it, by as much.
* A `Webhook-Id` that no mapping knows is charged to the client of that name
  (`webhook.go:372-377`), and any text stands in for an API key (`router.go:116`): whoever
  sends a configured client's name spends that client's limit. `ChargedToOwner`
  says so, and that a fetched webhook's own requests never do it.
* A call that reconnects after `Close`, or under it, leaves a connection that nothing
  closes until the process ends (`server.go:67`).
* A webhook that is still inactive after the toggle is a warning in the log, and
  "completed successfully" after it (`update_webhooks.go:363-372`). A search that is
  refused is an empty list, and logged like one (`:176`).
* The debug handler lets a request without a `Webhook-Id` choose the client it is
  charged to, if it has an API key.
* The environment can change a name the file gives and can never clear it; a
  deployment without dead letters needs another file. A TTL is cleared by a zero.
* A dead letter exchange with the name of the primary exchange is refused, after
  the queue has been declared to use it. The queue stays, and is in the way of the
  corrected settings.
* A TTL of 2^31 ms or more is refused or, from 2^32 ms, shortened.
* An operator who deletes the queue or its binding under a running server makes it
  drop messages and answer 200.

## 5. Proofs

Every theorem is about the specification without its fairness, for any values of
the constants that satisfy the named assumptions of the modules.

**Worker.** `Worker_proofs` proves `Spec => []IndInv` and from it type
correctness, `SettleOnce`, `AckedAccountedFor`, `FailedEarned`, `PoisonSeparated`,
`ShutdownCostsOneAttempt` and `NoneStranded`, for any sets of messages and workers and any
`Concurrency`, `MaxRetries` and `MaxFaults`. No safety property is inductive by
itself:

* `SettleOnce` needs to know that deliveries on different channels are disjoint
  (`UnackedInv`), that what a process has buffered is still unsettled while its
  channel is open (`HeldInv`), and that a closed channel has nothing to settle
  (`ChannelsInv`).
* `AckedAccountedFor` needs to know that a goroutine about to acknowledge has
  stored its event or used up its attempts (`AchievedInv`), which rests on the
  documents' `msg` field never changing, and on `LoopInv` for the range of the
  loop counter.
* `ShutdownCostsOneAttempt` needs `PaidInv`: a goroutine on attempt n has seen
  n - 1 database faults, unless the context is cancelled, in which case it has
  no further attempt.
* `AckedProcessed` needs `ProcessedInv`: while no connection has been lost, one
  goroutine at most holds a message, and what it has stored says "processed" or is
  its own to mark.
* `NoneStranded` needs `ChannelsInv`, and `LoopInv` for a goroutine's `pc` and `msg` to go
  together. Its second half, that no goroutine of a running process with an open
  channel has returned, is what makes the first worth having: somebody is at work
  on what the process holds.

There is one lemma per group of actions and one step per conjunct that an action
can disturb. Lemmas about `EventStore` state what a database call does to the
documents.

**Counts of the worker.** `WorkerHistory_proofs` proves `DuplicateBound` and
`LossBound`. A lemma (`Shape`) says what a step may do to the documents of one
message, its holders and its counts. `DuplicatesInv` counts, with the documents, the
goroutines that may still insert one: together they are no more than deliveries
and failures. `FailuresInv` charges a goroutine's lost attempts to the failures.
Cardinalities need `Workers` to be finite. `RedeliveryBound` is not inductive,
since a message that waits, or is in a buffer, will be delivered once more
without any new fault. `RedeliveryInv` counts these with the deliveries made, and
says that without a signal no process is stopping, so that nothing is handed back.

**Refinement.** `Worker_proofs` also proves `Spec => KeepsPromise`, the mapping of
`Worker` to `AtLeastOnce`. Each step of `Worker`, under `IndInv`, is an `Attempt`, a
`Settle`, a `Send` or invisible.

**Publisher.** `Publisher_proofs` proves type correctness,
`UndisturbedCallSucceeds` and `OrphansComeFromRaces` for any number of goroutines,
connections and attempts. `UndisturbedInv` follows a call that no reconnect, close
or fault has disturbed: it is at its first attempt, and the channel before it is
open. For leaks, `FreshInv` says which goroutines hold a connection that has no
name yet, and `SoleInv` that, until two reconnects overlap, one goroutine at most
replaces the connection and finds the old one closed when it does. `CloseClosesAll`
follows with `CloseInv`: while `Close` is under way and no call reconnects, what is
open is `r.conn`.

**Limiter.** `RateLimiter_proofs` proves `WindowBound` and
`RefusedOnlyWhenSpent` for every limit, length of day, set of clients and sequence of
clock settings. The bound is not inductive: `WindowInv` adds where the window of an
entry begins in the sequence of admissions, how far the clock may be from its
start against the real time since (`ClockSince`: behind by what it was set back, ahead
only if it was set forward), and that all that was let in more than one limit before that,
or one more per setting forward, is a day older (`Spaced`).

**Mapping and checks.** `Intake_proofs` shows that `Intake` uses the limiter as its
own specification says, so that its theorems carry over, and proves
`OneClientPerHook`, `ChargedToOwner` and `LimitsShared`. The invariant is that once
the mapping is loaded each charge is what the mapping would charge today, and that
an entry of the mapping was fetched from its owner's account. `LimitsShared` counts
clients and unlisted webhooks, which takes finite sets. That names of webhooks and
clients differ is assumed nowhere.

**Delivery.** `Delivery_proofs` proves `AnswersHold`, `DuplicatesUnheard`,
`GaugeShowsCount` and `FailuresCounted` for any finite set of requests, with any
clients and payloads. `SentInv` ties what is in the queue to where its request
is, `CopiesInv` says of two copies of an event that one was unheard when the
other was let in. `HandlerInv`, `GaugeInv` and `CountInv` follow a key from the
tracker's count over the count a goroutine carries to the gauge, while reports
do not overlap. `CountInv` is exact: the count is the number of failures reported and not
in `cleared`, which a success fills and nothing else. `ImplementsIngress` and `QueueKeepsPromise` show that `Delivery` takes
only steps of `Ingress` and, on the queue, of `AtLeastOnce`, which `Worker` is proved to
implement: the specification through which server and workers are joined is met
on both sides.

**Topology.** `Topology_proofs` proves `WiredOnceUp`, `DeadLettersKept`, `TTLHonoured`,
`RedeclareAccepted` and `RefusedForCause` for any processes and settings with
integer TTLs. The invariant is that, while no operator interferes, no two things of one name differ
in the broker, that no TTL in it is negative, and that it has what each process has got
through so far, and all of it once the process has been up. `RefusedForCause` adds
that all the broker has is in some configuration, and that a binding is never
refused, as what it binds is declared before it. From it follows `NoneRefused`: processes
whose configurations agree on what they name, and have no negative TTL, never keep
each other from starting, in any order, with any restarts. No run checks it, since
the five deployments do not agree.

**Scripts.** `WebhookSync_proofs` proves `CompletedMeansFixed`, `EveryHookHandled` and
the action property `EditsLostOnlyInFlight` for any runs, clients, webhooks, tries and
edits. `PlacesInv`: a webhook a run has found is listed, in progress, completed or
failed, and never two of these, as each account is searched once and each
webhook has one owner. `ToldInv`: what the search said and what the run has
written still stands, unless others have touched the webhook, and what it has
completed is active or was warned of.

**Bounded work.** Four action properties say that nothing goes round for ever:
`DeliveriesEnd` (a goroutine's work on a delivery), `CallsEnd` (a call of `Publish`),
`RequestsEnd` (a request) and `RunsEnd` (a run of a script). Each gives the actor a
measure, a number or, for the scripts, a tuple in lexicographic order; every step the
actor takes lessens it, and no step of others, no fault and no restart raises it. They
are proved for any number of retries (`DeliveriesAreBounded`, `CallsAreBounded`,
`RequestsAreBounded`, `RunsAreBounded`). That is the part of termination that
the loops' counters are responsible for. `RunsEnd` needs `Hooks` and `Accounts` to be
finite, which the service's registry is. `DeliveriesEnd` and `RequestsEnd` are
proved and in no run.

The type invariants of `Worker`, `Publisher`, `Topology`, `Intake` and `WebhookSync` are
proved and are not listed in the runs; the properties there would not make sense
in a state that broke them.

Only model-checked is all liveness, since TLAPS 1.4.5 handles neither fairness nor
`ENABLED`: that the next step comes at all, and so that messages are settled, stops
end, calls return, requests are answered and processes get up.

## 6. Not modelled, and the plan

Left out for good: logging, metrics other than the gauge, wording of answers,
nginx, monitoring, deployment; the files and the analysis the debug handler
writes, which nothing reads; the diagnostic and test scripts, which print what is
there; the settings that only say whom to talk to; `GetFailedEvents`, `HealthCheck`,
`StartMetricsUpdater`, `DeclareClientQueue` and the middleware's authentication and
token bucket, which nothing calls or installs.

What could follow, in order:

1. `Publisher` in the place of the one step `Publish` in `Delivery`, so that an
   error after `Close` and an error of the broker are told apart.
2. Topology and delivery in one model: what is published while a queue is deleted
   is dropped by the exchange.
3. A webhook that users delete while a script has it on its list.
