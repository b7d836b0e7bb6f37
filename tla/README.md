# TLA+ models of cli-cpp

cli-cpp is three command-line AMQP clients written on Qpid Proton: a **sender**, a
**receiver** and a **connector**. Each is one process with one thread: Proton's event loop
calls the methods of a handler class, one at a time, when something arrives from the peer
or when a job that was put on a work queue is due. The programs are small; what is hard
about them is the order in which those calls come. A countdown, a polling job, credit,
outcomes, closes, transport failures and reconnections interleave freely, and the tests
(`src/src/common/test`, `src/src/common/*/test`) cover only options, logger, printer and the
bean and STL helpers.

The modules here are translated from the sources under `src/`. All paths below are relative
to the repository root, all names are those of the code.

## Inventory

| component | state | operations | module |
|---|---|---|---|
| sender client: `SendingClient::run`, `SenderHandler` | `count`, `interval`, `timer`, `ready`, `sent`, `confirmedSent`; on Proton's side the work queue, the link's credit, the unsettled deliveries | `on_container_start`, jobs `timerEvent` and `checkIfCanSend`, `on_sendable`, `on_tracker_accept`/`reject`, `on_transport_*`, `on_connection_*`, `send` | `Sender`, abstract `SendJob` |
| receiver client: `ReceivingClient::run`, `ReceiverHandler` | `timer`, `msg_received_cnt`, `senders` (reply links), `recv` | `on_container_start`, jobs `timerEvent` and `drain`, `on_message` with `do_message_action` and `do_process_reply_to`, `on_transport_*`, `on_connection_*` | `Receiver` |
| connector client: `ConnectingClient::run`, `ConnectorHandler` | `timer`, `objectControl`, `sessionObj`, `senderObj`, `receiverObj` | `on_container_start`, `on_connection_open`, job `timerEvent`, `closeObjects`, `on_session_error`, `on_transport_*`, `on_connection_*` | `Connector` |
| countdown: `common/Timer` | `timeout`, `remaining` | `reset`, `isExpired`, `operator--` (may throw) | `Timer` |
| options: `*OptionsParser`, `run()` | the option values | defaults, `validate`, `configure_reconnect` | `ClientSetup`, `ClientOptions`, the `...Fields` operators |
| command line: `OptionParser::parse_args` (vendored), `ModernOptionsParser` and the parser of each client | `_remaining`, `_values`, `_leftover`, the strings of the callbacks | `handle_long_opt`, `handle_short_opt`, `process_opt`, `validate` | `OptionParser`, tables in `ModernOptions` |
| message: `setMessage*`, `nameVal`, `StringAppendCallback` | the joined string, the message | `append`, `getStrings`, casting | `MessageOptions`, `ClientSetup` |
| `UriParser` | the parts of the URI | `parse` | `UriParser` |
| formatting: `ReactorDecoder`, `AbstractDecoder`, `DictWriter`, `DictFormatter` | an output stream | decode and write a message, in the "dict" and the "interop" format of `--log-msgs`; both may throw | `Formatting`, `MessageLog` |
| logger, printer, tracing, `Utils`, `STLUtils` | -- | output and small helpers | not modelled: nothing reads their effects back |
| Proton: work queue, event loop, reconnection | pending jobs, connections, links | `schedule`, the callbacks | external, `WorkQueue` and the connection actions |

**How they interact.** `run()` turns the command line into the fields of a handler
(`ClientOptions`, `SenderFields`, `ReceiverFields`, `ConnectorFields`: the options the
control flow depends on, with the default for an option that is absent) and calls
`container.run()`. From then on Proton calls the handler. Every handler owns a `Timer`; its
job `timerEvent` decrements the timer, schedules itself again after a second, and ends the
process (or, in the connector, closes the connection) when the timer has expired. Sender and
receiver reset the timer when they make progress. The handlers of a client share nothing
with other clients except through the broker, or, when a receiver listens
(`--recv-listen true`), through the connection a sender makes to it: `PeerToPeer`.
Sender and receiver print each message they send or are handed, in the middle of
`SenderHandler::send` and at the start of `ReceiverHandler::on_message`.

**What is hard, and what makes each part correct.** The full list, with lines, is
`hazards` in `PROJECT.json`. In short:

* *Sender.* Two triggers send: the polling job `checkIfCanSend` and `on_sendable`, which
  takes over when polling found no credit and left `ready`. They must not send a message
  too many (`NeverOversends`), must not stop with messages unsent (`ChainsAlive`,
  `DeliversAll`), and the connection may be closed only at the last acceptance, however
  acceptances and transport failures interleave (`CloseMeansDelivered`). All of that
  together is the abstract specification `SendJob` (`ImplementsJob`). The countdown must
  not end a client that has just sent (`PatientTimer`), nor one that only waits for its
  pacing slot (`PacingFitsTimeout`), but must end a client the broker has abandoned
  (`TimesOut`).
* *Receiver.* Messages in flight are still handed over after the handler has closed or
  detached its link; they must not move the count past the limit (`NeverOverreceives`), the
  client must stop at it (`StopsAfterCount`), and the countdown has the obligations it has
  in the sender (`ChainsAlive`, `PatientTimer`, `TimesOut`). A client that unsubscribes has
  no countdown and depends on the answer of its peer (`UnsubscribingEnds`).
* *Connector.* `on_connection_open` starts the countdown each time it is called, and Proton
  calls it again after a reconnection; `closeObjects` may run before the connection opens
  and more than once. The connection must be held for the timeout (`HoldsForTimeout`) and
  then be given up (`CountsDown`, `GivesUp`), with nothing left open (`ClosesEverything`).
* *Both clients without a broker.* Each closes the same connection at its own count, while
  messages, outcomes and the other close are on their way, and the sender may reconnect. What
  it counts as confirmed must have been accepted (`ImplementsDelivery`), credit and deliveries
  must add up across the two processes (`Conserves`), a sender that ends well must have
  delivered (`SuccessMeansDelivered`), and both must end (`BothEnd`).
* *Formatting.* A line is put together piece by piece: quotes, escapes, commas, brackets and
  the text for what is missing are each the business of another function, in two
  implementations. Python must read back what the message says (`DictReadsBack`,
  `InteropReadsBack`). A printer that threw between the sending of a message and its being
  counted would make the client send it twice (`CountsWhatItSends`).

## Modules

`Timer` and `WorkQueue` are operators on a timer record and on a queue. A queue counts, for
each job and each remaining delay in ticks, the pending jobs, so two chains of one job are
distinguishable from one. `SECOND` ticks are a second. `Tick` lets time pass for all
waiting jobs; a runnable job may stay runnable while time passes, because the event loop can
be late (also because a handler blocks in `sleep4next`).

`ClientOptions` holds what the three `run()` methods share, among it the reconnection
setting: `configure_reconnect` passes its options object to Proton only when none of the
tuning options is used.

`Sender`, `Receiver` and `Connector` have one action per callback and job, named as the
method, and one per event of the peer or of Proton that has no method here
(`ConnectionOpens`, `TransportCloses`, `Arrives`, `RunReturns`, `Tick`...). A call to
`exit()`, an exception that ends `container.run()` and the return of `run()` are all
`Exit(code)`; afterwards nothing happens (`Exited`), so TLC checks for deadlock everywhere.
A path through a handler is one disjunct, its early returns are the guards. History
variables (`quiet`, `age`, `forgotten`, `line`, `opens`, `sessionFailed`) record what the
properties talk about and no action's guard reads them, with one exception: `opens` caps the reconnections of `Connector`.

`SendJob` is what a sender promises: submit at most `goal` messages, report confirmations,
be complete at the last one and silent from then on. `Sender` implements it under
`goal <- conf.count`, `submitted <- sent`, `confirmed <- confirmedSent`, and a `phase` read
off `conn` and `status`.

`ClientSetup` is what happens before: `run()` of each client from its arguments to the
handler. It is a state machine over the arguments still to come: `OptionParser` has one action
per kind of argument (long option, short option, plain argument, `--`, none left), `run` then
validates, takes the credentials and collects what the handler is set up with, of the sender
the message. Which client it is, is part of the state (`parser`). Every error of the parser or
of `validate` is `exit(2)`; the model tells them apart as "usage error" and "invalid".
`ModernOptions` lists the options by how the parser takes them, `MessageOptions` and
`UriParser` are the functions on strings, over the `std::string` calls in `Strings`. A string
is a sequence of symbols, each a delimiter or a word; which words are numbers, have an "e" or
a "." in them, or spell a Boolean is a constant.

What a command line *means* is kept beside what it is: a line is a sequence of settings, each
with the option, the value, the style it is typed in and, for items and URLs, what the user
means by it, and `Typed` turns it into arguments. The value of a URL is `Spelled` of its meaning,
a record of scheme, credentials, place, topic and query; `IsUrl` says which delimiters may stand in each. The properties compare what the client makes
of the arguments with the settings, so they are not a second parser.

`Formatting` holds the two printers as functions from a message to text, again a sequence of
symbols, and the predicates that say when they throw. The `dict` printer is `ReactorDecoder` writing
through `DictWriter`: `decodeHeader`, `writeProperties`, `decodeContent`; the interop one is
`DictFormatter::printMessageInterop`, which catches what is thrown on the way and prints what
it has by then. `MessageLog` is the state machine around them: a sender that numbers its
messages (`%d`), sends, prints and counts, or a receiver that prints what it is handed. Its
properties read the printed line with `PythonReader`, an automaton with a stack that is
written from Python's grammar and knows nothing of the printers (a recursive function of the state and
the text, which takes the text in blocks of `BLOCK` symbols only because TLC's stack is finite), and compare the value with
what the message says (`DictMeaning`, `InteropMeaning`).

`PeerToPeer` composes `Sender` and `Receiver`: both are instantiated (`S`, `R`) over variables of
their own, and every event one of them leaves to its peer is the step of the other, or of the
connection between them:

| event of a client's module | in `PeerToPeer` |
|---|---|
| `Sender!on_sendable(c)` | `FlowArrives(c)`: no more credit than the receiver's window leaves, and some: Proton's guarantee, which `SenderHandler.cpp:210` does not check |
| `Sender!checkIfCanSend` sends, `Receiver!Arrives` | `SenderPolls` puts a message in `transit`, `TransferArrives` takes it out |
| `Receiver!on_message`, `Sender!on_tracker_*` | `ReceiverHandles` appends an outcome, `OutcomeArrives` hands it over, in order |
| `Sender!ConnectionOpens`, `Receiver!PeerConnects` | `Connects`, one step of both |
| `on_connection_close` of one | `SenderHearsClose`, `ReceiverHearsClose`: the other has closed |
| `TransportCloses`, `on_transport_error` | both have closed, the other process is gone, or `NetworkBreaks` |

Each connection has an identity (`Peers`); the receiver may still hold an old one when the
sender has made the next. `Delivery` is what the two promise together: messages are submitted,
handled at most once per submission, and confirmed only after an acceptance that was not
confirmed yet. `PeerToPeer` implements it under `submitted <- sent`,
`handled <- msg_received_cnt`, `accepted <- accepted` (the history of what the receiver did),
`confirmed <- confirmedSent`.

`SenderProofs`, `ReceiverProofs`, `ConnectorProofs`, `PeerToPeerProofs`, `ClientSetupProofs` and
`MessageLogProofs` hold the theorems about the module in their name, `TimingProofs` (timer and work
queue) and `DataProofs` the lemmas they share; `MCSender`, `MCReceiver`,
`MCConnector`, `MCClientSetup` and `MCPeerToPeer` the command lines the runs use, and
`MCMessageLog` the messages.

### What is assumed of Proton

Proton is not in the repository; what the modules assume of it is what the handlers rely on.

* Callbacks and jobs run one at a time. A job runs at or after its time, never before.
* An exception out of a job of a work queue is dropped and the job is gone; one out of a
  job of the container (a listening receiver) or out of a callback ends `container.run()`
  and makes `run()` return 1. The inherited `on_error`, which link and session errors reach
  when the class does not override their handlers, throws.
* `container.run()` returns when the only connection is down; a listener keeps it going.
* `on_sendable` comes only with credit: the handler sends without asking for it, while
  `checkIfCanSend` does ask. A transport that is gone takes the credit with it,
  and no outcome arrives for what was unsettled; nothing is sent again.
* Proton reconnects only a connection that it was told to reconnect and that nobody has
  closed. `on_transport_close` comes only when it does not reconnect.
* No message is handed over on a locally closed link, but messages in flight are still
  handed over after a detach. What has arrived on a link is handed over before its
  connection is reported closed, or never.
* `on_connection_open` may still be called for a connection closed before it opened.
* A receiving link accepts every message its handler has not settled (auto-accept, which no
  client turns off). Transfers, outcomes and closes of a connection arrive in order; a message
  for a link that is already closed is dropped.
* A value is read as the type asked for or not at all: a list or a map only with elements of
  the type asked for, a map only with string keys, and a number or a uuid never as a string.

## Runs

Every run's command lines are families of option records: each option takes its default
(`Unset`) and the values at which the code branches.

| run | properties | question |
|---|---|---|
| `Sender` | `TypeOK` `NeverOversends` `CloseMeansDelivered` `ChainsAlive` `PatientTimer` `PacingFitsTimeout` `ImplementsJob` `TimesOut` `DeliversAll` | the sender's safety and its refinement of `SendJob`; does it end, and does it deliver when it is served? |
| `SenderReconnect` | `ReconnectHonoured`: **violated** | does `--conn-reconnect true` reconnect? |
| `Receiver` | `TypeOK` `NeverOverreceives` `ChainsAlive` `PatientTimer` `TimesOut` `StopsAfterCount` `UnsubscribingEnds` | the receiver's safety, and does it end? |
| `ReceiverTwoPeers` | `StopsAfterCount`: **violated** | does a listener with two peers stop at its count? |
| `ReceiverListenReply` | `NeverCrashes`: **violated** | can a listener reply? |
| `Connector` | `TypeOK` `CountsDown` `ClosesEverything` `HoldsForTimeout` `GivesUp` | the connector's safety, and does it give up? |
| `ConnectorReconnect` | `HoldsAcrossReconnects`: **violated** | is the timeout held across a reconnection? |
| `ClientSetup` | `TypeOK` `Understands` `SendsWhatIsMeant` `Authenticates` `StartsSafely` `DividesSafely` `FindsPlace` | is the command line understood, are the message and the credentials what it says, and is a line that passes safe to run with? |
| `ClientSetupItems` | `ListItemsWhole`: **violated** | is a list item sent as it is? |
| `MessageLog` | `DictReadsBack` `InteropReadsBack` `CountsWhatItSends` | does Python read back what is printed, and does printing never come between sending and counting? |
| `MessageLogIds` | `PrintsDictionaries`: **violated** | is every line a dictionary? |
| `PeerToPeer` | `Conserves` `SuccessMeansDelivered` `ImplementsDelivery` `BothEnd` | do sender and listening receiver agree on what was delivered, and do both end? |

### Bounds

* `SECOND = 2` in the sender lets two messages of a one-second `--duration` fall into a
  second, so pacing and countdown are out of step; `MaxDelay = 6` is the longest interval
  of the command lines (3 s, nothing to divide by). The receiver has only one period,
  hence `SECOND = 1`.
* `count` is absent, 0 or 2: with two messages a message can be sent by either trigger, be
  confirmed before or after the other and be lost between two others.
* `timeout` is absent, -2 (below `FOREVER`), -1, 0 and 2: never, at once, and a countdown
  that can be caught between two decrements.
* `MaxCredit = 2`: a flow frame grants nothing, less than or as much as `count`.
* `MaxMessages = 3` in the receiver is one more than the largest `count`; a window of 2 lets
  two messages be in flight, `DefaultWindow = 2` stands for Proton's.
* `Peers = {broker}` but for the two-peer run; a client that does not listen has only one.
* `MaxOpens = 3`: two reconnections, so three chains of `timerEvent` on one timer.

* `ClientSetup` takes, for the sender, lines of a URL and up to two settings of every kind and order, three
  of the kinds that interact, and every URL of scheme, credentials (none, a user with an empty
  password, a password with a colon), plain or bracketed host, port, topic, path (or none) and query or
  fragment with every way to give credentials by option: two settings are enough
  for one to swallow, replace or stop the other, the third for one between them.
  Receiver and connector get up to three settings of those only they have, the URL being one
  of them and possibly missing or empty; the receiver also gets all the URLs.

Some items have a ";" in them, which the callback's string separates items with
(`StringAppendCallback.cpp:47`), or are `''`, which stands for an empty item in it. `Arrived` says
what arrives of them: the parts that such an item gives alone. `Understands` says
that the items still arrive in their order and that none of these disturbs another;
`SendsWhatIsMeant` is about lines without them, because nobody means what they become.

The lines of `ClientSetup` leave out what the code is known to treat otherwise than one may
mean: a "~" value that is
no number (cast to 0, because `atol` and `atof` throw nothing), an "=" in a "~" value (it
wins), an "@" in the path of a URL with a port (its host is taken for a user), a user without a
password in the URL (ignored). The place is not looked for in a URL without a path
(`UriParser.cpp:75` takes a length for a position, but nobody reads
the port) and in one that names a topic.

* `MessageLog`: texts of up to three words, quotes, backslashes and newlines, so that each can be first,
  last and next to another; lists of up to three elements and maps of up to two entries over every
  type a value can have, lists and maps included (the printers throw on these, or leave them
  out); ids of every type, with and without a prefix. `MaxMessages = 2`: the second message has another number than the first.
* `PeerToPeer`: `MaxMessages = 3` bounds what the receiver is handed, as in its own runs; it is more than
  any sender sends here (with 200 the run has the same states), so it never keeps a message back.
  A window of 2, counts of 1 and 2 on either side (equal, more and less) or
  none at the receiver, every action on one message or on batches of two, and two connections, so one
  failure of the network and one reconnection (`MaxBreaks = 1`). With more than two
  connections nothing new can happen: the sender has one at a time. `SECOND = 1`, as neither
  client is paced.

The read-back properties leave out what the printers are known to print otherwise
(`IsPlain`): strings of the header and keys of maps with a quote in them, which nobody escapes;
quotes in values that are no strings, such as symbols; backslashes and newlines, which nobody escapes
anywhere (Python takes a backslash for the start of an escape, and no raw newline within quotes);
arrays and described values, and lists and maps within lists and maps, in both formats (`dict` leaves them out,
`interop` throws, `DictFormatter.cpp:129-147`); keys that are no strings; in `dict`, nulls within lists and maps, of
which nothing is printed. Of a binary id `dict` prints `None`, which is what
`DictMeaning` says of it; `InteropReadsBack` is about ids that are strings or absent; the run `MessageLogIds`
shows what becomes of the others.

The state of the `Sender` and `Receiver` runs needs no other bound: `sent` is bounded by `count`, `quiet` and
`age` stop counting at the timeout, and reconnections of sender and receiver are unbounded.

### Fairness

`LoopFairness` is weak fairness of the jobs that are due, of the start, of the return of
`run()` and of time. The event loop of one process justifies it. Nothing is assumed of the
peer in a specification. What a property needs of a peer is its antecedent:
`BrokerFairness` in `DeliversAll` (the broker lets the client connect, grants credit again and
again -- strong fairness, because polling may be between two grants --, settles, answers a
close) and `PeerFairness` in `StopsAfterCount` and `UnsubscribingEnds` (peers answer
a close).

In `PeerToPeer` both ends are there, so nothing is assumed of a peer: `Fairness` is that of the
two event loops and of a network that delivers what is sent as long as the connection lasts.
Flow frames have strong fairness, because the polling may use up the credit again and again
between two of them. `NetworkBreaks` is never forced.

### What the violations show

They are listed with the quoted lines under `findings`.

* `--conn-reconnect true` with any tuning option does not reconnect at all
  (`CommonHandler.cpp:92` builds the options and drops them).
* A listener closes only the connection of its `count`-th message, and a message of another
  peer that comes before that transport is closed makes the comparison at
  `ReceiverHandler.cpp:465` fail for good.
* A listener that is to reply dereferences a `receiver` it never opened.
* Each reconnection of the connector adds a countdown to the same timer.
* `--msg-content-list-item a=b` is sent as `a`: `setMessageListItem` keeps the name of a pair.
* The interop line of a message whose id is a number or a uuid stops after `'id': `: the
  exception of `get<std::string>` is caught, and what is there by then is printed.

Other behaviours one might not expect that are in the models: the default timeout of one second
ends a sender whose `--duration` slots are longer (`PacingFitsTimeout` asks for a timeout that
is not); `--trace-messages=false` switches tracing on, because the parser drops the value of a
flag; a sender whose listening receiver stops at a smaller count exits 0 with messages
undelivered (`SuccessMeansDelivered` asks for equal counts); a sender with a tuned reconnection that
is refused before it was ever connected neither reconnects nor fails, and exits 0 with nothing sent
(`GaveUp` in `PeerToPeer`, a consequence of the first violation above); `--conn-reconnect false` ends in status 1 after complete success as well;
after a released or lost delivery the sender ends only by its timeout, with status 0; a
receiver with the default count 0 exits 0 when a transport closes before any message; the
handler of the `count`-th message does not reset the timer, so "Timed out" can overtake the
close; a timeout below -1 makes the first decrement throw; a receiver with a window of 0
never receives; `--action-size` acts on the last message of each batch only, the others are
left to Proton; `--process-reply-to` makes a receiver ignore `--count`; a client that
unsubscribes starts no timer; a durable subscriber that is handed more than `count`
messages is not ended by the transport's close alone; the connector counts down only once
the connection is open, and an expired countdown closes and then waits for the peer; an empty
URL (`-b ''`) passes for one, and a listener without a URL that also browses connects to an
empty address.

## Proofs

TLAPS checks the theorems below for every value of the constants that satisfies the named
assumptions: any set of command lines, tick length, delay, credit, window, peers, reply
addresses and messages. The assumptions of the clients' modules say no more than that an option's number has its type and that a second
has a tick (`CommandLinesAssumption`, `LinesAssumption`, `SecondAssumption`,
`DelayAssumption`, `CreditAssumption`, `WindowAssumption`, `PeersAssumption`,
`OpensAssumption`, `MessagesAssumption`); TLC evaluates each of them in the runs of its module.

No property below is inductive alone. Each module of proofs states the invariants that are, and
proves them with one step per action; where an action disturbs several conjuncts it has a lemma of
its own (`MessageKeepsCount`, `HandleKeepsWaiting`...).

**Sender** (`SenderProofs`).

1. `TypeInv`: `TypeOK`.
2. `CountersInv`: at most `count` messages are sent, every sent message is confirmed,
   unsettled or forgotten, and a connection is closing only if all are confirmed.
   `NeverOversends` and `CloseMeansDelivered` follow.
3. `ChainInv`: the job queue holds at most one job of each kind and the jobs are there when
   they should be. `ChainsAlive` follows.
4. `PatientInv` ties the delay of the pending `timerEvent`, the seconds left and the time
   since the last send together: what has elapsed and what is left make up the timeout.
   `PatientTimer` follows.
5. `PaceInv` adds the delay of the pending poll, and that `ready` is left only where there is
   no credit: a slot that started with the last send is
   over before the countdown. `PacingFitsTimeout` follows.

`JobRefinement` proves `Spec => ImplementsJob` by step simulation: initial states map to
initial states, and under `CountersInv` every action is a step of `SendJob` or stutters.

**Receiver** (`ReceiverProofs`). `TypeCorrect`, then

1. `ChainInv`: the timer stays within its bounds, so that a decrement never throws, nothing
   is scheduled before the start, and a drain is pending only once a window of messages has come.
   `ChainsAlive` follows.
2. `PatientInv`: what the countdown has counted off is at most the ticks since the last message, the
   rest of the running second included. `PatientTimer` follows.
3. `CountInv`: a client that has its messages is `Satisfied` for good, because its link is closed,
   or because it is detached, the connection closing, and what is handed over from then on is what
   had arrived. `NeverOverreceives` follows.

**Connector** (`ConnectorProofs`). `TypeCorrect`, then

1. `CountdownInv`: the timer stays within its bounds and one that has expired stays so; a connection
   the handler closed before it opened has nothing open, until the opening schedules the
   job that closes it. `CountsDown` and `ClosesEverything` follow.
2. `HoldInv`: until the connection is made again there is one chain of jobs, and what it has
   counted off is at most the `age` of the connection. `HoldsForTimeout` follows. With a second
   opening it fails, which is what the run `ConnectorReconnect` shows.

**Sender and receiver without a broker** (`PeerToPeerProofs`).

1. `SenderIsASender` and `ReceiverIsAReceiver` prove `Spec => S!Spec` and `Spec => R!Spec`: each
   client of the composition is a behaviour of its own module, so the event of one that is a step of the
   other is one the first module allows. `S!Spec` and `R!Spec` are safety here, `Init` and `[][Next]`.
2. `DeliveryImplemented` proves `Spec => ImplementsDelivery`. That the receiver handles no more than
   was sent cannot be read off the numbers of one connection, because an old one may still hold
   messages when the next is up. `Ledger` gives every message sent a place (in transit, at the
   receiver on one of its connections, handled), such that no count exceeds the number of messages at
   its place; a message that is lost just stays where it was. The lemmas `LedgerSends`, `LedgerMovesIn`,
   `LedgerHandles` and `LedgerLoses` say what the steps do to it, on the counting lemmas of
   `DataProofs`. `Reported` says the same of confirmations: those that arrived and those on their
   way were all given.
3. `ConservesCorrect` from `ConnectionInv`: a sender without a connection has nothing open, and a
   connection nobody has made has nothing on it, so that a new one starts clean (`CleanStart`).
4. `SuccessMeansDeliveredCorrect` from `SuccessInv`. As long as an outcome is missing (`Waits`), on a network
   that does not fail, the sender's connection is up or still to come (`SenderWaits`), nothing has been
   lost or refused (`NothingLost`), and the receiver has closed nothing before its own count
   (`ReceiverWaits`); so the sender cannot have ended.

**Set-up** (`ClientSetupProofs`). Two invariants, one about each side of the parser.

1. `SetupInv` follows the option values: an option declared a number holds one, whichever way it was
   given, and a client runs only with what `validate` let through, set up as `SetupOf` says. `TypeOK` and
   `DividesSafely` follow: `validate` and `run()` read the batch size in different ways, and agree because
   the parser refuses what is no number.
2. One setting at a time: in front of a setting as it is typed, whatever follows it, `parse_args`
   makes of it what the setting says, takes exactly its arguments away, or ends the client when it
   must. There is one lemma per style (`EqualsObeys`, `BareObeys`, `NextObeys`, `JoinedObeys`,
   `ShortObeys`, `LetterObeys`), joined by `SettingObeys`. The items of the message options come through the
   string the callback joins them to, because `getStrings` finds each again (`GetAppended`), and one with a
   ";" in it, or spelled like an empty one, gives its own parts and leaves the others alone (`GetJoined`,
   `GetArrived`).
3. `LineInv` puts them one behind the other: so many settings have been read, each option has the last
   value of those, the items and the arguments that are no options are those of these settings in their
   order, none of them stops the parser, and what remains are the arguments of the rest
   (`LineCorrect`). `Understands` and `StartsSafely` follow.
4. `UrlInv` says that the handler was given the value of `--broker-url` and that every URL of the line is spelled
   as its parts; `Understands` makes it the last of them. The rest is about texts only. `Shape` says where the
   parts of a URL end and which delimiters stand in them, and `SpelledShape` that every URL has
   it as it is spelled. From `Shape` it follows that each delimiter stands nowhere else (`DelimiterFacts`), so
   that the searches of `UriParser`, each of which looks in the whole text, stop at the right one
   (`SchemeDelimiter`, `FirstColon`, `ColonPosition`), and what is cut out between
   them is the part (`CredentialsFound`, `PlaceFound`, `TopicFound`). `Authenticates` and `FindsPlace` follow, with no
   bound on the length of any part.

The assumptions are `CommandLinesAssumption` (each line is for one of the three parsers),
`PositiveAssumption` (the default of 1 is above 0) and `SettingsAssumption`, which says when a setting can be
told from its arguments: an option without the value it needs is the last one, a flag has no
argument behind it, and a letter is one the option has. It says nothing of what an item looks like. `UrlsAssumption` says how a URL is spelled, and leaves out what the
parser is known to misread (see the bounds): a ":", "@" or "]" in the path or behind it, a "?" in a
fragment without a query, credentials without a password's colon, a host with colons and no brackets.

**Message log** (`MessageLogProofs`). `CountInv` says what a sender has done with its messages: the wire
holds exactly those it was given to send, numbered from 0 and as many as it has counted. It is inductive because a
message made of a command line never makes a printer throw (`ComposedPrints`): its items are strings,
numbers and Booleans, and its headers are texts. `CountsWhatItSends` follows.
`PrintedInv` says that the text kept is what the printer makes of the message kept, and that this is a
message as Proton types it, the replaced number included (`MadeIsMessage`). From that, that Python reads back what is printed
is a fact about functions only:

1. `Reads(r, text, q)` says that the text takes the reader from one state to another. Texts put one
   behind the other take it from the first state to the last (`ReadsBoth`, `FlattenReads`), whatever the
   blocks it reads by (`ReadsLine`).
2. `Tells(V, text, value)` says that from every state in which a value may come, the text leaves the reader with
   that value and nothing else changed. Each word and each string without a quote or backslash tells itself (`TellsWord`, `TellsPlain`), and a
   string with quotes does when they are escaped (`TellsEscaped`).
3. Texts that tell their values, separated by commas and put in brackets, tell the list or the
   dictionary of these values (`TellsBracketed`, `ListTells`, `DictTells`): the separators the printers
   put by looking at the place of an element fit for every number of elements.
4. What `decode` prints of a scalar, a list or a map is put together from these (`ScalarTextTells`,
   `ListOfTells`, `MapOfTells`), and so are the two lines (`DictLineTells`, `InteropTells`).

The induction over texts and lists is over the natural numbers: `LeastNatural` and `SetInduction` of `DataProofs` say it
of sets, which needs no parameter that is an operator. The assumptions are what Proton guarantees of a
message (`MessagesAssumption`: a map has as many keys as values, a Boolean prints as `true` or
`false`, a number as one word that Python reads, which excludes infinity and what is no number), what the
options can make of one (`ItemsAssumption`), that different numbers print
differently (`DecimalsAssumption`), and that a word Python reads as a number or name is neither a bracket, a
quote nor a separator (`RawWordsAssumption`).

**Only model-checked.**

* Liveness (`TimesOut`, `DeliversAll`, `StopsAfterCount`, `UnsubscribingEnds`, `GivesUp`, `BothEnd`):
  fairness and `ENABLED` are out of the prover's reach.
* `SendsWhatIsMeant` compares the message with what the user
  means by an item, and no assumption ties that to its text: which texts mean what is
  written down in `MCClientSetup`.
* The runs that expect a violation have nothing to prove.

## Not modelled

SSL and SASL settings (handed to Proton unread), the set-up of source and target of a link
(capabilities, filters), `--conn-urls`, logging and what tracing prints;
`--msg-content-from-file` is parsed and never read. Of the formatting, `UpstreamWriter`,
`UpstreamFormatter` and `quoteStringEscape`, which no client uses, and the blanks between fields. `sleep4next` is time that passes before the next event. A
second link that a reopening connector creates beside the one Proton re-attached is seen only
as the field that is overwritten.

## Plan

1. *Set-up*: deriving the fields `Receiver` and `Connector` start from out of what
   `ClientSetup` collects, and the link's source and name.
2. *What an item means*: a grammar of items as an assumption, as there is one of URLs, and with it
   the theorem for `SendsWhatIsMeant`.
3. *More about `PeerToPeer`*: what the sender's theorems say of it through `SenderIsASender`, stated for the
   composition.
