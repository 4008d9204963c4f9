# A verification of the Coraza proxy-wasm filter

TLA+ models, TLC runs and TLAPS proofs for the web application firewall filter
in `src/`: a proxy-wasm plugin, written in Go, that runs the Coraza engine over
the HTTP streams of a proxy (Envoy). Every definition is translated from
`src/wasmplugin/plugin.go` and the files beside it; `PROJECT.json` maps each one
to its lines. Coraza, the proxy and the rule set cache server are not in `src/`:
they are modelled from how the code uses them and marked external in the map.

## The system

| Part | State | Operations | Where |
| --- | --- | --- | --- |
| HTTP context, one per stream | `tx`, `logger`, `processedRequestBody`, `processedResponseBody`, `bodyReadIndex`, `interruptedAt`, `failurePolicy`, a copy of the WAF table | seven callbacks of the proxy; `handleInterruption`, `handleInternalEngineFailurePolicy`, `replaceResponseBodyWhenInterrupted` | `plugin.go` 273-745, 826-872 |
| Rule set cache client, one per plugin | `currentRuleSetUUID`, `defaultWAF`, the tick, calls under way | initial fetch, `OnTick`, `checkLatestRuleSet`, `fetchRulesFromCache`, two response callbacks | `plugin.go` 125-151, 888-1092 |
| Plugin start and WAF table | `perAuthorityWAFs`, `metricLabelsKV`, the configuration | `parsePluginConfiguration`, `OnPluginStart`, `put`, `setDefaultWAF`, `getWAFOrDefault` | `config.go`, `plugin.go` 41-232 |
| Metrics | one counter per name | `CountTX`, `CountTXInterruption` | `metrics.go` |
| Address properties | none | `retrieveAddressInfo`, `parsePort`, `parseServerName` | `plugin.go` 769-824, 874-886 |
| Rule file systems | embedded rules, data files of a rule set | `Open`, `ReadFile`, `ReadDir`, `mapPath` | `fs.go`, `ruledata_fs.go` |
| Logger, timing, memory statistics, audit log, operators, entry points, build | none that another part reads | formatting, registration | remaining files |

How they interact. The proxy runs one VM per worker thread and calls it one
callback at a time, so callbacks are atomic; what interleaves is the order in
which they come: the callbacks of the two halves of each stream, those of other
streams, ticks, and the responses of HTTP calls. A callback answers *continue*
or *pause*; a body that is paused stays in the proxy's buffer and the next body
callback sees the buffer with the new data at its end. A local reply
(`SendHttpResponse`) travels back through the response callbacks. The plugin
hands every new stream a copy of its WAF table and its label slice; the rule set
cache client replaces the default WAF of the plugin's own table, while streams
that exist keep their copies.

What is hard:

- **Order of callbacks.** A phase can be due at the last chunk, at trailers, at
  the response headers (no request body) or at the end of the stream (no
  response body); the response may begin before the request has ended.
- **One index for two bodies.** `bodyReadIndex` is an index into the proxy's
  buffer, which the proxy empties whenever a callback answers continue.
- **Failures.** Each read, the engine and each reply may fail; the failure
  policy decides, and a failure block is not remembered as an interruption is.
  A read of a body may also fall short, which is logged and nothing more.
- **Time.** A check and a fetch can each take a whole timeout, ticks go on
  meanwhile, and the period is computed in 32 bits.

What makes the parts correct:

- *HTTP context*: nothing passes an interrupted stream; under policy "fail"
  no body passes before the phase that judges it, and no byte that was read or
  should have been is skipped; phases run in order and once; no ended body is left
  in the buffer without an answer; no callback panics.
- *Rule set cache client*: one call at a time; rules never go back; the
  identifier is that of the rules that run; the published rules get loaded, within
  a period and two timeouts when no call fails. *Plugin and streams*: no stream is
  judged by older rules than a stream before it.
- *Plugin start*: the outcome does not depend on the order of a map; every
  authority gets the WAF it names. *Metrics*: an interruption is counted under
  the labels of its own stream. *Addresses*: a port that fits is converted
  exactly. *File systems*: an alias is one file, whoever asks.

## Modules

| Module | Models |
| --- | --- |
| `HttpContext` | one stream: the callbacks, the transaction, the proxy; its properties |
| `MCHttpContext` | the fault set of its run with failures |
| `HttpContextProofs` | theorems about `HttpContext`: types, interruptions |
| `HttpContextPhaseProofs` | ... its phases and its answers |
| `HttpContextBodyProofs` | ... its bodies: what is read, forwarded, replaced |
| `RuleSetRegister` | abstract: an active rule set that only moves forward and catches up |
| `RuleSetCache` | the client, its server, its timers; implements `RuleSetRegister` |
| `RuleSetCacheProofs` | theorems about `RuleSetCache` |
| `Plugin` | `RuleSetCache` together with streams that copy the WAF table |
| `PluginProofs` | theorems about `Plugin` |
| `WAFTable` | abstract: a configuration is refused or taken as a whole, and decides alone |
| `PluginStart` | parsing and `OnPluginStart`, with a cache or with the loop over directives; implements `WAFTable` |
| `PluginStartProofs` | theorems about `PluginStart` |
| `MetricLabels` | the label slice of the plugin, its array, and the streams that append to copies |
| `MetricLabelsProofs` | theorems about `MetricLabels` |
| `RulesFS` | the embedded rules and their aliases, as operators |
| `Address` | the peer's address and port from two properties, as operators |
| `Lookups` | one lookup of `RulesFS` or `Address` at a time, with their properties |
| `LookupsProofs` | theorems about `Lookups` |

Operators named `Bug...` are wrong variants of the definition after them. They
are what the properties are tried against (`mutants` in `PROJECT.json`) and no
specification uses them.

### HttpContext

A body is a sequence of positions 1, 2, ...; a position is a piece of data that
is read, inspected and forwarded as a whole. `arrived[d]` and `flushed[d]` say
how much of the body in direction `d` the proxy has received and how much left
its buffer, so a body callback gets `arrived[d] - flushed[d]` as its size.
`inspected[d]` are the positions written to the transaction, `full[d]` says whether
they have filled its buffer (`"exactly"`) and whether more was written then
(`"beyond"`), `cut[d]` is the position after which the body limit exempts the rest,
`delivered[d]` are the positions that went on as they were, `nulls` the null bytes
sent instead.

Each callback of the Go code is an operator of the same name that relates the
state before, the context after, the `action` answered and the size of the
`mask`, if the body was replaced. `Conclude` is the tail all evaluations share:
error, interruption, or continue. The two body callbacks differ in four places,
which `AfterWrite` and `skipBody` keep apart by the direction: whether
`bodyReadIndex` has advanced when a write interrupts or goes beyond the limit,
what becomes of it at the end, whether an error counts as processed, and what is
replaced. The transaction (`Evaluate`) answers any phase with pass, deny or
(body phases) an error, and a passing phase may turn the rule engine off.

`inspectBody` is the chunk of a body that is read: `ReadFails`, or `ReadAndWrite`
and then `AfterWrite`. A read that asks for `chunkSize` positions may bring `m` of
them only (fault `"short"`): the code goes on with those, the next read begins behind
them (`ReadIndex`), and at the end of the body nothing is left to make up for it. Of the
`m` positions the transaction takes `n` (`WriteBody`). When they fill its buffer, Coraza
evaluates the body phase inside the write, whose verdict, an error included, is that of
the write. Only `n < m` tells the code of the limit. A body that fills the
buffer exactly goes on as if there were no limit: the end of the body evaluates the phase
a second time, or a later write, which takes nothing, marks the body processed. `short` is a
history variable: the directions whose last read fell short.

`cfg` is chosen in `Init`: the policy, whether a WAF is found for
the authority, and which bodies are accessible (for a response: also of a content
type that is inspected). `ctl` actions that change body access in the middle of
a transaction are not modelled.

The proxy (`RequestHeaders`, `ResponseHeaders`, `Body`, `Trailers`, `StreamDone`)
may end each half with the headers, with a chunk (an empty one too) or with
trailers, may repeat a body callback without new data, may begin the response before the request has ended, and may end the
stream at any time. Two kinds are considered. With `HostStopsOnReply` it forwards
nothing after a local reply and ends the response, as Envoy does; without, it
goes on calling and forwarding, as the emulator of the tests does, and only the
answers of the callbacks hold data back. A local reply has no body. A panic ends
everything.

`Faults` says what can fail: `"headers"` (reading a header or property),
`"body"` (reading a body), `"short"` (a body read that brings less than was asked
for), `"waf"` (the engine), `"send"` (`SendHttpResponse`),
`"replace"` (`ReplaceHttpResponseBody`). `early` is a history variable: the
response began before the request had ended.

### RuleSetCache

Rule sets are numbered as they are published; `NoVersion` stands for no WAF and
the empty UUID. A call under way is a record: its kind, the time left, whether the
server has answered, and with which version. Answering and the callback are
separate steps, so the server may publish in between. `AnswerBadly` covers a status
other than 200, an unreadable, empty or malformed body, and a timeout; a dispatch
may also be refused. All of these draw on the bound `MaxFaults`. An answer that parses
names the version it carries: a server that sends rules without a `uuid`, which the code
takes for any other identifier, is not modelled. Time passes in
units; the proxy's timers fire on time: time does not pass while a call or the
tick is due. `Period` is the tick period with its 32-bit truncation and clamp.
`ReloadIntervals` are the intervals a configuration may have, 0 for no reloading;
`Init` chooses one. `Step` is what takes no time.

`RuleSetRegister` is what the client promises: rules that only move forward and
were published, and that catch up, if reloading is on; with it off, one rule set at
most and no promise that there will be one.

### Plugin

`Plugin` extends `RuleSetCache`: every step of the client is a `CacheStep` that
leaves the streams alone. `contexts` are the streams in the order of their creation.
`NewHttpContext` copies the table, of which the default WAF is all there is when rules
come from a cache; `OnHttpRequestHeaders` resolves the WAF in the copy, at any later
time, and finds one or leaves the stream to the failure policy. What
a stream does then is `HttpContext`, whose `cfg` chooses whether a WAF is found.

`lag` is a history variable: how long the server's version has been due (`Behind`:
reloading is on, it compiles and is not loaded), counted from its
publication or the latest fault and stopped once it is `Late`, which bounds the states of a
variant that never loads anything. The bound is
exact: with `<` for `<=` TLC finds the behaviour in which rules are published just
after a check was answered, and the next check and its fetch take all their time.

### PluginStart

`Init` chooses any document: the directives it declares, the default it names, the
directives of each authority (the empty authority and the empty name included),
whether it has the deprecated field `rules`, and which directives Coraza rejects.
A WAF is known by the name of the directives it was built from, and maps are total
functions, `None` or `{}` standing for a missing key. One action is one iteration
of the loop over `directivesMap` (`Skip`, `Fail`, `Register`), which picks any
directives left: Go iterates over maps in no order. `directivesAuthoritiesMap` loses
its entries on the way (`Delete`), and `Finish` refuses what is left in it.
`perAuthorityWAFs` is assigned only at the end, so a failed start leaves no table.
With a cache server (`doc.cache`, `"once"` or `"reloading"`) `StartWithCache` makes an
empty table without looking at the directives, and the host may refuse the tick;
what follows is `RuleSetCache`. (The fetch that is under way when the tick is refused
goes on in the code; after a failed start it is not modelled.) The failure policy, the token and the instance are
values that are only passed on.

`WAFTable` says the same without a loop: `Accepted` and `Intended` are
read off the document. It shares no definition with `PluginStart`.

### MetricLabels

The code appends a key and its value together, so a cell of `array` stands for
both. `array` is the array behind the plugin's slice, as long as its capacity;
cells never written are `Blank`. When `append` finds the array full it may put any
array up to about twice as long in its place (`Grown`): the language does not say
how long, and Go and TinyGo differ. A stream copies the slice, not the array
(`NewHttpContext`), and appends its authority in place when there is room
(`AppendAuthority`). `CountTXInterruption` happens at most once in a stream, which
`InterruptedOnce` shows of `HttpContext`. `CountTX`, a counter without labels,
is left out.

### RulesFS, Address and Lookups

A name is the sequence of its components and a file is known by its path, so an
error is the empty path (`NoFile`) and a directory that cannot be listed has no entries
(no embedded directory is empty). `fsOpen`, `fsReadFile` and `fsReadDir` are the
file system of the Go library, `mapPath`, `Open`, `ReadFile` and `ReadDir` those of
`fs.go`, with its aliases; `ReadDir` maps names with code of its own. The only thing
assumed of the embedded files is that no component of their paths is an alias, empty or
dots (`FilesAssumption`): `go:embed` takes them from a directory where this is so.
`Lookups` does what an Include of Coraza does: it reads a file, or lists a directory
and opens and reads each entry. (The alias of a directory can be listed but, alone, not
be opened: `mapPath` wants a slash behind it. Includes do not open directories.)

In `Address` a byte has `Base` values, any even number of them, and an int as many as four
bytes. Bytes are put together by halves: two of them make 16 bits, two of those 32, two of
those 64. With `Base = 2` all 256 numbers of eight bytes are tried, of which half of those of four bytes fit. The
address is missing, malformed, or a host with a port, an empty port, one that is no number,
negative or too big for an int; the port property is missing, too short, eight bytes or longer.

## Runs

| Run | Question | Bounds |
| --- | --- | --- |
| `http_failures` | both policies, header, body and engine failures: is everything inspected that should be, does no body leave before its phase, is no ended body left unanswered | 3 positions per body; under policy "allow", 3 in both together (`AllowedBodies`) |
| `http_insistent_host` | a proxy that ignores local replies, which may be refused: do the answers of the callbacks alone block an interrupted stream, is it interrupted once, do phases run in order and once until the transaction is closed complete | 3 positions |
| `plugin_reload` | streams that come while rules are published and calls fail: one call at a time, no rollback, catching up and in what time, which rules each stream gets, refinement | 4 versions of which one does not compile, 3 faults, 2 streams, 4 intervals |
| `plugin_start` | every document over three names and three authorities, in every order of its directives: does the loop do what `WAFTable` promises | one empty name, one empty authority |
| `metric_labels` | what labels is an interruption counted under, whatever the capacity of the array | 3 streams, 2 authorities, up to 4 labels |
| `lookups` | do listing, opening and reading agree about every name; which port is the peer's | names of up to 3 of 12 components, all ports of 8 bytes of 2 values |
| `http_nil_logger`, `http_early_response`, `http_shared_index`, `http_replace_fails`, `rule_set_period`, `metric_labels_shared` | expected violations, one finding each | as small as the trace allows |

Why the bounds are enough. A body callback distinguishes what was read before,
the new chunk, and (at the limit) the two parts of the chunk: three positions
give a chunk before the limit, a written part and an unwritten part, and allow
up to three chunks; or a read that falls short, one that makes up for it and one
that falls short again. Under policy "allow", where a stream goes on after every
failure and almost every property is stated for "fail", the two bodies share the three
positions: what is checked there is that each body, in the company of the other, is released or
answered. The rules of the HTTP runs name no status: it is only passed on to the reply. A stream has one transaction and one context, so one stream
is the whole state; streams meet in the plugin's labels (`MetricLabels`, where two
streams of different authorities and one of the default WAF are all the kinds there are) and
in its table, which they only read (`Plugin`, where two streams are enough to be out
of order). Three names give a default, directives that
are referenced and directives that are not; three authorities give two that share
directives and one empty. Up to four labels and any growth cover every
relation of length and capacity that the two toolchains produce. Four versions let two be published while an answer is under
way and put the one that does not compile in the middle. Three faults can make
the initial fetch, a check and a fetch fail in one behaviour. `Second = 1`
and `cacheTimeout = 2` are the real proportions; the intervals are none, one below
the clamp, the tightest case, one above it and one that wraps; the proofs cover the
others. `UintModulus` is scaled down because TLC's integers are themselves 32 bits
wide. Names of three components reach one below every embedded file; the components
are the aliases, the embedded names and those that make a path invalid.

`CHECK_DEADLOCK FALSE` in the HTTP, start, label and lookup runs: a stream, a start
and a lookup really end. The rule set cache never stops: its timers go on.

Fairness is stated for the start, as `WF_vars(Next)`, because a call of `OnPluginStart`
runs to its end and its loop is finite; and for the rule set cache, weak, on the tick, on callbacks
that have an answer, on the server's answers and on the passing of time: the
proxy's event loop serves its timers and responses, and every call is
answered or times out (a timeout is a fault, and faults are finite). Nothing
obliges the server to publish or a call to fail. With it
`ImplementsRegister` says that once the server publishes no more and calls stop
failing, the published rules get loaded if they compile. With reloading off
a failed initial fetch is never repeated, and the register promises nothing. No stream
has to be created, nor its headers to arrive. No fairness
is assumed of HTTP peers, which may stall at any point; that no ended body is stuck
is therefore an invariant, `EndedBodyIsReleasedOrAnswered`.

## What the violations show

- `http_nil_logger`: the trailers callbacks use `ctx.logger` before anything else,
  but it is set only when a WAF was found. With policy "allow" a stream without
  a WAF panics the VM on its trailers.
- `http_early_response`: `OnHttpResponseHeaders` evaluates the request body phase
  on what has arrived and marks the body processed. What arrives later goes
  upstream unread.
- `http_shared_index`: a request that goes beyond its body limit leaves
  `bodyReadIndex` at what was read before. The response body is then read from
  that index on: its first bytes are sent downstream without being inspected.
- `http_replace_fails`: when the replacement of an interrupted response body is
  refused, the callback answers continue and the body is sent as it is.
- `rule_set_period`: an interval of 2^32 ms or more wraps; rules are reloaded
  more often than configured: every 25,032,704 ms, about seven hours, for an interval of
  50 days (4,320,000,000 ms). The run has an interval of 13 in a width of 8, which wraps
  to 5, above the floor.
- `metric_labels_shared`: a stream that finds room in the plugin's array writes its
  authority there, over the one of another stream that has not been interrupted
  yet. The trace has one label, in an array with room for two; with the Go
  toolchain three labels leave such room (six strings in an array of eight).

More disagreements were met and have no run.

- Three tests contradict the code under its default policy, "fail". `main_test.go` 645-646
  (`TestBadRequest`) expects a request without `:path` or `:method`, and 696-697
  (`TestBadResponse`) a response without `:status`, to get *continue* (the failure is only
  to be logged); 745-752 expects no reply for a request whose authority has no WAF. The code answers all
  of them 403 and pauses (`plugin.go` 322, 347, 366, 546, by 840-872).
  `config.go` 18 sides with the code: "fail" blocks traffic "when the WAF is not ready or
  encounters errors". `PhasesPrecedeForwarding` takes no side: it is about the bodies of streams
  that have a transaction, which no test contradicts. That headers are held back as well is part
  of its proof (`PrecedeInv`).
- A last read of a body that falls short is logged (`plugin.go` 450-453, 633-635), the
  phase is evaluated on what was read, and the rest is forwarded uninspected; an interruption
  then replaces fewer bytes than the proxy has. `RequestBodyInspectedUnlessEarly`,
  `ResponseBodyInspectedUnlessInherited` and `MaskKeepsLength` except it (`short`). Reads that
  fall short before the last one are made up for, and are not excepted.
- "Setting processedRequestBody avoid to call more than once ProcessRequestBody" (`plugin.go`
  465): a body that fills the limit exactly has its phase evaluated inside the write and
  again at its end, since the write was whole. `BodyPhasesEvaluatedOnce` allows two for it.
- After a failure that is allowed in the middle of a body, the proxy's buffer starts anew
  while `bodyReadIndex` keeps its value, so `bodySize` is not "the size of the whole body
  received so far" (`plugin.go` 441); `BufferIsWholeBodyUnlessAllowed` is therefore stated for
  policy "fail".
- An IPv6 authority loses its brackets when it has a port (`main_test.go` 1325-1328) and
  keeps them when it has none: the same host has two server names.
- A failure is answered 403 (`plugin.go` 856) where the comment above it and a test
  (`plugin_test.go` 59) say 500.

## Proofs

The eight proof modules prove their theorems for all values of the constants, from
the assumptions the component modules name: the bounds are natural numbers,
`RuleStatuses` and intervals are naturals, a second and a timeout take time, a byte has
an even number of values, the empty string is nothing else. Every safety invariant and
action property of every passing run is the statement of a theorem.

What a theorem about `HttpContext` adds to this are hypotheses on the constants that say
what host it is about; the passing runs that check its property give them these values.
`"send" \notin Faults` and `"replace" \notin Faults`: the host does not refuse a local reply or
a replacement. `HostStopsOnReply`: it forwards nothing after a local reply, as Envoy does.
`"waf"` and `"headers"`: neither the engine nor the reading of a header fails. Where a
theorem has no such hypothesis the callbacks alone bring the property about. None has
`"short"` for a hypothesis: reads may fall short in all of them, and the properties say
themselves that a *last* read which did is excepted.

| Theorem | Property | Any | Needs |
| --- | --- | --- | --- |
| `InterruptedOnce` | `NeverInterruptedTwice` | host, fault | |
| `InterruptionHolds` | `InterruptedStreamForwardsNothing` | host | no `replace` |
| `ClosedComplete` | `ClosedTransactionIsComplete` | host, fault | |
| `ReplyIsFinal` | `InterruptionReplyIsFinal` | host, fault | |
| `BodyPhasesOnce` | `BodyPhasesEvaluatedOnce` | host | no `waf` |
| `PhasesOrdered` | `PhasesInOrder` | host | no `waf`, `headers` |
| `EndedBodyLeaves` | `EndedBodyIsReleasedOrAnswered` | host | no `send` |
| `NoNilLoggerUnlessAllowed` | `NilLoggerOnlyWhenAllowed` | | no `send`, `HostStopsOnReply` |
| `BufferIsWholeBody` | `BufferIsWholeBodyUnlessAllowed` | host, fault | |
| `ForwardedAfterPhases` | `PhasesPrecedeForwarding` | | no `send`, `replace`, `HostStopsOnReply` |
| `RequestInspected` | `RequestBodyInspectedUnlessEarly` | | no `send`, `HostStopsOnReply` |
| `ResponseInspected` | `ResponseBodyInspectedUnlessInherited` | | no `send`, `replace`, `HostStopsOnReply` |
| `LengthKept` | `MaskKeepsLength` | | no `send`, `HostStopsOnReply` |

`HttpContextProofs`
- `TypeCorrect` (`TypeOK`). The type invariant is inductive once it says that the
  proxy has flushed no more than has arrived. The argument goes callback by callback:
  what a buffer has unread ends where the buffer ends (`UnreadBound`), so what is read and
  written, however much it is, lies within the body (`WriteType`), and a buffer ends within the body
  (`BufferFits`). Trailers pass `bodyReadIndex` itself as the size, which leaves
  nothing to read.
- `InterruptedOnce`. Every callback but the first asks
  whether the stream is interrupted. The invariant adds that before the first one
  it is not, and that the response has not begun (`FirstIsUninterrupted`).
- `InterruptionHolds`. Every path of a body callback that ends with the stream interrupted
  answers pause or masks the body (`OnBodyBlocks`), and in either case the
  proxy delivers nothing. The hypothesis is necessary: `http_replace_fails`.

`HttpContextPhaseProofs`
- `BodyPhasesOnce`. An evaluated body phase left its flag (`Once`), and each callback
  raises flag and count together (`BodyCounts`). There are three exceptions: a body that fills its
  limit exactly, which the property allows two evaluations; a write that
  fails when it has evaluated the phase; and a response body phase that fails without body
  access. The last two leave the flag unset, so that the phase is evaluated again. Hence
  the hypothesis.
- `ClosedComplete`. Only the end of the stream logs and closes (`ClosedInv`), and it evaluates
  what is missing of the response first.
- `PhasesOrdered`. A stream that is active had its request headers judged and, once the response
  began, those of the response, or is interrupted (`OrderInv`).
- `ReplyIsFinal`. Before an interruption every reply is that of a failure (`FinalInv`), and an
  interrupted stream sends none (`Settled`).
- `NoNilLoggerUnlessAllowed`, `EndedBodyLeaves`. Whatever holds a stream back comes with an answer:
  request headers that are not forwarded, a missing WAF that is not allowed, every interruption but
  that of a response body (`AnsweredInv`, `EndedInv`).

`HttpContextBodyProofs`
- `BufferIsWholeBody`. Under policy "fail" a body callback answers continue only when it has marked
  the body processed, interrupted it, or left the engine off, so nothing of a body that is still
  read has been flushed.
- `ForwardedAfterPhases`. A flag stands for an evaluation (`FlagsInv`); the body of a response only
  goes on in a stream whose response headers were judged (`PrecedeInv`).
- `RequestInspected`, `ResponseInspected`. The core is `ReadInv`: while a body is `Reading`, all of it is
  in the buffer, `bodyReadIndex` is the end of what is written, and this is what has arrived unless
  the last read fell short; once it `WasRead`, what its limit did not exempt is written. One
  callback either keeps that, or ends the body with all of it written, its last read excepted
  (`BodyReads`). The invariant carries this from the
  request to the response: a request that did not go beyond its limit has left the index at 0
  (`RequestReadInv`), one that did has not, and that response is the one
  `http_shared_index` shows. What is written is never taken back (`EachGrows`), what is
  delivered has left the buffer (`DeliveredInv`), and while a read is still to be made up for
  nothing was delivered yet (`ShortForwardsNothing`, from `BufferIsWholeBody`).
- `LengthKept`. Until a response is interrupted all of it went on as it was; the callback that
  interrupts it replaces what it has read, which is what is buffered unless the read fell short; from
  then on every callback empties the buffer, so that its size is what the next one replaces (`MaskInv`).

`LookupsProofs`
- `ListedReadable`. What is listed under a name is listed in one embedded directory, and `mapPath` maps
  the name of each entry below it (`ListingMaps`), by cases: the root, below the alias of a
  directory, any other name. Entries are no aliases, so that mapping stops there, and make
  their path valid (`EntryFound`).
- `AliasesEmbedded`, for any files that contain those of the table.
- `PortExact`, `PeerReported`. What the host writes in eight bytes is what is read from them, for every number
  and every `Base`, by halves (`TwoBytes`, `FourBytes`, `EightBytes`); a number within an int is kept by the
  conversion (`PortRead`). The addresses a host gives can be told apart (`AddressRead`).

`RuleSetCacheProofs`
- The inductive invariant `IInv` consists of the types, `OneCallAtATime`,
  `UUIDIsOfActiveWAF`, and three strengthenings. `CallsEndBeforeTick`: the time
  left to a call, plus a timeout if it is a check that a fetch may follow, is less
  than the time to the tick; hence a tick finds no call (`NoCallAtTick`).
  It holds because the period exceeds two timeouts for every interval, wrapped
  or not (`PeriodBound`). `OnlyInitialFetch`: without reloading, a call is the initial
  fetch and nothing was loaded before it. `VersionsOrdered`: loaded rules are not newer than
  an answer under way, nor this than what the server has.
- `TypeCorrect`, `OneCall`, `UUIDMatches` follow from it; `NoRollback`
  (`RulesNeverGoBack`) and `RefinesRegister` from `LoadedRules`, which says
  what a step can do to the loaded rules.

`PluginProofs`
- Each step of `Plugin` is a step of `RuleSetCache` or leaves it alone
  (`RefinesCache`), which brings `IInv` along.
- `Freshness` (`RulesStayFresh`): when rules are due, either the time they have waited
  fits, with the time to the next tick, into one period, or there is a `Useful` call, one
  the server has answered with its latest version or may still, with time for it and what
  follows it (`OnTheWay`). A tick turns the first into the second, a callback of a check passes
  it on to the fetch, that of the fetch ends the wait; publications and faults restart
  the clock (`ResetClock`).
- `RulesFollowStreams` (`RulesFollowCreation`): the copies are ordered like the streams and
  none is newer than the table (`ContextsOrdered`), because loaded rules never go back.

`PluginStartProofs`
- The inductive invariant relates the loop to the document: while the start is
  `building`, the document parses, directives that were visited have no
  reference left and those still to visit have all of theirs, nothing visited so
  far was unusable, and the table holds the directives visited so far under the
  authorities that name them, the default ones apart, and nothing else.
- `TypeCorrect` and `ReferencesVisited` follow; `RefinesWAFTable` shows that a failing
  step only happens to a document that is not `Accepted` (`FailRefuses`) and that the
  finished table is the intended one (`FinishTakes`), for any documents and any order.

`MetricLabelsProofs`
- `StreamInv` says what a stream's slice is at each stage: a stream that appended its
  authority has either a copy or a cell right behind the plugin's labels. Writing
  there leaves the labels of the configuration as they are (`InPlaceKeeps`), which is how
  `append` works and no property of its own.
- `DefaultUnlabelled` and `OwnAuthorityIfFull` follow, for any number of
  streams and labels and any growth of the array. The last needs its hypothesis:
  `metric_labels_shared`.

Only model-checked: liveness, that is the fairness parts of `ImplementsRegister` and
`ImplementsWAFTable`, which `RefinesRegister` and `RefinesWAFTable` leave out, since TLAPS does
not reason about fairness and ENABLED.

## Plan

1. Done: `HttpContext`, `RuleSetRegister`, `RuleSetCache` and their proofs.
2. Done: `WAFTable`, `PluginStart` and its proofs.
3. Done: `MetricLabels` and its proofs.
4. Done: `Plugin` and its proofs; the start with a cache in `PluginStart`.
5. Done: `RulesFS`, `Address` and `Lookups`.
6. Done: `HttpContextPhaseProofs`, `HttpContextBodyProofs` and `LookupsProofs`: the remaining
   safety properties, for every body size, chunk, limit, set of embedded files and byte.
7. Done: reads that fall short and limits that are filled exactly, in `HttpContext` and its proofs.

Not modelled: several workers, whose plugins share nothing and each reload on their own, so that
what is said of the order of streams holds within one worker; `parseServerName` and
`ruledataFS`, a call of the library and a lookup in a map that never changes; the
engine itself (any verdict is possible), regular expressions
and operators, formatting of logs and audit entries, build tooling, and the
proxies of other vendors.
