# A verification development of esnet-smartnic-fw

TLA+ modules that model the agents of the SmartNIC firmware, TLC configurations
that check them on small instances, and proofs that TLAPS checks for every
instance. Line numbers are those of the commit this directory is kept with.

## 1. The system

The firmware package runs two daemons on the host of a SmartNIC. `sn-cfg-agent`
configures and monitors the cards (ports, switch, hosts, modules, statistics);
`sn-p4-agent` loads the rules of the P4 pipelines and counts. Both are gRPC
servers: a pool of worker threads runs the handlers (`SmartnicConfigImpl`,
`SmartnicP4Impl`) with no lock around them. Beside the workers there is the main
thread, which builds the server and tears it down, and one collector thread for
each running statistics domain. All of them write the memory-mapped registers of
the card directly; only the statistics and the card management have locks.

| component | source | state | operations | shared with |
|---|---|---|---|---|
| statistics domain | libopennic `stats.c` | running flag, thread handle, spin lock | alloc, start, stop, free, update, clear | workers, main, collector |
| statistics zones | `stats.c` | list, reference counts, enabled flag | attach, detach, free, walks | collector, workers, main |
| statistics blocks | `stats.c`, `qdma.c`, `cmac.c`, `switch.c`, `counters.cpp` | values, last readings, time stamp, mutex | update, clear, for_each | collector, workers |
| server control | sn-cfg `server.cpp`, `agent.cpp` | sets of flags | SetServerConfig, GetServerConfig, construction | workers |
| card management | `cms.c` | mutex, mailbox and registers of the card | byte, page, GPIO and card information calls, reset | workers, firmware of the card |
| module RPCs | `module.cpp` | none of their own | get/set memory, get/set GPIO, info, presence, status | workers, card |
| switch | `switch.c`, `switch.cpp` | multiplexers, demultiplexer, bypass register | get, set, defaults | workers |
| ports | `cmac.c`, `flow_control.c`, `port.cpp` | enable, FEC, loopback, thresholds | get, set, status | workers |
| hosts | `qdma.c`, `host.cpp` | queue ranges and hash tables | get, set | workers |
| defaults | `defaults.cpp` | none | the sequence that puts a card in its first state | workers |
| statistics RPCs | `stats.cpp` | none | get, clear with filters | workers |
| devices | `device.cpp`, `sysmon.c`, `pcie.c` | zones of the monitors | get, status | workers, collector |
| batch | `batch.cpp` of each agent | none | a stream of the requests above | workers |
| agent life cycle | `agent.cpp` of each agent | registry, mapping, drivers, zones, domains, server, daemon | constructor, destructor | main, daemon, collectors, workers |
| P4 information | `snp4_info_hw.c` | read once from the driver's configuration | get | constructor, workers |
| P4 counters, table ECC | `counters.cpp`, `table-ecc.cpp`, `snp4_api.c` | io data of each block | latch, read | collector, workers |
| P4 rules | libsnp4, `table.cpp`, `pipeline.cpp` | tables of the driver, of each pipeline | insert, replace, delete, clear, pack | workers |
| clients | `client.cpp`, `client.py` | none | options to requests | - |

How they interact. A worker in `SetServerConfig` starts and stops domains. A
collector of a domain walks the zones of the domain and updates the blocks of
each; `Get...Stats` walk the same list and copy values; `Clear...Stats` walk it
and run the update with a filter. A block calls back into the driver of its
registers (CMAC, switch, QDMA, the card management for the modules, the P4
driver) to latch and read them. The module RPCs and the collector of the modules
domain call the card management, which talks to the microcontroller of the card
through one mailbox. The defaults call ports, switch and hosts in turn.

What is hard in it:

* threads: nothing orders two `Set...` RPCs; the two halves of starting and of
  stopping a domain are not one critical section; a register that holds the
  settings of two ports is read, changed and written back without a lock;
* lifetimes: zones are freed under collectors and readers, by counts; what their
  callbacks use is freed by hand, before the domains are;
* filters that short-circuit, negate, and keep their bits in words;
* hardware that counts while it is read, in halves, or cleared by reading;
* a mailbox with polls, timeouts and retries to a firmware that may answer late,
  never, or after the agent that asked has died and come back;
* requests that stop half way and leave what they did.

What makes each component correct is stated in section 3, property by property.

## 2. The plan

Order, the most important behaviour first. "done" means modelled and checked.

1. `StatsDomain` with `PeriodicTask` as its abstract specification - done, proved.
2. `ServerControl`, the only client that starts and stops domains at run time,
   on top of 1 - done, proved.
3. `StatsZones`, the walks and the lifetimes, on top of `PeriodicTask` - done, proved.
4. `StatsBlock`, one block with its update and clear - done, proved.
5. `CmsMailbox` - done, proved. `ModuleRpc`, its main client, on top of what it
   promises - done, proved.
6. `CardConfig`, the switch, ports and defaults as threads that write
   registers - done, proved.
7. `HostConfig`: queue ranges and hash tables of the hosts, with the part of the
   defaults that sets them - done, proved.
8. `BitArray`, `StatsFilter` and `StatsQuery`: the filters of get and clear
   requests, and the requests with the loops over devices and units - done, the
   bit arrays proved.
9. `RulePack` and `TableRules`: packing of P4 rules, application in part, the
   dump of a table, with `RuleStore` as their abstract specification and `P4Info`
   for what they know of the tables - done, proved but for the meaning of what
   is packed.
10. `Batch`: which items and operations a stream accepts - done.
11. `AgentLife` and `PipelineStats`: constructor and destructor of both agents
    around `StatsZones`, and what the callbacks of a zone read - done, proved.
12. `CardConfig` and `HostConfig` with writers at once: which settings can be
    lost, and that no other is. Both with a range of devices.
13. `ServerControl` with requests at once (the bits are a data race); the time
    stamp that readers of a block report.
14. `CardService`, an abstract specification of a card that performs calls in
    order, refined by `CmsMailbox` and used by `ModuleRpc`.

Theorems worth proving, in order: everything `StatsDomain` promises and that it
implements `PeriodicTask`, for callers that take turns (done); what `CmsMailbox`
promises but for the liveness of its mutex, for any number of threads, calls and
attempts (done); `OneInterfaceForwards` and `ReportIsReal` of `CardConfig`, for Set
RPCs that take turns (done); `CountsEveryEventOnce` of `StatsBlock` (done);
`RefsAccount`, `NoUseAfterFree` and `WalksAreComplete` of `StatsZones`, for any number
of zones and walks, and that an agent's life is one of those behaviours (done); that
`ServerControl` uses the domains properly and its configuration is in force (done); what
`ModuleRpc` answers and writes (done); `RequestTakesEffect` of `CardConfig` (done); that a
function's table and range agree in `HostConfig`, and that its requests take effect
(done); `OneAnswerEach`, `ArraysFreedOnce` and `DumpsShowTheTables` of `TableRules` (done).
Left: that packed rules mean what they say (`ImplementsRuleStore`, `AnswersForAPrefix`)
and what filters select (`StatsQuery`), for reasons given at the end of section 7.

## 3. The modules

### StatsDomain, PeriodicTask, StatsDomainRefinement

`stats_domain_start`, `stats_domain_stop` and `stats_domain_thread` of `stats.c`.
`running` and `handle` are `domain->thread.running` and `.thread`; a collector is
a thread, with its place in the loop in `thread` and its domain in `serves`.
Each of start and stop is cut where the code gives up the spin lock:
`StartLocked` / `StartCreate`, and `StopLocked` / `StopJoin` / `StopJoined`. A
thread identifier that was joined may be used again. A join of something that
cannot be joined ends in "undefined", which no step leaves.

`Serialized` says whether callers take turns. Nothing in `stats.c` makes them; a
single operator's requests do. With `Serialized` TRUE, which says nothing of callers
that meet:

* `FlagTellsTruth`, `JoinsOwnCollector`: the flag is right between calls, and a
  join has a thread of its own.
* `OneCollector`, `StartsAndStopsPair`: one thread for each domain, and threads made
  and threads joined balance (proved, in no run).
* `ImplementsPeriodicTask`: the domain, with its threads, is the small machine
  `PeriodicTask` (off, on, draining; sampled or not), liveness included. The
  refinement mapping takes `phase` from the flag and the live threads and `busy`
  from threads that are in an update.

With `Serialized` FALSE, the run `domain_stop_hangs` finds a stop that never
returns: a start raises the flag again between the two halves of the stop, the
old thread goes on, and the join waits for it, against the comment at
`stats.c:1066-1070`.

### ServerControl

The statistics flags of `SetServerConfig` (sn-cfg `server.cpp`) and their use in
the constructor (`agent.cpp`), on top of `StatsDomain` with a domain for each device
and flag, so that the properties of the domains are checked under the callers they
really have. `flags` is `control.stats_flags`, `enabled` the zones' flags. A request
is a list of flags to enable, then one to disable, done flag by flag and device
by device; a flag that cannot be converted ends it. `ConfigIsInForce` relates
what `GetServerConfig` copies to what runs; `ResponseIsHonest` what is applied to
what is answered; `UsesStatsDomain` is the specification of `StatsDomain` itself,
so that what is proved of it may be used of the agent. `ServerTypeOK` states the
types and is in no run.

### StatsZones

The list of zones of a domain, their reference counts and every thread that walks
them, from the constructor's attach to the destructor's free. A walk is the loop
of `stats_domain_get_next_zone`: under the lock find and take the next zone, then
give back the present one. The collector's walks begin only while `PeriodicTask`
is on and are its samples. `NoUseAfterFree`, `RefsAccount`, `FreedWithTheDomain` and
`WalksAreComplete` are what the counts are for. An RPC may abandon a walk (a callback
returned an error). Its steps of the main thread are used by `AgentLife`, which says
when they come; it is checked there.

### AgentLife, PipelineStats

`SmartnicConfigImpl`'s and `SmartnicP4Impl`'s constructor and destructor around
`StatsZones`, for one device and its main domain of zones. `Build` and `TearDown` are
the parts of each agent in the order in which they are made and freed: for sn-p4 what
`init_pipeline` and `deinit_pipeline` do for each pipeline, with zones only where
there are counters or tables with ECC; for sn-cfg `init_device` and `deinit_device`.
`built` and `torn` are how far each has come. `driver`, `io` and `up` are what the
walks, callbacks and scrapes rely on: the handle of a driver (`snp4_init`, or the CMS
mutex), the io data of a zone, and the registry, the mapping, the server and the daemon
of Prometheus. A call of the constructor may fail, which is `exit`.

`PipelineStats` says which metrics a counter block or a table with ECC has, what its
latch reads, and which part of that each metric shows; `Call` is a callback that
latches a zone and reads its metrics, each read of the driver succeeding or not.

`CallsFindTheirDriver` bounds the window between `deinit_*` and the join of
`stats_domain_free`, in which the collector may call what was freed (section 6);
`ScrapesFindTheirMetrics` is about the daemon's thread, `MetricsShowTheirCounters`
about the layout of what is latched, `AgentEnds` about the joins of the destructor.

### StatsBlock

One block of metrics: `stats_block_update_metrics` with and without a filter that
clears, over hardware that counts while it is read. `Event` and `Level` are the
hardware. A metric is latched and cleared by a read, free-running in two
registers, or a gauge. `origin` and `seen` remember the readings its value is
counted from and to; the properties compare the value with the events between
them. A latch may fail; all goes on with what the driver then gives.

### CmsMailbox

The exchange of `cms_mailbox_post` and `cms_module_*` with the firmware of the
card under the mutex: wait for the mailbox (which takes the last request's error
away), post, wait, look at the error, up to `MaxAttempts` times. The firmware
fetches, performs, finishes and fails in steps of its own, at any time or never.
`Die` and `Reset...` are the end of the agent and `cms_reset` of the next one.
History variables (`performed`, `culprit`, `former`) number the calls.
`VerdictIsOwn`, `SuccessIsInForce` and `PerformedInOrder` are what the polls and
the mutex buy; `WorksForTheLiving` what the reset buys; `MutexIsGivenBack` what
the limits of the polls buy.

### ModuleRpc

`module.cpp` on a card that performs calls one at a time, and, when a call fails,
possibly later: what `CmsMailbox` shows of it. Bytes are tokens (module, address,
who wrote); a page has `PageSize` bytes instead of 128, and offsets wrap at the
size of the memory as `uint8_t` does. `AnswersTheBytesAsked`,
`WritesFromTheFront` and `NoLineIsInvented` hold; the run
`module_top` shows where the code leaves what the protocol says (section 6).

### CardConfig

`SetSwitchConfig`, `GetSwitchConfig`, `SetPortConfig` and `SetDefaults` on the
registers of a card. A request becomes the list of its items, as the handlers'
loops go through them; `Refuse` is the early `goto` or `return`, which ends one
response of several (a port's) or the only one (the switch's). The selector of a
port is two multiplexers, and a step of the model writes one of them; the egress
selectors are loaded and stored in two steps. `RequestTakesEffect` compares the
card at the response with what was granted, item by item, against the card when
the request began; `DefaultsChangeAQuietSwitch` is about the way there;
`ReportIsReal` about a reader that comes in the middle; `OneInterfaceForwards`
about what is left when nobody writes.

With `Serialized` FALSE `RequestTakesEffect` fails: two writers can interleave their
multiplexers and lose each other's bits. No document promises otherwise, so no run claims it.

### HostConfig

The queues of the hosts. `range` and `hash` are the two register blocks that
`qdma_function_set_queues` writes, `hash` with the table (entry q of it is
q % `spread`) and a base of its own; `channel` is what `qdma_channel_set_queues`
writes. A request is a list of items as in `CardConfig`; setting the queues of a
function is three steps, base, table and range, with the refusal of too many
queues after the first. The loop over the entries of a table is one step: nobody
but the hardware reads them. `sum` is the loop that adds up the functions.
`FunctionOf` wraps as the addition in `convert_to_driver_qdma_function` does, so
that the largest index of a virtual function means the physical one.
`EvenlySpread` compares table and range on a quiet card; `RequestTakesEffect` the
registers at the response with what was granted, host by host.

### BitArray, StatsFilter, StatsQuery, Batch

The statistics requests of both agents, whose `stats.cpp` are the same text.
`BitArray` is the class of that name, with its words (sets of positions below
`WordBits`), the mask of the last word, and each operation as the loop over words that
it is. `StatsFilter` is the filters of a request on it: strings with their patterns
and splits (a pattern is the set of names it accepts), labels, slices of indices in
32 bits (`AsInt`), and the terms with their short circuits and negations, to
`ApplyFilters` of a Get and `ClearMask` of a Clear. At its end stands what a filter
means without words and short circuits, value by value (`Means`, `Meant`), which the
properties compare with.

`StatsQuery` is the workers: the targets of a request (`get_or_clear_stats` and its
like for hosts, ports, switch, device and pipelines), for each one a walk over the
metrics of its zones, in which a Get copies value after value under the metric's lock
and then filters, and a Clear takes a block, asks about each value and clears it.
`Update` is a collector that changes a value. `Batch` says which item and operation
each agent knows and which error the others get. `ShowsWhatTheFilterMeans` and
`ClearsWhatTheFilterMeans` compare a reply, and the values after a Clear, with the
meaning of the filter; `AnswersEachUnit` is about the loops.

Assumed: the zones and metrics do not change while the agent serves (both agents make
them in their constructor), and a regular expression is valid (an invalid one throws).

### P4Info, RulePack, TableRules, RuleStore, TableRulesRefinement

The rules of P4 tables. `RulePack` is the arithmetic of `snp4_table.c` and the
parsing half of `table.cpp`: what is said of a match for a field, in the order of
the checks, and how keys, masks and parameters are put together; no state. `P4Info` is
`snp4_info_hw.c`: what is made of the driver's configuration, whose format strings list
the fields of a key from the last to the first, and what is refused as too long or
unknown. The tables of the runs are read with it.
`TableRules` is the workers that clear tables and insert, replace or delete rules,
with the loops over devices and pipelines (`Targets`, built when the request
arrives, since devices and pipelines do not change), the loop over the rules, and
for each rule loading, packing and the driver as steps of their own. `pack` is what
is known of the three arrays of `struct sn_pack`: not there, allocated, freed, or
freed twice.

`RuleStore` is what this is for: tables of rules, each rule the set of values that
its fields accept, with an action and its parameters, changed by one rule of a
request in service at a time. It follows the code in two things that the protocol does
not say: a range that is left out asks for 0 (section 6), and a table whose mode has no
masks compares the whole key, whatever mask a request gave. `TableRulesRefinement` reads the entries of the
driver's tables as the card does (`Parts`, `Shown`), and `ImplementsRuleStore` says
that what is read is what was asked for. `AnswersForAPrefix` is about requests that
fail in the middle, `OneAnswerEach` about the loops, `ArraysFreedOnce` about the
arrays.

`GetPipelineInfo` with its debug flag dumps the tables: `GetByResponse` asks the
driver for the next entry of an action by its position, `GetByKey` for what it does by
its key, and other workers come in between. Either call may fail for any reason; that
ends the dump of the table (`CutDump`), with no word of it in the response.
`DumpsShowTheTables` says what a dump is worth then: each line is an entry that was in
the table during the walk (`past`), no entry is repeated in a pipeline that nobody
changed meanwhile (`quiet`), and there a dump that no error ended (`cut`) has all
entries. The program keeps none of `past`, `quiet` and `cut`: they are history, for the
property alone. A line holds the action by its number, as `get_by_key` returns it; the
text for it, "<buffer-too-small>" where the name cannot be had (`snp4_api.c:532`), is
left out.

Assumed: a call of the driver is one step, though no lock keeps two workers from
it; a driver may fail at any call and then leaves its table as it was; it tells
entries apart by key and mask as it is given them, refuses to insert what is there
or into a full table and to replace or delete what is not there; numbers in requests
are not negative. A negative number would pass the check of its size and overwrite
the fields before it (`snp4_table.c:174`, `229`), which `Extend` computes and no
run sends.

## 4. The runs and their bounds

| run | bounds | why they are enough |
|---|---|---|
| `domain_stop_hangs` | 1 domain, 2 callers, 3 thread identifiers | a counterexample |
| `control_serial` | 2 devices, one flag of each kind and a bad one, requests of 2 flags, constructor and one worker, 2 thread identifiers | order, partial application and a device after a device; as many identifiers as can be alive, so that they are reused; the proofs cover the rest |
| `agent_life` | sn-cfg with 2 zones of one card; sn-p4 with 2 pipelines, one with a combined and a flag block of counters, one with tables with and without ECC; collector, 2 RPCs, one scrape at a time | a zone before, at and behind a walk, three walks at once, every order of the parts that come and go, a pipeline with and without each zone |
| `block_mixed` | 3 metrics, one of each kind, 2 events for each, halves of 2 values | every carry, and an update of each thread around a clear |
| `cms_shared` | 2 threads, 2 calls, 2 attempts, 2 values | the late effect of a call that gave up meets the next; restarts at every step |
| `module_mixed` | 2 modules, pages of 3 bytes, every offset, count and page up to one beyond the limits; two writers or two users of lines | both sides of each border, and an overlap of each pair of writes |
| `module_top` | as above, reads near the end | a counterexample |
| `card_turns` | 2 ports, one destination besides DROP, 14 requests, a writer and a reader, any selectors at start | items for one and for both ports, refused first, last and in between |
| `hosts_turns` | 2 hosts, 3 functions, tables of 4 entries, integers below 16, 14 requests | ranges that fill a table, are empty, overlap or are too long; refused first, last and in between |
| `stats_query` | 2 workers, 2 devices of which one has a port, 3 metrics (single, array over two words of 2 bits, never cleared), integers of 4 bits, 27 filters, each with and without `non_zero`; each item with every device and unit from below to above the range | every term, negation and short circuit over a full and a part word, every border of a slice, and a Clear and an update in the middle of a Get |
| `table_mixed` | 2 workers, devices of 1 and 2 pipelines, a masked table of four fields, one of them of type unused, and an exact one of two, of 1 or 2 bits each, capacities 2 and 1, fields left out of either, 2 requests of up to 3 rules and a delete that meets both | every type of field and format of match, a mask for a table without masks, every refusal, a table that is full, a range of devices and of pipelines, a device without the pipeline, a second request over the first, and a dump of tables that are empty, in use or changing, also by the loss of the entry that is to be shown next, with an error of the driver at any call |
| `table_unused` | the same tables, one rule | a counterexample |

`MaxEvents`, `MaxCalls`, `MaxFlags`, `MaxChanges` and `MaxRequests` bound what is
otherwise unlimited: hardware events, calls, the length of a request, changes by
collectors and the number of requests. `Coming` of `TableRules` says what may come as
the first, second and third request: each that changes a table, whatever meets it, and
one delete. Deadlock is checked in every run but those of
`ModuleRpc`, where each thread serves one request and stops, those of `TableRules` and
`StatsQuery`, where no more requests come, that of `AgentLife`, which ends when the
agent does, and those whose configuration says so.

## 5. Fairness

Weak fairness of single threads: the scheduler runs a thread that can go on. It
is assumed of collectors (their loop has no wait but the sleep), of callers inside
a start or stop, of walks, and of a worker inside a handler. It is not assumed of
clients (nobody must call), of the collector's taking part in a race for a mutex
more than weakly, or of the firmware of the card: `MutexIsGivenBack` rests on the
limits of the polls alone. `AllEventsShow` has as its premise that the driver
succeeds again and again while an update reads. In `AgentLife` a scrape that began
ends, and the main thread goes on with a destructor that it began; that it begins is
not assumed. `StatsQuery` and `TableRules` claim no liveness.

## 6. Where the code departs from its documents

* `domain_stop_hangs`: see StatsDomain above; `stats.c:1071`.
* `module_top`: a read of memory without a count takes a full page's worth without
  the check of offset + count; beyond the end it returns bytes from the start of
  the upper page. `module.cpp:804`, `sn_cfg_v2.proto:546-547`.
* `table_unused`: a field of type range that a rule leaves unused is packed as the
  range from 0 to 0, and the rule matches only 0. `snp4_table.c:62-67`.

Seen on the way, with no run of their own: the destructors free drivers, io data and
zones (`deinit_device`, `deinit_pipeline`) before `stats_domain_free` joins the
collector, and a freed zone stays in the list until then, so the collector may call
what is gone (`pipeline.cpp:129-134`, `agent.cpp:258-271`); only a server that is shut
down gets there, and nothing shuts it down. A dump that loses the race for an entry, or meets any other error of
the driver, ends early, and the request is answered OK (`snp4_api.c:460`, `527`,
`pipeline.cpp:340-353`); of a table in TINY_BCAM mode
it offers the driver a mask that inserts do not (`snp4_api.c:306`, `432`). A slice whose
step, which the protocol's `uint32` admits, takes the index beyond the largest
`int32_t` goes on at a negative one (`stats.cpp:429`): a step beyond that number, or a
smaller one from a start above 0. `StatsQuery` takes sums up to that number. `set_module_gpio` reads and writes all
lines in two calls, so it sets back lines it does not name to what they were before
a request of another thread (`module.cpp:317`, against `sn_cfg_v2.proto:448-449`);
the defaults leave the queues of virtual functions as they were, outside of the
channel they set (`defaults.cpp:40`, against `README.STACK.INSTALL.md:438`);
`GetModuleStatus` answers EC_OK whatever
went wrong (`module.cpp:1131`), where the protocol has a client look at the error
before the rest (`sn_cfg_v2.proto:586`); a request for too many queues is refused
after it has moved the base of the function's table (`qdma.c:112`, `spoilt` of
`HostConfig`).

## 7. What is proved

The first part of `ServerControlProofs`, for any sets of domains, callers and
collectors:

* `TypeCorrect`, without assumption.
* Under `Serialized`: `SerialInvariant`, and from it `AtMostOneCollector`,
  `FlagIsTruthful`, `JoinIsDefined`, `JoinWaitsForOneCycle` (a collector that is
  being joined begins no other update), and `Implementation`: `Spec` implies the
  safety part of `PeriodicTask`.

`ThreadsBalance` counts the collectors. It needs turns: without them a joined
thread's identifier may be in use again for another domain.

None of these invariants is inductive. That a domain has one thread depends on
the handle naming the thread that lives; that depends on who is between the halves
of a start or stop, and on that there is one of them only. `SerialInv` says these
together: the caller in progress is alone; every live thread is the one its
domain's handle names; an exited thread has its flag down; a flag that is up has
its thread or a caller about to make it, one that is down with a thread still
there has a caller that joins it. `Implementation` goes through the actions: the
first half of a start is `SwitchOn`, that of a stop `SwitchOff`, the end of a join
`Off`, the collector's update `BeginSample` and `EndSample`, all else stutters.

The second part of `ServerControlProofs`, for any devices, flags, workers and length of
a request. `UsesTheDomains` says that `ServerSpec` implies `StatsDomain`'s `Spec`, however
requests overlap, and with `TurnsInv` (the only callers between the halves of a start or
stop are the constructor and a worker in its loop over the devices, and they take turns
if requests do) the first part holds of the server. Under `Serialized`: `ForceInv` lets
the flag that is reported and what it stands for differ only for the devices that the
handler has still to visit, which gives `ConfigurationIsInForce` between requests;
`HonestInv` ties the flags to the part of the request that is done (`Past`, and `Told`:
what the last item that names a flag said), which gives `ResponsesAreHonest` for requests
of any length.

`CmsMailboxProofs`, for any threads, values and numbers of calls and attempts:
`TypeCorrect`, `MailboxInvariant`, and from it `VerdictsAreOwn`, `SuccessHolds`,
`DeadRequestsAreGone` and `EffectsInOrder`. That the error a thread reads is of its
own request does not follow from the mutex alone: a call that gave up leaves a
firmware at work. `MailboxInv` says what is left: inside the mutex is one thread,
with the last call that was numbered; the firmware works on the request in the
mailbox while busy is up; calls are numbered so that what was performed is not
behind the mailbox and the mailbox not ahead of the calls; and for each place of the
thread inside, how far the exchange of its request can be.

`CardConfigProofs`, for any number of ports, destinations, requests and readers and
under `Serialized`: `CardInvariant`, and from it `OneInterface` and
`ReportsAreReal`. Both properties are broken in the middle of an item and mended by
its second half, so `CardInv` names the halves: two interfaces of a port are open
only while a writer is between them, on the way to the physical one; one on the way
to the test interface has closed the physical one. A reader that found the test
interface closed may report the physical one as it is, or as closed if the test
interface was opened since.

The second half of the module is about what a request leaves behind
(`RequestsTakeEffect`) and the order of the defaults (`SwitchChangesQuietly`). Its
invariant, `EffectInv` (`RegistersFollowTheRequest`), says that what a writer has left to
do is the end of the list of its items (`Place`), and that each register holds what the
last granted item before that place wrote there, or what the request found (`Said`); the
multiplexers are an item apart between the halves of one. Refused items are skipped unit
by unit, which takes that the items of a unit stand together. What the lists of the
handlers' loops hold (`EachPort` is recursive over the ports) is shown by a least
counterexample among the numbers of ports. The defaults' list comes in phases, disable,
drop, select, egress, bypass, enable, so whatever is last for a register is known, and
when egress or bypass change, disabling and dropping are behind.

The first part of `AgentLifeProofs`, for any finite sets of zones and of RPC threads:
`TypeCorrect`, then
`ZonesInvariant`, and from it `CountsAccount`, `NeverUsedAfterFree` and
`NoZoneOutlivesTheDomain`. A count is right only together with the list and the walkers.
`ZonesInv` says that the list has each zone that lives once (`ListInv`); that until the
last walk a count is the number of those who hold or have taken the zone, and one for its
owner (`RefsAccount`; it is a cardinality, so the sets must be finite); what each walker
has in hand at each place (`InHand`) and who may walk when (`WhoWalks`); and that the walk
of `stats_domain_free` is always at the head of what is left, with the only reference
(`LastWalk`). `WalksInv` follows a walk: before the last one the list stays as it was, what
was visited is a first part of it, and what is in hand comes next; the last one has removed
what it visited. So a walk that is over has visited each zone once
(`EveryWalkIsComplete`).

The second part, for both agents, any pipelines and any RPC threads:
`LifeUsesTheZones`, that `LifeSpec` implies the `Spec` of `StatsZones`. Every action of
the agent is one of the zones or leaves them alone, so what is proved of the zones holds
of the agents from constructor to destructor (`LifeNeverUsesAfterFree`,
`LifeCountsAccount`, `LifeFreesTheZones`, `LifeWalksAreComplete`). What only the agent
knows is `LifeInv`: what is up in which order (`OpenInv`), that an allocated zone is
attached but for the one just made (`AttachedInv`), and that while the constructor runs or
the agent serves each part that was built is live (`BuiltInv`). It gives `ScrapesAreSafe`
and `CallsAreSafe`, where the destructor's window (section 6) is what the statement
excepts; `ShownInv` says that what a walker holds is a reading of the zone in its hand, and
gives `MetricsAreTruthful`. The assumptions are on what an agent builds (each zone is of a
part that is opened, counts are numbers), and TLC evaluates them.

`ModuleRpcProofs`, for any modules, threads, sizes and numbers of pages, and whatever
requests come together: `ModulesInvariant`, `TypeCorrect`, `ReadsAnswerWhatIsAsked`,
`WritesGoFromTheFront` and `LinesAreNotInvented`. `IInv` gives the place of a handler in
terms of its request: which byte or page comes next, as the `uint8_t` arithmetic of the
code has it (`Sizes`, `ModBelow`, `ModAbove`: an offset that wraps is an offset less a
width), what was collected so far, which bytes are written, and which a failed write may
still perform. A write that is performed late is one that its thread was allowed to make,
and lines that a read-modify-write sets back were named by some request for that module,
so neither invents a line.

The first part of `StatsBlockProofs`, for arrays of any size and words of any width:
what setting and
clearing all bits does (`AllOrNothing`), that the tests of words are tests of all bits
(`AllOrNothingIsSeen`), that `negate_all` is the complement and leaves the unused bits
alone (`NegateIsComplement`), that the operators on arrays are those on sets
(`AndOrAreSetOperations`), and that an assignment changes one bit (`AssignBitIsOneElement`).
They rest on where a position lies (`Place`, `PlaceOf`): quotient and remainder by the
width of a word, within the mask of its word.

The second part, for any metrics, updaters, clearers and width of a register:
`TypeCorrect` (no register, sample or value exceeds its width: it takes that what is
in a register was counted, `TypeInv`), `CountsOnce`, that is `CountsEveryEventOnce`, and
`CountersOnlyGrow`. `CountInv` follows an event. The mutex leaves one updater at
work (`OneUpdater`). What a latched counter counted is in its register, in what was
latched and not yet read, or in the value; which of the latter two depends on whether
the updater has passed the metric, and on whether the latch succeeded
(`LatchedCounts`, `LatchedSample`). The value of a pair is its last reading less the
one that cleared it, and a reading that is not torn is what was counted, since the
low and the high half are then of one number (`PairedCounts`, `PairedSample`). The
arithmetic is that of words: `Differences` makes one difference of two. `OrderInv` adds
that readings are made in the order of the events, which leaves only a clear or a torn
reading to make a counter go back.

`HostConfigProofs`, for any numbers of hosts, functions and table entries, whatever the
width of an integer, and any requests. Assumed is what the code takes for granted: that
hosts, functions and the queues of all functions of a host together can be counted
in an integer, and that the numbers of a request fit one. `TypeCorrect` needs no
turns. Under `Serialized`:

* `QueuesShareAlike`, that is `EvenlySpread`: while no Set request is at work, the
  packets of a function go to all of its queues and to none beyond, and the numbers of
  table entries of two queues differ by one at most. `Spread` lets table and range of a
  function disagree only where the writer at work is between them (`Written` says what
  it has written of the present item) or where a request was refused half way
  (`spoilt`). How many entries fall to a queue is the count of the numbers below the
  size of the table with one remainder (`Residues`).
* `RegistersFollowTheRequest` and `RequestsTakeEffect`, along the lines of
  `CardConfigProofs`: `EffectInv` says that what is left to do is the end of the list of
  items and that each range, channel and threshold is what the last granted item
  before it wrote, or what the request found. The channel is the sum of the ranges of
  its functions, which `AddFunction` makes in turn (`SumRight`; `AddedUp`: so far it counts
  the queues of the functions added and begins at the least base of those in use; it is
  at most `TableSize` for each function, so it does not wrap). What the
  recursive functions of the lists and sums hold is shown by induction over sets of
  numbers (`UpTo`).

`TableRulesProofs`, for any devices, pipelines, tables, fields, actions, workers and
requests, and whichever calls of the driver fail. Assumed is that the driver lists all
of its tables (`TableListAssumption`); of what the compiler of a P4 program writes, that
a key is as long as its fields or longer and the widths of an action's parameters can be
added up in the `uint16_t` that does (`TableInfoAssumption`); and the types of messages
(`RequestAssumption`): a rule may have any number of matches of any format, and numbers of
any size and sign.

* `TypeCorrect`, from `TypeInv`: what is still to do is at pipelines that are there
  (`ThereStill`), a rule at the packing has passed its checks (`AtRule`), and each table is
  a finite function whose entries have actions of the table.
* `FreedOnce`, that is `ArraysFreedOnce`. The two packers free arrays that their caller
  frees again, which is safe only because that path is never taken: `NeverTooBig` says
  that fields, each not wider than it may be, make a key, a mask and parameters that fit.
  It takes that 2^(m+n) is the product of the powers, which the provers do not know.
  `PowerOfSum` shows it by induction over a set of numbers, and `ExtendFits` and
  `WholeFits` go from one field to all.
* `AnswersAreComplete`, that is `OneAnswerEach`. A row of targets has each pipeline
  that is meant, in order, and one refusal for each device without it (`Row`); rows for
  devices that follow one another join to such a row (`RowsJoined`), and `Targets` is one
  (`TargetsRow`). `AnswerInv` says that the answers are to the first targets and
  `todo` is the rest.
* `DumpsShow`, that is `DumpsShowTheTables`. `PastInv` says of every walk that its lines,
  and the table as it is, are among what the table has been since the walk began (`past`),
  which any change by another worker adds to (`OthersPast`). `DumpInv` says of a walk that
  nobody disturbed that its lines are those of the entries that it has met (`Met`: those
  of the actions before the present one, and of its own as far as the position), each
  once (`Lines`), that what `GetByKey` looks up is the next of them, and that a table
  behind the walk is shown as far as the walk came (`Shows`): in full when it came to the
  end, which is when no call failed. `Entries` and `Actions` count finite sets off
  (`Enumerated`), so after the last action nothing is left (`MetAll`).

Only model-checked: liveness (the fair half of `ImplementsPeriodicTask`, `AgentEnds`,
`RequestsAreAnswered`, `MutexIsGivenBack`, `AllEventsShow`), since the prover has no rules
for ENABLED; `ImplementsRuleStore` and `AnswersForAPrefix` of `TableRulesRefinement`; and
`StatsQuery`. The first two compare what was packed, by shifts and additions over lists of
any length, with what it lets pass value by value and bit by bit (`Parts`, `Shown`,
`Wanted`): division and remainder by powers with variable exponents, of which the provers
know nothing, in an induction over lists whose step is about all bits at once. The
filters of `StatsFilter` are trees; the recursion over them is a RECURSIVE operator, with
which the SMT backend does not work, and what it computes takes induction over trees.
The type invariants of the proved modules are not checked again by the runs.

## 8. What is not modelled

* The time stamp that readers of a block report; the export of metrics to Prometheus.
* Two `Set...` requests at once on the bit sets of `ServerControl` (a data race), on
  the switch and on the queues of a host (lost updates, above).
* A range of devices in the `Set...` requests of switch, ports, hosts and modules.
* The width of the fields that queue numbers are written to.
* The registers under the P4 driver, whose calls are single steps.
* Regular expressions, but for the names that they accept.
* Parsing of options, TLS and authentication in the agents' `main`.
* What the table of components in `PROJECT.json` lists as not modelled: decoding
  and formatting, clients, packaging, generated and vendored code, and the parts
  of the plan above that are not done.
