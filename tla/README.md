# A TLA+ development for the L4S queue discs and their traffic control engine

This directory holds TLA+ modules, TLC configurations and TLAPS proofs about the
program in `src/`: an ns-3 `traffic-control` module with five queue discs for L4S
(low latency, low loss, scalable throughput), the LTE RLC entity that carries the
same ideas into a radio bearer, the Linux congestion control they were tried with, and
the Python scripts that turn the traces of a simulation into figures.

Sections: [the system](#the-system) · [what is hard in it](#what-is-hard) ·
[the modules](#the-modules) · [the runs](#the-runs) · [fairness](#fairness) ·
[the proofs](#the-proofs) · [disagreements found](#disagreements-found) ·
[not modelled](#not-modelled) · [the plan](#the-plan)

Run them here with `tlc -config MCDualQueue.cfg MCDualQueue`, and
`tlapm LteRlcUm_proofs.tla` for a proof module.

## The system

One packet's way: the IP layer calls `TrafficControlLayer::Send`; that enqueues the
packet in the root queue disc (or in the child disc of the packet's transmission
queue) and calls `QueueDisc::Run`; `Run` takes packets out of the disc with
`DoDequeue` and hands them to `NetDevice::Send` until the disc is empty, the device
stops the transmission queue, or a quota is spent. A device that has drained a stopped
queue wakes it, which calls `Run` again.

| component | state it keeps | operations | what makes it correct |
|---|---|---|---|
| `QueueDisc` (engine) | packet counters, `m_requeued`, `m_running` | `Enqueue`, `Dequeue`, `Drop`, `Run`/`Restart`, `DequeuePacket`, `Requeue`, `Transmit` | no packet is lost, duplicated, reordered, or left without a wake to come; counters balance; one `Run` at a time |
| `TrafficControlLayer` | devices, their discs, discs to wake | `Send`, `Receive`, `SetRootQueueDiscOnDevice`, `DeleteRootQueueDiscOnDevice`, `DoInitialize` | the disc that is woken is the one that holds the packets |
| `L4SPi2QueueDisc` | two queues, two stamp queues, PI state | `DoEnqueue`, `DoDequeue`, `CalculateP` (timer) | stamps mirror packets, time-shifted order, mark before drop, the loop ends |
| `L4SCREDQueueDisc` | two queues, stamps, moving average | `DoEnqueue`, `DoDequeue` (two nested loops) | as above; strict priority |
| `L4SMyPieQueueDisc` | two queues, stamps, PIE state, burst allowance | `DoEnqueue`, `DoDequeue`, `CalculateP` (timer) | a burst after calm passes; probability stays in 0..1 |
| `DQMyPieQueueDisc` | the same for each band, and a round robin | `DoEnqueue`, `DoDequeue`, two `CalculateP` timers | weighted sharing: no less, no more |
| `DQREDQueueDisc` | two queues, stamps, round robin | `DoEnqueue`, `DoDequeue` | weighted sharing from an uninitialised counter |
| `Ipv4QueueDiscItem` | header, "header added" flag | `Mark`, `AddHeader` | ECT may become CE, nothing else; one header per packet |
| `FqCoDel`, `CoDel`, `PfifoFast`, `RED`, `PIE` | flow lists and deficits; dropping state; bands; averages | `DoEnqueue`, `DoDequeue`, `DoPeek` | DRR fairness, control law in 32-bit time, strict priority, Peek agrees with Dequeue |
| `LteRlcUm` | transmit buffer, sequence numbers, reordering buffer and timers | PDU build and receive, reassembly, timers, buffer status | SDUs are delivered whole, in order and once, for any reordering and any loss short of half a cycle in a row |
| LTE AQM coupling | drop probability, handle to the other bearer | handshake at the first packet, `CalculateP`, `DropEarlyPIE`, `DropEarlyRED` | both bearers find each other, and couple only then |
| DCTCP (Relentless) | CE state, alpha, ECN echo carry | CE state changes, `in_ack_event` | every CE mark is echoed; the window never wraps |
| `inet_ecn.h` | none | encapsulation and CE helpers | the tables of RFC 6040 |
| parsing | the file `averages`, two database tables | five scripts, run one after the other | a row holds one simulation's measurements, each in its column |
| plotting | parallel lists | read rows, subtract, draw | a point is the measurement its line, label and title name |
| bindings | what pybindgen knows so far | some 360 registrations for each of two ABIs | nothing is looked up before it is registered; no method is dropped |
| helpers, simulations | none of their own | construction before a simulation starts | - |

Interactions: plain calls within one simulator thread, timers (`Simulator::Schedule`
of `CalculateP`, the LTE timers), and callbacks (an internal queue's drop callback
calls `QueueDisc::Drop`; a device's wake callback calls `QueueDisc::Run`, possibly in
the middle of the `NetDevice::Send` that `Run` itself is in). There are no threads and
nothing is persisted; what varies is the order of arrivals, dequeues, timers and wakes,
the random draws, and the nesting of calls. Between the two ends of a radio bearer PDUs
are lost, repeated and reordered. The offline tools meet through a file and a database
only, and each of them may fail and leave the others to go on.

## What is hard

The full list, each at its line, is under `hazards` in `PROJECT.json`. The themes:

* **Two containers that must agree.** Each disc pushes an arrival stamp beside an
  internal queue *before* that queue accepts the packet, and pops it by hand in each
  branch of its dequeue. All delays, and the round robin's dereference of its item,
  rest on the two staying in step (`Lockstep`).
* **Loops that decide by chance.** `while (true)` with draws, saturation and two
  thresholds: they must end (`DequeueReturns`), drop only when a mark will not do
  (`Pi2MarkBeforeDrop`), and serve in the promised order (`Pi2Order`).
* **State read once and used for many packets**: L4SCRED's inner loop (`CredPurges`).
* **Timers against arrivals at one instant**: burst allowances (`BurstsProtected`).
* **Uninitialised or wrapping counters**: the round robin (`RoundRobinBound`,
  `TurnsWhole`).
* **Re-entrancy and stop/wake races** in the engine: a wake inside a send, a stopped
  queue read before and after it may change, a requeued packet that blocks others
  (`RunOnce`, `InOrder`, `AllNoStall`, `Drains`, `AllRequeuesNeedBoth`, `AllNoOverflow`).
* **Counting in five places**: `Accounting`, `CountedDrops`; across a root disc, its
  flows' discs and a drop callback: `CountsAgree`; in rows written once a second from
  counters that are reset in between: `EveryByteTraced`.
* **Lists and statuses**: a flow that is emptied by someone else keeps its place, and new
  flows go first (`ListsMatchStatus`, `NoStarvation`).
* **Loss, repetition and reordering with 10-bit numbers** (`PromiseKept`, `NoAliasing`,
  `GapsClose`), timers that are the only ones to wake somebody (`NeverStranded`,
  `EverythingSent`).
* **Pointer arithmetic as a way to meet** (`CoupledAlike`).
* **A state that changes under a delayed acknowledgement**, and an unsigned subtraction
  (`EchoTruthful`, `EveryMarkCounts`).
* **Data kept together by position alone**, with steps that fail and leave something out
  (`RowsAligned`, `FreshRows`, `PlotHonest`, `CompareHonest`), and hundreds of calls in an
  order that nothing checks (`EveryLookupFinds`, `ApiComplete`).

## The modules

### The five L4S discs

| module | models | lines |
|---|---|---|
| `DualQueue` | what the five discs share: base-class counters, two DropTail queues, two stamp queues, forced drop, store, admit (mark or drop at enqueue), settle (mark or drop at dequeue) | `l4s-pi2-queue-disc.cc` 150-184, `queue-disc.cc` 410-484, `ipv4-queue-disc-item.cc` 98-108 |
| `L4SPi2` | `L4SPi2QueueDisc` | `l4s-pi2-queue-disc.cc` 150-364 |
| `L4SCred` | `L4SCREDQueueDisc` | `l4s-cred-queue-disc.cc` 162-332 |
| `PieControl` | the PIE arithmetic two discs repeat | `l4s-my-pie-queue-disc.cc` 256-311 |
| `L4SMyPie` | `L4SMyPieQueueDisc` | `l4s-my-pie-queue-disc.cc` 145-349 |
| `RoundRobin` | the weighted round robin two discs repeat | `dq-red-queue-disc.cc` 294-417 |
| `DQMyPie` | `DQMyPieQueueDisc` | `dq-my-pie-queue-disc.cc` 167-464 |
| `DQRed` | `DQREDQueueDisc` | `dq-red-queue-disc.cc` 188-417 |
| `TwoBandQueue` | abstract: the promise all five make to the engine | - |
| `L4SDiscs` | the five as they can be installed: variable `disc` says which one is, and its handlers are the steps | - |
| `MCDualQueue` | `L4SDiscs` for TLC: the settings that are functions of the band | - |

State: `q` and `tsq` are the two internal queues and the two stamp queues, by band;
`received`, `dropped`, `nPackets` are the base-class counters and `stats` the disc's own;
`pc` is `"dequeue"` between two rounds of a dequeue loop and `"crashed"` after a null
dereference; `now` is the simulator's clock.

Actions: `DoEnqueue` is one arrival with all it does, base-class counting included.
`DoDequeue` of the discs with a loop is `StartDequeue` and then one `Round` per pass of
the loop, so that the loop's end is something to check; a call in progress is not
interleaved with arrivals or timers (`pc = "idle"` guards those), because the simulator
is single-threaded. `CalculateP` is enabled exactly when its timer is due, before, between
or after the other events of that instant, and `Tick` does not pass an event that is due.

Data: packets have one size, so byte thresholds are packet thresholds. A packet carries
`ecn`, and as history the codepoint and time of its arrival. Probabilities are integers
with `ProbOne` for 1, and a draw of the uniform variable is its least or its greatest
value: for a comparison with one probability these give the same outcomes as all
values. PIE's auto-tuning divides an increment by powers of two far below the grid; it is
modelled as any increment of the same sign that is no larger. L4SPi2's probability is not
clamped in the code and not in the model; the PIE discs' is, in both.
`DQRed` starts `dqCounter` anywhere in its range, as the code never initialises it.

Left out of the discs: the output files, throughput counters that only feed them,
`DoPeek`, and `CheckConfig`, which appears as the assumptions `LimitAssumption` and
`CapacityAssumption`. The latter asks of both internal queues what `CheckConfig` asks of
the Classic one; the simulations of `my-sims` configure both alike.

### The engine

`TrafficControl` models `TrafficControlLayer::Send`, `QueueDisc::Run` and everything
`Run` calls (`queue-disc.cc` 410-655). `stack` holds the calls of `Run` in progress, each
at its `while (Restart ())` or inside `NetDevice::Send`; a wake in the middle of a send
pushes another. A disc is *any* `DoEnqueue` and `DoDequeue` that keep the promise of
`TwoBandQueue` (packets leave once, dropped or delivered; 0 only when nothing is stored),
so what is shown holds for all of this repository's discs. The device is external: it
counts packets per transmission queue, stops a queue when full and wakes it when drained,
whenever it likes. `Installations` puts together the four ways in which discs meet a device:
a root disc on several transmission queues, a child disc for each, a single queue with flow
control, and without; `setup` says which, and its steps are those of an `INSTANCE` of
`TrafficControl`. `MCTrafficControl` gives TLC the functions from queues to discs.

`DiscOf` stands for `queueDiscsToWake`: the root disc for every queue (`WAKE_ROOT`) or a
child per queue (`WAKE_CHILD`).

### The LTE bearer

`LteRlcUm` is both ends of an RLC entity in unacknowledged mode (`lte-rlc-um.cc`
517-1657) with HARQ between them, which is external. The sender keeps the segments of
`txBuffer` and gives the MAC reports; `DoNotifyTxOpportunity` is the whole handler with
its loop (`Fill`) over length indicators. The receiver is `DoReceivePdu` with all it calls:
the window update, `ReassembleOutsideWindow`, `ReassembleSnInterval`,
`ReassembleAndDeliver`, and the reordering timer; `ExpireReorderingTimer` is the timer's
handler. An SDU is its number, a segment a stretch of it, so that what is joined wrongly
can be seen. `SequenceNumber10`, which is not part of the repository, is modelled by how
it is used: arithmetic modulo `Modulus` and comparisons relative to a base.
`RlcPromise` is the abstract specification: SDUs come out whole, at most once, in order.
The properties stand beside the entity, with the refinement mapping `Promise`: the SDUs accepted
are counted, and a packet that comes out is the number of the SDU it is, or 0 if it is not a
whole one. `MCLteRlcUm` adds the instance and the liveness properties. Three history variables
tell what the program does not keep: the sizes of the SDUs, how many PDUs were sent, and how
many up to the latest that arrived (`heard`).

The loop of `ReassembleOutsideWindow` (1521) goes through the raw keys from the smallest,
not in the order of sequence numbers, and stops at the first that is inside the window.
Under `RlcAssumption` the timer has always emptied the buffer that far, so the loop finds
nothing to deliver and its order never shows (a step of `OutsideMoves` in the proofs); it is
in the model all the same.

`LteCoupling` is the other half of `lte-rlc-um.cc` (42-91, 221-490) with `ptr.h`: the
handshake of the L4S and the Classic bearer, the copy of the settings, the reference
counts that a moved `Ptr` leaves behind, and the rows of the throughput file.

### The parts that do not meet

| module | models | lines |
|---|---|---|
| `CoDel` | one `CoDelQueueDisc`, as operators on its state | `codel-queue-disc.cc` 215-570 |
| `FqCoDel` | `FqCoDelQueueDisc` over a `CoDel` disc for each flow | `fq-codel-queue-disc.cc` 152-391 |
| `LteCoupling` | see above | |
| `Dctcp` | `tcp_dctcp.c` with the relentless reaction: receiver, ACKs, sender | `tcp_dctcp.c` 85-299 |
| `MCParts` | FqCoDel, LteCoupling and Dctcp under one configuration; `part` says which is looked at | - |

FqCoDel's flows are free to be chosen per packet (the filter's hash), the control law's
square root is any gap up to the interval, and time is what is left until an instant.
The two nested loops of FqCoDel's dequeue are written as what they amount to. CoDel's `while
(now >= m_dropNext)` drops a number of packets that is known on entry, so `DropWhileDue`
takes that many at once. The turns of FqCoDel's `do ... while` are a function over at most
`MostTurns` of them; that no dequeue needs more, so that the function is the loop and not a
bounded copy of it, is part of `FqWorkConserving`.
DCTCP counts in full segments; ACKs are at most every second segment late, nothing is lost.

### The offline tools

What the project reports about its queue discs rests on them, and they are the
Python part of the repository, so they have modules as well.

| module | models | lines |
|---|---|---|
| `Results` | the two tables, as far as a `SELECT` can tell | `plotting/l4s.sql` |
| `Parsing` | the five parsing scripts, the file `averages`, the inserts | `parsing/*.py` |
| `PlotConf` | the sixteen `plot-per-*` scripts | `plotting/plot-per-*.py` |
| `PlotCompare` | the six `compare-*` scripts | `plotting/compare-*.py` |
| `BindingsData` | what the two `modulegen` files register, in order | `bindings/modulegen__gcc_*.py` |
| `Bindings` | how pybindgen takes these calls, one by one | the same |
| `MCTools` | the four under one configuration | - |

A database is "odd" where a configuration has no row, two rows, or one whose derived
columns are still NULL. Each script fails where the code does: on the first field of an
empty slice, `[[0,0]][2]`, `float(None)`, an axis with lists of different lengths. Values are
not kept: a row knows which configuration or simulation it is of, which is what the
properties ask. In a comparison a point has the label over which it stands, the i-th of the
script's labels for the i-th tick; `CompareHonest` holds with one exception that it names,
the label over `l4s-pie` in the LTE scripts, and the run `lte_labels` shows that one.
`BindingsData` is long because it is the data of 13,000 generated lines;
a method is in it if it uses a type that could be unknown.

## The runs

| run | what it asks | bounds | distinct states |
|---|---|---|---|
| `dualq` | types; `Lockstep`; `Accounting`; `RoundRobinBound`; `CountedDrops`; `KeepsPromise` (implements `TwoBandQueue`); `Pi2Order`; `Pi2MarkBeforeDrop`; `CredPurges`; `BurstsProtected`; `TurnsWhole` | limit 3 and 4 arrivals for each disc; 3 ticks for L4SPi2, 2 for L4SCRED and L4SMyPie, 1 for the round-robin discs | 949,999 |
| `loops` | `DequeueReturns`: each dequeue of L4SPi2 and L4SCRED ends | 3 arrivals, 2 ticks | 91,947 |
| `drop_stats` | a violation: drop statistics of the PIE discs | as `dualq` | stops at the first |
| `engine` | types; `RunOnce`; `Accounting`; `AllNoStall`; `QuotaRespected`; `AllRequeuesNeedBoth`; `AllNoOverflow`; `InOrder`; `Drains` | 6 arrivals, quota 2, discs of 3 packets, transmission queues of 2; child discs of 2 with 4 arrivals each; a single queue of 1 | 22,174 |
| `rlc` | types; `NoAliasing`; `NeverStranded`; `PromiseKept` (implements `RlcPromise`); `EverythingSent`; `GapsClose` | 8 sequence numbers, started at 1 and 7; 3 SDUs of 1 or 3 bytes; 2 PDUs of reordering, 1 while the timer runs; repeats | 311,350 |
| `rlc_wrap` | a violation: the comment at the update of VR(UR) | as `rlc` | stops at the first |
| `parts` | `CountsAgree`, `ListsMatchStatus`, `NoStarvation` (FqCoDel); `CoupledAlike`, `EveryByteTraced` (LTE coupling); `EchoTruthful`, `EveryMarkCounts` (DCTCP) | 2 flows, limit 3, batch 2; 4 arrivals at two bearers; 7 segments, window 3 to 4 | 386,613 |
| `refs` | a violation: `ptr.h` on when an object is deleted | 3 arrivals | stops at the first |
| `tools` | `PlotHonest`, `CompareHonest`, `RowsAligned`, `FreshRows`, `EveryLookupFinds`, `ApiComplete` | all scripts and arguments, up to two odd configurations; 3 simulations, 12 lines, 2 rows; all calls of both `modulegen` files | 416,202 |
| `legend` | a violation: the labels of two figures | all scripts and arguments | stops at the first |
| `lte_labels` | a violation: the names of the disciplines in the LTE comparisons | all six scripts | stops at the first |
| `schema` | a violation: the shipped dump against the plots | all scripts and arguments | stops at the first |

`parts` and `tools` put together what shares no state: a variable chosen in the initial
state says which of them moves, so that the state space is the sum of theirs.

Why these bounds are enough for the cases that matter:

* A limit of 3 with 4 arrivals reaches forced drops, both bands occupied at once, a band
  with two packets behind the head being served, and a purge of more than one packet in
  one dequeue. Three ticks put heads of both bands on either side of the time shift of
  L4SPi2 (`TShift = 2`), and let its timer run twice.
* The round robin has shares 2 and 1 (`NLF = 4`, `NCF = 2`: the division by the gcd
  matters) and a counter modulo 8, so that it starts anywhere, exceeds both shares, and wraps.
* Burst allowances of 1, 2 and 3 update periods end within the run, and the probability
  gets from 0 to its maximum and back.
* In the engine a quota of 2 and 3 stored packets exhaust the quota with packets left;
  two packets per transmission queue fill and stop it, and it is woken at 1, in the
  middle of a send or later; two transmission queues on one disc give the requeued packet
  that blocks a packet for the other queue.
* Eight sequence numbers make a window of four. `Spread + 2 * MaxAwait` has to fit into it
  (a late PDU may wait for two runs of the timer), as twice 100 ms and the HARQ round trips
  fit into 512 in the program. That one run fits (`Spread + MaxAwait`) is not enough: with 12
  numbers, one PDU of reordering and four while the timer runs TLC finds an aliased number. The
  theorems hold for any numbers that meet this bound. The model sends at most 9 PDUs, too few for what
  breaks `PromiseKept` (one that arrives, four lost, four discarded, and a tenth: see the
  disagreements), so that it holds here without `SomeHeard`. The two starts put the wrap before,
  inside and after a gap. Opportunities of 2, 3 and 10 bytes are one too small for a header, one
  that cuts each SDU, and one for all.
* Two flows and a limit of 3 make one flow the longest after the other, drop more than
  the packet in hand, and let a flow be emptied while it is in either list. A gap and
  target of 1 let CoDel enter its dropping state and drop twice in one dequeue.
* Four packets at two bearers are two failed attempts of a handshake and a success, with
  a row of the throughput file before, between and after them.
* Seven segments with a window of 3 to 4 give an ACK of two segments, one of one because of
  the CE state, an odd mark carried over, and a window reduced to 1.
* Two odd configurations at once are what shifts a list without changing its length. Three
  simulations leave the lines of one in the file of the next but one.

`MaxArrivals` and `MaxTime` bound the model, not the system; where they stop it, it
deadlocks in TLC's sense, so the configurations turn the deadlock check off. Everything
that must go on is stated by `DequeueReturns` and `Drains`. Each property has a mutant
(`mutants` in `PROJECT.json`): a plausible bug, defined beside the definition it alters
and marked as such, under which the run fails.

## Fairness

Safety runs use no fairness. `DiscsSpec` of `L4SDiscs` asks weak fairness of the rounds of a
dequeue loop: a call that has begun is executed by the one thread to its end, nothing can
take the processor away. `InstallSpec` of `Installations` asks it of the steps of `Run`, for the same
reason, and of each transmission queue's device, which sends what it holds at the pace of
its channel. Arrivals are not fair: nothing need ever arrive again. `Drains` therefore
excuses a disc whose last `Run` spent its quota: the code's `\todo netif_schedule` leaves
its packets to the next arrival or wake.

`LteRlcUm!Fairness`: both timers are events of the simulator and expire; the MAC scheduler
does not forget a bearer that has reported data, nor give it only opportunities of two
bytes; HARQ decides on each PDU in the end. It need not let any PDU through: `GapsClose` and
`EverythingSent` hold for a channel that loses everything. `FqCoDel!Fairness`: the device
goes on asking as long as there is a flow in a list. Arrivals, ticks and the choice of a
flow are not fair, so `NoStarvation` covers a flow that sends without end. Two of these
conditions are weak fairness with ENABLED written out as what it means there, since TLC
takes long to evaluate it.

## The proofs

TLC checks the small instances above; the theorems hold for every value of the constants
that meets the named assumptions. These are the assumptions TLC evaluates on the runs, and
each says what the code, its `CheckConfig` or its attribute checkers ask for:

| assumptions | say |
|---|---|
| `LimitAssumption`, `CapacityAssumption`, `BoundsAssumption` | a limit above 0 and internal queues that hold it |
| `Pi2Assumption`, `CredAssumption`, `RedAssumption`, `PieAssumption`, `MyPieAssumption`, `DQMyPieAssumption`, `DiscsAssumption` | the types and signs of gains, delays, thresholds and intervals; intervals above 0 |
| `ShareAssumption` | weights that are not both 0 and below the counter's range |
| `TrafficAssumption`, `InstallAssumption` | a quota above 0; a device that stops its queues later than it wakes them |
| `CoDelAssumption`, `FqAssumption` | a quantum, batch and limit above 0; a flow's disc that holds one packet more than the limit of all |
| `RlcAssumption` | an even modulus above 2; a PDU that arrives late and then waits for two runs of the reordering timer is within half a cycle; sizes are naturals, and no SDU is empty |
| `DctcpAssumption` | a first window within the largest one, and that below the range of the unsigned difference |

`LteCoupling` and `Parsing` need none. Two theorems about the LTE RLC assume a behaviour as well:
`[]SomeHeard`, that of the PDUs sent since the latest that arrived there are never more than half a
cycle (512). HARQ sends a PDU up to four times, so that so many in a row are lost only on a link that has long
failed; but nothing in the code excludes it, and the theorems do not hold without it: see the
disagreements. What is proved, by module:

* `DualQueue_proofs` has lemmas, no theorems about a disc: each handler of each disc is made
  of a few building blocks (an arrival stored, an arrival refused, a head thrown away, a head
  handed over, a call that returns nothing, a step of the clock), and each of them preserves
  types, lockstep, accounting and the order of the stamps, and is a step of `TwoBandQueue` or
  leaves what it shows alone. `Piece` is their disjunction. A disc has to show only that its
  handlers are pieces, and what it adds. Then the lemmas on the round robin: on the shares
  (`Gcd` is a positive natural, so that a share fits into the counter) and on the turn.
  `RRInv` relates the history variable `turn` to the counter: a turn is never longer than the
  counter says, and a turn that began by taking over from the other band is exactly that
  long, so an arbitrary initial value or a wrap can only shorten the turn in which it happens.
* `DQMyPie_proofs`: `PieTypeCorrect` (the probability stays in 0..1 for any gains, delays
  and tuning), `PieLockstep`, `PieAccounting`, `PieRoundRobinBound`, `PieWholeTurns`,
  `PieKeepsPromise`, `PieBurstProtected`. For the last the invariant relates three variables
  of a band: what the allowance holds is at least the time from the next update to the end
  of the protected interval (`Covers`), and the next update is neither late nor more than an
  interval away (`OnTime`). A calm arrival establishes it, an update takes one interval from
  both sides, and a signal needs an allowance of 0.
* `L4SDiscs_proofs`: about L4SPi2 by itself `TypeCorrect`, `Pi2Lockstep`, `Pi2Accounting`,
  `Pi2CountsDrops`, `Pi2TimeShiftedOrder`, `MarksBeforeDropping`, and `Pi2KeepsPromise`, the
  refinement of `TwoBandQueue` step by step. Besides types, `Lockstep` and `Accounting` the
  invariant needs one fact the properties do not state: each stamp queue is sorted and holds
  no stamp from the future. Without it the order of *all* waiting packets does not follow
  from a comparison of the two heads. Then the four `Red` theorems about DQRED, and eleven `Discs`
  theorems, one for each safety property of the run `dualq`, about whichever disc is
  installed. `DiscsInv` says that the shared part and the round robin are in order and, for
  the installed disc, its own part: that of L4SPi2 and DQMyPie is in their modules, for
  DQMyPie by way of an instance (`DQPieP`) whose operators are shown to be the same; the
  others are here.
  `CredInv` is what L4SCRED's inner loop relies on: while it goes on, its last comparison
  said "signal", for a packet that could not be marked. With an average that never falls
  while it is not above the delay (`AverageRises`) and draws that stay, every further
  comparison says the same, which is `DiscsCredPurges`. `MyPieInv` is `Covers` and `OnTime`
  for the one timer of L4SMyPie.
* `TrafficControl_proofs`: `TypeCorrect`, `RunsOnce`, `BooksBalance`, `QuotaKept`,
  `NeverStalls`, `RequeuesOnlyThen`, `NeverOverflows`, `HandsOverInOrder`, from one
  invariant in named parts: the stack (one frame per running disc, all but the top one
  inside a send), the frames (what was sent plus the remaining quota is the quota), the
  books (counters, and which item is next to be handed over), the device (with flow control
  a queue that is not stopped has room), and what is settled about a disc that is not
  running. The last is what makes `NeverStalls` inductive:
  a disc may hold packets and not be running only if a queue that runs it is stopped.
* `Installations_proofs`: the eight `Install` theorems, for the four installations of the run
  `engine`. Each is an instance of `TrafficControl_proofs`; lemmas say action by action that
  the operators of the instance are those of `Installations`.
* `Parts_proofs`, about the parts that do not meet.
  LTE coupling: `BearersCoupleAlike`, from what the tokens and flags say about who
  has started (`SetupInv`); `RowsAccountForBytes`, from a balance of the bytes counted,
  buffered, sent and refused since the last row (`CountInv`), for packets that together fit
  into the 32-bit counter.
  DCTCP: `EchoesAreTrue`, whose invariant (`EchoInv`) says that the segments that
  wait for their ACK were all marked as the CE state says, and that between two steps the
  demand for CWR equals that state, though a CWR has just cleared it. `MarksAllCount`: the
  ACKs on their way cover the segments from the sender's first unacknowledged one on without
  a gap or overlap, no more are out than the window allows, and the sender's window is that
  of one who sees each segment (`WindowInv`). That the marks of one ACK of n segments take
  off what n single marks do is by induction on n, in the form of a least counterexample.
  FqCoDel: `FqCountsAgree`, `FqListsMatchStatus`, `FqWorkConserving`, from `FqInv`: the
  root's count is the sum of the flows' queues and within the limit, each flow is in the
  list its status says and once, one with packets is in one of them and has a class (so that
  the longest flow can be found). They rest on three arguments. CoDel conserves packets: what
  it drops, returns and keeps is what it had (`CoDelConserves`); a packet that may be dropped
  is never the last one. Sums over a finite set of flows change by what one flow
  changes by (`SumRule`, `SumChanged`). And each turn of the dequeue's loop either ends it or
  takes one from the variant `MostTurns`, so that the loops end within it, with a packet or
  with nothing stored.

* `LteRlcUm_proofs`: `NumbersSuffice` (`NoAliasing`) and `NothingStranded` (`NeverStranded`),
  for any modulus and any loss, delay and repetition, from `RlcInv`. Modular numbers are
  awkward to reason about, so the invariant counts back from the next PDU to be sent: `Age` is
  how many PDUs ago one was sent, `Behind` the same for a number, and `NumbersOK` says that
  they agree. `WindowOK` is about a running timer: all in the buffer are between VR(UR) and
  VR(UH); what is from VR(UX) on has arrived since the timer was started, what is before has
  waited for the run before as well, so that its age is at most
  `Spread + MaxAwait + reordering`. It is the part of VR(UX) that makes this inductive: when the timer
  expires or is stopped, all before VR(UX) leaves the buffer, and the second kind of PDU is
  gone before the first becomes of that kind. The handler of a PDU is shown in two
  cases, inside the window and outside, to come down to one operator (`Moves`), about which
  `MovedWindow` says the rest; the timer's handler is a third case of it. Both loops that look for
  a missing PDU end at VR(UH) at the latest (`NextMissingIs`, `FirstMissingIs`), also where the
  raw number does not wrap. On the sender's side `FillIs` says that what is
  left of the buffer is segments again.

  `PromiseHolds` (`PromiseKept`) and `RlcTypeCorrect` (`RlcTypeOK`) are about the contents, from
  `PromiseInv`. It takes all SDUs as one stream of bytes, in which a place is an SDU and an offset.
  There are places `c[0], c[1], ...`, never going back, such that PDU n carries exactly the bytes
  from `c[n]` to `c[n + 1]` (`Carries`), and what waits to be sent is the rest (`Unsent`). `FillSplits` and
  `SplitStretch` show that the loop of `Fill` cuts the stream at one place, whichever segment it stops
  at. At the other end, `Awaits` says that reassembly has passed the PDUs before some n, has
  delivered only whole SDUs from before `c[n]`, each after the last, and keeps the piece that ends at
  `c[n]` or nothing; `OneMore` shows that `ReassembleAndDeliver` takes this from n to behind any later PDU, and
  `InTurn` that a whole pass of the loop does. What remains is that the number reassembly
  expects stands for PDU n and for no other (`PassedOK`, `HeardOK`): it is where `SomeHeard` is
  needed, and where it is enough, since while reassembly is behind VR(UH) something less than a window
  ahead of it waits in the buffer. Every arrival and every end of the timer is one step of this
  kind (`MovedOn`).
* `Parsing_proofs`: `ColumnsRight` (`RowsAligned`) and `RowsOfOneSimulation` (`FreshRows`), for
  any number of simulations and scripts run in any order, from `ParseInv`. Each script appends
  whole sections, and a section begins with a header, a line without fields. `Shape` says
  what the first eight lines can be: a section that is missing or doubled puts a line of the
  wrong shape at one of the positions `parse-mysql` reads, so that it gives up and inserts
  nothing. For the second, all lines are of the simulation that last cleared the file.

**What stays with TLC**, and why:

* the liveness properties `DequeueReturns`, `Drains`, `EverythingSent`, `GapsClose` and
  `NoStarvation`: the prover does not do fairness and ENABLED. (That FqCoDel's dequeue ends
  is a safety property here, since it is one step, and is proved);
* the offline tools: `PlotHonest`, `CompareHonest`, `EveryLookupFinds` and `ApiComplete` are
  about finite, given data (the scripts there are, the calls in two files), which TLC goes
  through completely.

## Disagreements found

* `drop_stats`: `Stats::unforcedDrop` of L4SMyPie and DQMyPie is documented as "Early
  probability drops: proactive" (`l4s-my-pie-queue-disc.h:80`, `dq-my-pie-queue-disc.h:80`),
  but a packet that is dropped early because it cannot be marked is not counted
  (`dq-my-pie-queue-disc.cc:208` and 236, `l4s-my-pie-queue-disc.cc:212`). The other discs do count it
  (`CountedDrops`).
* `rlc_wrap`: `lte-rlc-um.cc:962` says "update VR(UR) to the SN of the first UMD PDU with SN >
  current VR(UR) that has not been received". `newVrUr` (973) is a plain `uint16_t`; past
  1023 it is no key of the buffer, the loop ends, and VR(UR) becomes 0 although PDU 0 is
  there. That PDU and its successors wait for another PDU or for the timer; `PromiseKept`
  and `GapsClose` show that nothing worse follows.
* `refs`: `ptr.h:136` says that an object is deleted "if no more references to it remain".
  `Decrease` (121) moves a `Ptr` without `Ref` and `Unref`, and each failed attempt of the
  handshake (`lte-rlc-um.cc:414`, 488) then releases a reference to the *other* bearer. Two
  packets on one bearer before the first on the other delete it under the RRC.
* `legend`: `plot-per-flowconf-sq.py:154` and its LTE copy call the maximum queue delay the
  average one and the other way round; all other scripts have it right.
* `lte_labels`: the three `compare-*-lte.py` read `dq-red-sca`, `dq-pie-sca` and `l4s-pie`
  (`compare-ccC-lte.py:70`) and set three ticks (133), but label them with the five names of
  the scripts without LTE (134; `compare-ccL-lte.py:154`, `compare-ecn-lte.py:140`, and
  twice more in each). The points of `l4s-pie` stand over "l4s-cred". Versions of
  matplotlib that count the labels raise an exception instead, and draw nothing.
* `schema`: `README-plotting:13` offers `l4s.sql` as the database of the author's results,
  but its tables lack `shareqEmptyL/C/B`, which all sixteen `plot-per-*` scripts select.

Seen while modelling, without a run of its own: the comment above L4SPi2's priority test
(`l4s-pi2-queue-disc.cc:254`) says "L4S priority if queue delay L4S < queue delay Classic -
Time Shift", while the test below it is `qDelayL4S + m_tShift >= qDelayClassic`. The code
does what time-shifted FIFO is meant to do (`Pi2Order`, checked and proved); the comment has
it the wrong way round.

Seen as well, and not a disagreement with any text: the RLC receiver knows lost PDUs
by their numbers. After 512 or more lost in a row it takes those of the next half cycle for late and
discards them too, until the number it expects comes round; it may then join the first half of one
SDU with the last half of another, which unacknowledged mode cannot see (with four numbers TLC
shows it for `PromiseKept`; no number is mistaken for another even then).
DQRED marks of either band count
as `classicMark`; DQRED's `InitializeParams` resets `m_dqCount` and not `m_dqCounter`
(harmless, by `RoundRobinBound`); L4SCRED never schedules `CalculateP`. In CoDel the packet that
is dropped on entering the dropping state would be returned as well if it were the last;
`MinBytes > 0` excludes that. The receiver's echo relies on an ACK for every second
segment: `snd_cwnd` wraps for a window of 1 and an ACK of three or more marked segments.
`dctcp_alpha` steers nothing, since `ssthresh` returns the window. `INET_ECN_xmit` sets ECT(1)
for IPv4, while IPv6 still gets ECT(0). On the LTE bearers a forced drop counts as
transmitted, an early drop of a packet that is not ECN-capable returns without a buffer
status report, and in the single-queue mode packets of one sender that travel on the other
bearer are counted for a buffer they are not in; `EveryByteTraced` is about each
bearer's own sender.

The folder in README-parsing's example, and discipline names of four parts, are not
what `parse-mysql.py` splits. Running it twice inserts twice, and the derived columns stay
NULL until someone computes them. The window of `parse-*` is the whole trace where that ends
before 30 s. `compare-ccL` draws zeros it has made up for the disciplines without scalable
congestion control. The bindings know none of the five L4S discs, and drop `Begin` and
`End` of `QueueDiscContainer` with a warning.

## Not modelled

`components` in `PROJECT.json` gives the state of each part.

For good: the simulation scripts (their parameters give the configurations);
`TrafficControlHelper` (construction); `PacketFilter` (stateless); `PfifoFast` (three FIFOs in a
fixed order, used by nothing here); ns-3's own `RED` and `PIE` (floating-point averages over
real time: what is left after abstraction is a free choice, and the arithmetic this
repository took from them is in `PieControl`, `L4SCred` and `DQRed`); `inet_ecn.h` (pure
functions that no modelled part calls) and `tcp_ipv4.c` (Linux source plus logging);
ns-3's examples and tests.

Left out of parts that are modelled: installing, deleting and re-installing discs, `Send`
without a disc, a quota of 0, `Peek`; in FqCoDel a packet no filter matches, in CoDel byte
mode, the control law's numbers and the wrap of its 32-bit clock (36 minutes of
simulated time); of LTE what `DropEarlyPIE` and `DropEarlyRED` decide (a free choice), and
what happens after a bearer has been deleted (undefined: the model stops); that the two
bearers lie next to each other in memory is assumed; loss and reordering of TCP
segments, the fallback of DCTCP to Reno; the figures the parsing scripts draw; the methods of
ns-3 classes outside this module in the bindings.

## The plan

Done, most important behaviour first:

1. the five L4S discs over `DualQueue`, their abstract promise, and the proofs that each
   keeps it;
2. the engine `TrafficControl` in its four installations, with its proofs;
3. the LTE RLC entity against `RlcPromise`, with its proofs about numbers, buffers and contents;
4. the LTE coupling, with its proofs;
5. FqCoDel over CoDel, with its proofs;
6. DCTCP, with its proofs;
7. the offline tools: parsing (with its proofs), plotting, bindings.

Next, in this order:

8. **Lifecycle**: install, delete, re-install and initialise discs under `TrafficControl`;
   `Send` without a disc; a quota of 0.
9. Peek against Dequeue for all discs; `PfifoFast`.
10. DCTCP with loss and with receivers that acknowledge less often.
