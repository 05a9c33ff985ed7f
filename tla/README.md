# A formal model of AZilla

AZilla is a cluster of Ara vector units: a scalar core hands vector instructions
to several *clusters*, each of which is an Ara (a dispatcher, a main sequencer,
a few lanes, and units for slides, masks, loads and stores), a ring of routers
moves elements between the clusters, and a global load-store unit joins their
memory accesses. This directory holds TLA+ modules
of its control logic (`src/hardware/src`) and of the register rotations of its
benchmark kernels (`src/apps`), the TLC runs that check them, and
proofs for TLAPS. `PROJECT.json` lists for every definition the lines it stands
for, and for every run its question.

## 1. The system

### Components

| Component | State it keeps | What it does |
|---|---|---|
| Dispatcher (`ara_dispatcher.sv`) | CSRs `vl`, `vl_cluster`, `vtype`; the request register and its token; `state` | decodes; `vsetvl` works out this cluster's share of the vector; waits until idle when a group shrinks; turns zero-length instructions into NOPs; injects reshuffles |
| Main sequencer (`ara_sequencer.sv`) | `IDLE`/`WAIT`, running vectors per processing element, read and write lists, the hazard table, queue counters, gold tickets | gives an id, computes dependences, broadcasts, waits for scalar and memory answers |
| Lane sequencer (`lane/lane_sequencer.sv`) | one fall-through request register, sync mask, running and done registers | takes a broadcast once, asks for operands, passes the instruction to the ALU or MFPU, or mutes it |
| Operand requester (`lane/operand_requester.sv`) | one requester per operand queue, hazard bits | reads the register file, chains an instruction to the writes of its producer |
| ALU, MFPU (`lane/valu.sv`, `lane/vmfpu.sv`) | an instruction queue each, accumulators | execute; reductions end in lane 0 |
| Slide unit (`sldu/sldu.sv`) | instruction queue, two pointers (sending, receiving), packet counters, the edge cluster's register | moves elements between lanes, and as packets between clusters |
| Ring (`sldu/ring_router.sv`) | a register of two entries at each input and output, three arbiters per router | brings each packet to its cluster, the shorter way round |
| Mask unit (`masku/masku.sv`) | a one-deep instruction queue | hands out mask bits, takes comparison results, computes `vcpop` |
| Load unit, store unit (`vlsu/vldu.sv`, `vlsu/vstu.sv`) | a ring of slots with three pointers, beat counters | move data between lanes and the AXI channels |
| Address generator (`vlsu/addrgen.sv`) | one instruction, a queue of bursts | acknowledges loads and stores, makes AXI bursts |
| Shuffle stage, align stage, global load-store unit (`vlsu/`) | trackers per burst, data buffers | join and split the clusters' bursts, align them to the memory port |
| Invalidation filter (`axi_inval_filter.sv`) | FIFO of write bursts, offset, set counter | invalidates the scalar core's cache lines a vector store touches |
| Kernels (`src/apps`) | vector registers, loop counters | matrix products, stencils, convolutions, shortest paths: rows rotate through registers, are loaded ahead and stored behind |
| Fork and cuts (`req_fork_cut.sv`, `cva6_cut.sv`) | registers between the scalar core and the clusters | give every cluster every instruction once |

`PROJECT.json` lists all of them, also those without state, with sources and status.

### How they interact

    scalar core --req_fork_cut--> dispatcher --request register--> main sequencer
       ^                                                    |  broadcast (id, operands, hazards)
       |  answers                                           v
       +------- sequencer <--done bits-- lanes (ALU, MFPU) / slide / mask / load / store
                    ^                                           |
                    +-- address generator's acknowledgement     v
                    +-- scalar operand (lane 0's MaskB queue)  vstu -> cut -> shuffle_stage ->
                                                               global_ldst -> align_stage ->
                                                               axi_inval_filter -> memory

- *Broadcast.* The sequencer shows an instruction to all processing elements at
  once. Every lane samples it into its register and remembers its id (sync
  mask), since the broadcast stays until the last lane has it; the other units
  take it when their queue has room and do not take an id twice.
- *Completion.* Every processing element reports the ids it has finished; the
  sequencer sees them a cycle later and frees the id.
- *Answers.* A load or a store waits for the address generator; an instruction
  without a destination register for a scalar, which comes from the mask unit
  for `vcpop`/`vfirst` and otherwise from whatever is at the end of lane 0's
  MaskB operand queue.
- *Memory.* The clusters' bursts are joined into one, and the one answer to it is
  passed back to all of them. Answers carry no name.
- *Lengths beside addresses.* The length and element width of a load or store do
  not travel in the AW or AR channel but beside it, through plain registers
  that do not stop when the channel does.
- *Ring.* A slide whose elements cross clusters turns into packets; every slide
  unit takes what arrives for the slide it is receiving. A packet names its
  cluster and lane, not its instruction.
- *Cache.* The filter sees every write burst and stops the AW channel when its
  FIFO is full.

### What is hard

Ids are reused at once, so any stale mention of an id names another
instruction. The access lists hold one id per register. Counters watch lane 0
for all the lanes. A request that stalls has been counted already. Answers to
the scalar core and from the memory carry no name, and each consumer assumes
whose they are. The clusters handle an instruction
at different times, and each computes its share of the vector alone. The
list of hazards in `PROJECT.json` gives the line of each, with the properties
that would show it going wrong, or the planned module.

### What makes each component correct

- Sequencer: dependences point only at older running instructions and reach all
  the writers (and readers) an instruction must wait for; no queue overflows; no
  request is stuck; each answer is the answer to the instruction in `WAIT`.
- Lanes: every broadcast is executed exactly once.
- Store unit: stores are written in order with their own bytes in their own
  bursts, and each is reported as done with the last answer to it.
- Dispatchers: the clusters' lengths are exactly the elements each owns.
- Filter: every line written is invalidated, and writes are not blocked for good.
- Ring: each pair of clusters has a lossless ordered channel, and every packet
  arrives.
- Slide units: a packet is used in the row it belongs to; every slide ends.
- Store path: a store is cut by its own length and reported as done exactly with
  the last answer to it.
- Kernels: what is stored is what the scalar loops compute; no row beyond the
  matrix is loaded; the loops end.
- (planned) Operand requester: no operand is read before it is written and none
  is waited for forever. Shuffle stage: the clusters' beats stay together.

## 2. The modules

| Module | Models | Step |
|---|---|---|
| `InvalFilter` | `axi_inval_filter.sv` | a clock cycle; an action per branch of the FSM |
| `AraSequencer` | `ara_sequencer.sv`, with the dispatcher's request register | a clock cycle; an action per branch of `p_sequencer`; the inputs are arbitrary |
| `AraBackend` | the sequencer with lane sequencers, instruction queues, address generator, MaskB queue | a clock cycle of all of them; chosen: who finishes its oldest instruction |
| `StoreQueue` | nothing in the code: the abstract promise of a store unit | |
| `Vstu` | `vlsu/vstu.sv` | one of the blocks of `p_vstu`; a cycle is a sequence of them |
| `VectorConfig` | the `vsetvl` family of every cluster's dispatcher, with `req_fork_cut.sv` | a handshake of the fork or a cycle of one cluster |
| `StorePath` | the AW and B side of `vlsu/global_ldst.sv` and `vlsu/align_stage.sv`, for unit-stride stores | a clock cycle; chosen: the next store, what the memory does |
| `RingChannels` | nothing in the code: the abstract promise of the ring | |
| `RingRouter` | `sldu/ring_router.sv` in every cluster, with the links of `ara_cluster.sv` | a clock cycle of all routers; chosen: who offers and who takes |
| `SlideRing` | the slide units (`sldu/sldu.sv`) on that ring; extends `RingRouter` | a clock cycle; chosen: who has operands, who receives an instruction |
| `KernelState`, `VectorKernels`, `ConvKernels`, `Kernels` | the kernels of `src/apps` | an iteration, or a part of one |

The modules `MC...` hold the small instances; the modules `..._proofs` the theorems and
`DivModLemmas` the arithmetic they share.

**InvalFilter.** `fifo` is the AW FIFO, `offset` and `cnt` the two counters. A
cycle brings an AW or none (`NoBurst`, also when the filter is disabled); the
FIFO is fall-through, so the FSM sees it at once (`Visible`). `FirstLine`,
`OnlyLine`, `NextLine`, `LastLine`, `AllSetsDone` are the branches in which the
cache accepts an invalidation, `WaitForL1` the cycle in which it does not,
`PopRedundant` and `BackToIdle` the state `Invalidated`. History variables
record which lines have been written and not invalidated. The minimal transfer
of a burst is folded into its number of bytes, `(len + 1) << size`.

**AraSequencer.** Every register of the sequencer is a variable. `araReq` is
the register in the dispatcher that holds the request, whose token flips after
each handshake. An opcode is the first one of each range the source treats
alike. `older` and `insn` are history variables: whom an id was issued after
and what it was given to. A request names one register per operand, as the
sequencer does. `Next` accepts any input, so what is proved of it holds
whatever the units do; `AraBackend` supplies their real behaviour.

**AraBackend.** `laneReg`, `syncMask`, `laneRun`, `laneQueue` are a lane;
`unitQueue` and `unitRun` the other units; `doneReg` is what the sequencer
will see of them in the next cycle; `maskB` tells to whom each operand in lane
0's MaskB queue belongs. How long a unit works is left open, but not *when* it may finish
(`LaneMayFinish`, `UnitMayFinish`): after the instructions it depends on, once
every lane has executed it, after the mask unit has taken the mask, a reduction
after the slide unit, a comparison in all the lanes at once. An instruction may
overtake a longer one it depends on (`Overtakes`): chaining makes it read each
element after it has been written, so it may end first
(`lane/operand_requester.sv:253-256`). The register between the lane sequencer
and the functional units is left out.

`OutrunLanes` is an assumption made explicit. A load that reads no register
needs no lane, and the code does not stop it from ending while some lane still
has its broadcast in the request register. With `OutrunLanes = FALSE` memory is
slower than the lanes; section 4 says what happens when it is not.

**Vstu.** The three pointers, the two counters of the ring, `vrfPnt`, `left`
(`issue_cnt_q`) and `len` are the unit's. `words`, `bursts` and `answers` are
what lanes, address generator and memory still have to deliver, each item with
the number of its store, which no guard of the unit reads. A store is its bytes
in this cluster, and the bytes of an element if it is strided or indexed.
Unit-stride stores are aligned to the AXI word, since the align stage shifts the
data later. A store without a byte in this cluster does not reach the unit: its
dispatcher drops it; but its answer does (`StoreElsewhere`). `WriteBeat` and
`WriteLastBeat` are the W block, `Commit` and `DropAnswer` the B block, and
`Accept` the last block of `p_vstu`.

**StoreQueue.** Stores are taken, wholly written in order, and each completes
in the step of the last answer to it. `Vstu` implements it under
`queue <- the ring from commit_pnt on, with the answers still to come` and
`written <- commit_cnt - issue_cnt`.

**VectorConfig.** Each cluster has its `vtype`, `vl` and `vl_cluster` and a pipe
of instructions. `Share` follows the code's arithmetic (whole rows, the cut to
`vlmax`, then a part of a row); `SharesAreOwned` compares it with a definition
by counting elements. An illegal `vtype` sets `vill` and clears the length.

**StorePath.** A length is a number of pieces (parts of a page, at most 256
beats), and the data of a piece is one item; so addresses, beats and widths are
abstracted, and the counters that compare lengths remain. `awShuffle` and
`awGlobal` are the cuts in front of the two units, `vlGlsu` and `vlAlign` the
registers beside them. There are more cuts and registers between a cluster and
the global load-store unit, equally many of each; one stands for them all. `wReq`, `vlLeft`,
`pushed` and `bFifo` are the global load-store unit's, `wrVl`, `wrCnt`, `bTrack`,
`bPnt` and `bCommitPnt` the align stage's. `taken` and `answered` are the
memory. The cuts of the B channel, which only delay answers, are left out. What
may run is a constant: `Programs` gives the lengths of the stores, the idle
cycles of the address generator between two of them (at least one in the code),
whether the memory is `prompt` (never makes an address or data wait) and whether
it is `hasty` (answers a piece before it has the addresses of the others).

**RingRouter.** `inq` and `outq` are the registers of a router by direction,
`cut` the registers some links have between two macros, `turn` and `turnUp` the
arbiters' memories. `todo` is what the slide units want to send. The module
`RingChannels` promises a queue per pair of clusters; the refinement reads the
queue of a pair off the registers on its way (`OnTheWay`).

**SlideRing.** Slides of 64-bit elements by at most `NrLanes`: an element that
leaves its cluster is one packet. `issuing` and `out` are the sending side,
`ring`, `word` and `inWord` the receiving side of the two-pointer queue, `prev`
the register of the edge cluster. `taken` is the last slide a cluster has received: each
receives it at a time of its own, since the fork and the cluster's dispatcher and sequencer make
it wait as they like; which clusters may receive in a cycle is chosen among `Receivings`. Each packet carries the slide and the row it
belongs to, which no guard reads. `early` records who has dropped a packet of a slide it had yet to receive. Further slides, narrower elements,
reductions and the path to the lanes are left out.

**Kernels.** A register holds *which* row, element or sum the code has put into
it. `out` is what has been stored. In `jacobi2d` an element has the index the code computes for it, since
the kernel and the scalar loops step from row to row by different amounts. `VectorKernels` has `fmatmul` (4x4), `jacobi2d`,
both `pathfinder` algorithms, `gemv` and `spmv`; `ConvKernels` the convolutions
(`fconv2d` 3x3 and 7x7, `iconv2d` 5x5, `fconv3d`). The other element types
and heights repeat the same rotations. Sums are bags of (row, tap), since the
order of additions does not matter to them.

## 3. The runs

All but the kernels run with TLC's deadlock check on. States are distinct states.

| Run | States | Shows |
|---|---|---|
| `inval_filter` | 10,689 | the walk of the filter touches exactly the lines of the head burst, no line is skipped before the all-sets shortcut, a full FIFO drains |
| `core` | 517,781 | age is an order, dependences point back and reach every older writer of a register or the mask, directly or through a later one, scalar and memory answers are the waiting instruction's own |
| `lanes` | 7,268 | two lanes apart: no overflow, nothing forgotten, exact counters, every request taken in the end |
| `vstu_unit` | 19,446 | the store unit implements `StoreQueue` |
| `vstu_mixed` | 1,445 | strided stores and other clusters' answers: bytes, words and bursts stay together, every store completes |
| `config_shares` | 1.04 million | the clusters' shares are the elements they own; clusters level with each other agree |
| `store_path` | 13,853 | stores are cut by their own lengths, done exactly with the last answer, and all answered |
| `ring_four` | 2,427 | the routers implement a channel per pair of clusters, and every packet arrives |
| `slide_one` | 16,850 | in every slide of one or two rows by one or two elements, in whatever order the clusters receive it, packets are used where they belong and the slide ends, unless one comes before its slide |
| `kernels` | 1,947 | every kernel stores what the scalar loops compute, loads inside its matrix and ends |
| `war`, `kernels_short` | | one violation each, section 4 |

`kernels` and `kernels_short` have CHECK_DEADLOCK FALSE: a kernel ends.

### Bounds, and why they are enough

- `inval_filter`: a cache of 4 sets, a FIFO of 2, lines of 2 bytes; bursts
  within a line, over a line's end, aligned and misaligned, and one longer than
  the cache, so the counter wraps and the shortcut is taken.
- `core`: three ids, so that ids run out and are reused under an instruction
  with two others; one lane, since the lists and the hazard table are the
  sequencer's own; two registers, the mask's, written by loads, and one written by loads
  and the ALU, both read by the others; queues of one entry, so that every second request to a
  unit makes its counter reach one more than the depth.
  A load and an addition that overwrites its register run together, and the third instruction
  names only the addition: that the load is reached through it does occur (TLC refutes that every
  writer is named directly). All that write a register have the same length: the divergence
  *shorter overwriters* in section 4 is what happens otherwise.
  `CntWrap` 8 is never reached.
  No instruction in the run puts a mask operand in MaskB or leaves the mask unit
  running behind a scalar move: that is the divergence *scalar moves and mask
  instructions* in section 4.
- `lanes`: two lanes are the fewest that can be apart. Instructions with an
  element in one lane only, which the other mutes; comparisons, which both lanes
  end together; reductions, which end in lane 0 last; masked ones, which also
  occupy the mask unit's one-deep queue.
- `vstu_unit`: four slots, lengths less than an AXI word, odd over two words,
  and the longest burst (`LenWrap` beats: at the code's 256 beats a cluster's
  part of a register group never exceeds one). `InFlight = Depth - 1`:
  at most three stores wholly written and unanswered. With four, the issue and
  commit pointers are equal and `vstu.sv:303` drops the answer;
  setting `InFlight = Depth` in `Vstu_unit.cfg` makes TLC refute
  `ImplementsStoreQueue`. `MaxOwed` bounds the answers the memory owes; stores
  are numbered modulo `Numbers`, more than can be live.
- `vstu_mixed`: two slots, since a strided store has many bursts; answers to
  other clusters' stores arrive at any time.
- `config_shares`: two clusters of two lanes, a VLMAX over both of 32 elements (by two vtypes) and of 8, one
  unsupported `vtype`, every remainder of the length that occurs.
- `store_path`: the trackers, the FIFO and the number of live stores have the
  code's sizes (8, 8, 4). Four stores: of one, two or three pieces each, all of one
  length, with a memory that makes everything wait as long as it likes (nine pieces fill the trackers);
  and every mixture of one to three pieces with a prompt memory. In both the memory takes
  a store's addresses before it answers. Section 4 says what happens otherwise.
- `ring_four`: four clusters are the fewest in which packets pass through a
  router and both directions are the shorter one for someone. The links have the registers
  that alternate in the build of eight or sixteen clusters, so that both kinds
  occur; with four clusters the code puts one on every link
  (`ara_cluster.sv:327`, `352`). Two traffics: all send two clusters on
  (everything passes through a router), and a mixture. A ring of eight in which everyone sends packets
  six clusters on can fill all the registers of a direction with passing packets and stop;
  the slides that are modelled never send further than a neighbour.
- `slide_one`: four clusters of two lanes; every slide up or down by one or two
  elements of every vector of up to two rows. In each cycle all clusters, none, the even or the
  odd ones have operands, and likewise all, none, the even or the odd ones may receive the slide; neighbours
  are thus apart by any number of cycles.
- `kernels`: `jacobi2d` on four lanes in all, see *strides* in section 4; `Vlmax` of five elements, so that rows end inside, at and
  behind the end of a strip; heights from the smallest a kernel accepts to
  several rounds of its unrolled loop. The sizes are those the kernels are written for:
  `fmatmul` an even inner dimension, the 7x7 kernels an even height of at least
  eight (their data generator asks for a multiple of four), the 3x3 and
  5x5 kernels a row that fits a register group. `pathfinder`'s copy of the first row (`pathfinder.c:62`),
  done before the model starts, writes past its end when the row is longer than a register group
  and not a multiple of it.

### Fairness

- `inval_filter`: the clock runs, and the cache accepts an invalidation that is
  offered forever (its miss unit serves them between its own accesses).
- `lanes` (`FairSpec`): the clock runs; every unit that can end its oldest
  instruction does so in the end (they are pipelines without a choice); every
  lane's operand requesters become free (they only read and write the register
  file, whose arbiters are round-robin); address translations and MaskB operands
  arrive. Each is weak fairness of the cycles in which that unit does so. The
  scalar core owes nothing: it need not send another request.
- `vstu_mixed` (`FairSpec`): lanes deliver their words and the memory answers
  what it has received. Nothing is assumed about new stores.
- `store_path`: the program goes on, and the memory takes addresses and data
  and answers, each again and again.
- `ring_four`, `slide_one`: the clock runs; a slide unit holds its packet up
  until it is taken, so it is offered again and again (strong fairness of each
  sender), and takes in the end what is held up to it. In `slide_one` each cluster's
  dispatcher and sequencer hand the slide over in the end (weak fairness of each
  receiver): they wait only for earlier instructions.
- `kernels`: one thread that runs.

## 4. Divergences between the code and its comments

Each of the following contradicts a comment or a test of the source. `war` and
`kernels_short` are runs; for the others the property and the constants that
make TLC find it are given, starting from a run's configuration.

- *The all-sets shortcut* (`inval_filter` with the invariant
  `InvalidatedMeansAllSets`). "If all the sets have been invalidated": the counter counts
  invalidations, of the same set and over several bursts too, and is hardly ever
  reset, so the filter enters `Invalidated`, where it drops
  bursts, although some set has never been invalidated.
- `war`. "It indicates all the instruction on which instruction N depends": the
  read list remembers the last reader only, and readers do not wait for each
  other. A load may overwrite a register while the first of two readers is
  still running and is not in its row.
- *Shorter overwriters* (`core` with `Requests <- ShorterRequests` and `WritersCovered`).
  The same comment, for writers: the write list remembers the last writer
  of a register, and forgets it when it ends. Older ones are waited for through
  it, but an instruction with a smaller `vl` that overwrites the register of a
  running load is chained on it and ends before it. Then nobody names the load,
  and a reader with the load's length is issued without waiting for it.
- *Scalar moves and mask instructions* (`core` with `NrVInsn = 2`, `Requests <- MaskBRequests`
  and `ScalarAnswerIsOwn`). "we cannot sample the scalar operand" while a mask instruction runs:
  the ready is held back, the valid is not. A scalar move is answered with the
  operand of a running mask instruction. Two further effects of the same
  line: a store ends its `WAIT` on such an operand, before its translation
  (`use_vd` is 0 for stores too); and a scalar move that is answered while a
  mask instruction without a MaskB operand runs does not take its operand out of
  the queue, which then answers a later instruction.
- *Loads that outrun a lane* (`lanes` with `Requests <- OutrunRequests`, `OutrunLanes = TRUE`
  and `NothingForgotten`). A broadcast is shown "until every lane has sampled it": an unmasked
  load is not held, may end, and its id may return while a lane is behind.
  The lane then takes the new instruction for the old one and drops it. A scalar
  move is a second way there: it is marked as running nowhere, its id is free
  at once, and two broadcasts in successive cycles with one id look like one to
  the sync mask.
- *Strided stores* (`vstu_mixed` with `Stores <- StridedStores`, `Elsewhere = FALSE`
  and `DoneMeansAnswered`). A store is "waiting for acknowledgment from the memory
  system": a strided store has an answer per element and completes with the
  first one after its last beat; the next answers complete the next stores. With
  `Elsewhere = TRUE` and unit-stride stores alone, the answer of another
  cluster's store does the same.
- *Long lengths* (`config_shares` with `AVLs <- LongAVLs` and `WithinVlmax`). "VLMAX = LMUL * VLEN / SEW": a length beyond VLMAX that does
  not fill whole rows gives cluster 0 more than VLMAX elements.
- *Lengths that pass by* (`store_path` with `Programs <- Crowded` and
  `CutByItsOwnLength`). "These are updated only when a new aw/ar is accepted"
  (`global_ldst.sv:82`): the element width is, the length is the input's. When an address waits, the lengths of later stores pass
  by, and it is cut by the length of another store. With
  `Programs <- LongThenShort` and `DoneWithTheLastAnswer` nothing waits at all: a store of six
  pieces is still being cut when the length of the short one behind it reaches
  the align stage, which then takes the long one as complete and lets an answer
  through too early. A group of eight registers has 16 pages in a build
  of 16 clusters with 4 lanes.
- *Hasty memory* (`store_path` with `Programs <- HastyMemory` and
  `DoneWithTheLastAnswer`). "Ignore all b responses except last one"
  (`align_stage.sv:478`): the count of a store is one while its second
  address waits. If the memory answers the first piece then, the store is done for
  the clusters, and the second answer is subtracted from the next entry.
- *Long stores* (`store_path` with `Programs <- SeventeenPieces` and
  `DoneWithTheLastAnswer`). The same comment: the count of a store's pieces has four bits
  (`align_stage.sv:44`), so a store of 17 pieces, those 16 pages from the
  middle of a page, counts one when the memory has taken them all, and its first answer
  is let through. With 16 pieces TLC finds nothing wrong: the count is zero, which
  is not one, and the answers count it down from there.
- *Packets before their slide* (`slide_one` with the invariant `NothingLost`). "To check if ara's in sync to avoid data getting lost in the ring"
  (`sldu.sv:714`): a unit starts to send when its own pointers are level, and does not
  ask whether the cluster that its packets go to has received the slide. The request is
  forked with a ready per branch (`req_fork_cut.sv:36`), and each cluster's own dispatcher and
  sequencer hand it over. A packet that comes first is dropped
  (`sldu.sv:1507-1513`); the slide then waits for it for good, or takes the next packet in a
  wrong row. `slide_one` and the theorem on slides say what holds while no packet has come
  early, and `ReceiverFirstLosesNothing` when none does. Whether the timing of a build ever lets
  a neighbour be so far ahead depends on the cuts and on what the clusters run
  before; no signal in the code excludes it.
- *Slides in a row* (`slide_one` with `Programs <- SmallTwice`, `FullRows` or `FullRow`,
  and `PacketsUsedWhereTheyBelong`). "If we
  small number of elements, we don't receive a ring packet" (`sldu.sv:1478`):
  for a slide down inside one row, packets whose cluster has no element go to the last
  cluster that has (`sldu.sv:887-888`), which does not wait for them and drops them only
  while no slide is behind (`sldu.sv:1507-1514`); the next slide takes them
  for its own (`SmallTwice`). Full rows do the same: the cluster at the edge completes its last word
  without a packet if none is there in that cycle (`sldu.sv:1446`), although one
  is on its way. In a slide up this is cluster 0 and what the last cluster sends for its
  last row (`FullRows`), in a slide down the last cluster and what cluster 0 sends for
  its first (`FullRow`: with one row, the register of the edge cluster is still empty).
- `kernels_short`. "Check vector with scalar result" (`pathfinder/main.c:36`):
  the unrolled `pathfinder` chooses the register to store from `t - 2` and `t - 1`
  with unsigned `t` (`pathfinder.c:172`). The result is that of an earlier row unless the
  number of steps is one or a multiple of three from six on, as it is for the
  default of 64 rows.

- *Strides* (`kernels` with `Jobs <- AnyBuild` and `ResultIsScalarLoops`). "1 * c + j" (`jacobi2d.c:317`), beside `mtx_ptr_1 = j + inc`: the
  vector kernel of `jacobi2d` takes rows to be `inc = c - 2 + 4 * NR_LANES * NR_CLUSTERS / 8` elements
  apart (line 302), the scalar loops `c` (lines 84-86). The two agree on four lanes in
  all only; their comparison is commented out in `main.c`, and the data generator lays
  rows a third distance apart (`C + 64`, `gen_data.py:51-58`). The kernel is the stencil of a matrix
  whose rows are `inc` apart, on every build (theorem `JacobiIsStencil`).

Only vd, the first register of a destination group, enters the write list, too; this is not
among the runs, because the requests of the model have no groups yet.

## 5. The proofs

TLAPS checks every theorem to its leaves, from the named assumptions on the
constants: depths, numbers of ids, lanes and clusters are positive, queue
counters can count one more than a queue's depth, requests are of the declared
type and have the operands the dispatcher gives them (`DispatcherAssumption`:
`use_vd` is 0 for stores and scalar results only, and a request with nothing to
do is not sent, `ara_dispatcher.sv:3268`), what the slide units send is traffic of the ring
(`ProgramAssumption`). Every safety property and refinement of the passing runs is
stated by a theorem, under the hypotheses named below where it has any; what only TLC checks is liveness.

| Theorem | States, for every value of the constants |
|---|---|
| `InvalFilter_proofs!TypeCorrect` | types; the FIFO never holds more than `MaxTxns` |
| `InvalFilter_proofs!WalkStaysInside` | the offset of the walk names a line of the head burst |
| `InvalFilter_proofs!NoLineIsSkipped` | no line of a passed burst is left out, but by the all-sets shortcut |
| `AraBackend_proofs!TypeCorrect` | the sequencer's types, whatever the units report |
| `AraBackend_proofs!AgeIsOrderAlways`, `HazardsPointBackAlways` | age is a strict order; dependences point back |
| `AraBackend_proofs!BackendTypeCorrect`, `BackendAges` | the same for the sequencer with its real units, and their types |
| `AraBackend_proofs!CountersAlwaysExact` | the queue counters are exact * |
| `AraBackend_proofs!ScalarAnswerAlwaysOwn`, `MemoryAnswerAlwaysOwn` | an answer is that of the instruction that waits * |
| `AraBackend_proofs!QueuesNeverOverflowAlways` | no queue of any lane or unit overflows * |
| `AraBackend_proofs!NothingForgottenAlways` | what is marked as running is queued or on its way * |
| `AraBackend_proofs!WritersAlwaysCovered` | every older writer of a named register is waited for, if also `NoneShorter` * |
| `Vstu_proofs!TypeCorrect`, `BeatAlwaysOwn` | types; every beat carries bytes of its own store |
| `Vstu_proofs!Refines` | the store unit implements `StoreQueue`, if `OneBurstEach` |
| `StorePath_proofs!TypeCorrect` | types, for any stores and any memory |
| `StorePath_proofs!CutAlwaysOwn` | every store is cut by its own length, if `OneLength` |
| `StorePath_proofs!DoneAlwaysLast` | a store is reported as done exactly with its last answer, if `OneLength`, `Patient`, `CountHolds` and `RoomForLive` |
| `VectorConfig_proofs!TypeCorrect`, `LevelClustersAlwaysAgree` | types; clusters level with each other agree |
| `VectorConfig_proofs!SharesAlwaysOwned` | shares are the owned elements, if `NoExcess` |
| `SlideRing_proofs!RingTypeCorrect` | the registers of the ring never hold more than two packets |
| `SlideRing_proofs!RingImplementsChannels` | the routers implement `RingChannels`, for any traffic and whatever the slide units do |
| `SlideRing_proofs!OneSlidePacketsBelong` | the packets of a slide are used in the row they belong to, if a program is one slide and as long as no packet has come before it |
| `SlideRing_proofs!ReceiverFirstLosesNothing` | no packet comes before its slide, if a program is one slide and no cluster sends before the one it sends to has received it |
| `Kernels_proofs!KernelsLoadInside` | the eleven kernels load rows of their matrices only |
| `Kernels_proofs!KernelsCompute` | what a kernel has stored at its end is what the scalar loops compute, if `ShortFits` and `jacobi2d` runs on four lanes in all |
| `Kernels_proofs!JacobiIsStencil` | `jacobi2d` stores the stencil of the matrix whose rows are `inc` apart, on any build |

(*) if `OutrunLanes` is `FALSE` and `MovesApart` holds, see *Flow control*.

*Ages and hazards.* `HazardsPointBack` alone is not inductive: the row of a new
instruction comes from the access lists. The invariant `Inv` adds the types,
that age is a strict total order on the running instructions, closed downwards,
and that ages and rows only mention running instructions. The argument of a
step: the lists are cut down to the running instructions in every cycle before
they are used, hence a new row is within `Running`, which is exactly what the new
id is younger than; the id was free, hence in nobody's age or row; and an
instruction that ends leaves all rows and ages in the same cycle. One lemma
proves this for cycles that issue nothing, one for those that do, and the
invariance theorem goes through the seven kinds of cycle. `AraBackend_proofs`
shows that a cycle of the units is such a cycle with inputs of the right type
(`BackendStep`), so all this carries over. Its `BInv` adds the
types of the units' registers, stronger than `BTypeOK` (a lane's register is
empty or one broadcast; a valid operand is in the queue): a unit only finishes what it has.

*Flow control.* Section 4 has two ways in which all of this fails, and the
theorems exclude exactly these: no load ends while a lane has not seen it
(`OutrunLanes = FALSE`), and the program has either no mask instruction but
VCPOP, or neither a scalar move nor a comparison that reads its old destination
from MaskB (`MovesApart`). The requests of `core` and of `lanes` satisfy both.
`FlowInv` is the inductive invariant under the counters and the answers. Its
parts support each other and none is inductive alone:

- a lane samples a broadcast once, and an id still means the request it was
  last given to, since what a lane has not executed still runs
  (`SampledOnce`, `Known`, `RunsUntilExecuted`): hence no free id is on its way;
- what is in a queue belongs there, once, and still runs, so a done signal is
  of one instruction and of one queue (`LaneQueues`, `UnitQueues`);
- a unit outside the lanes takes a broadcast in its first cycle
  (`TakenAtOnce`), because the exact counter and the bound on it leave room;
- a waiting sequencer still shows the request it waits for, and only that one
  has an operand in MaskB, a VCPOP in the mask unit or the address generator.

`QueueInv` adds what the other lanes need, which no counter counts. `Held(l, v)`
is what lane `l` has in, or on its way to, the queue of `v`. Nothing is issued
while lane 0 has ended something another lane still runs; so whatever lane `l`
holds then, lane 0 holds, or reports as done in this very cycle
(`LaneZeroLeads`); lane 0 reports one instruction per queue (`DoneOnce`); so the
counter bounds the cardinality of `Held(l, v)` (`HeldIsCounted`), and the new
instruction finds room. Comparisons are marked as running in no lane, so for
them the argument is that all lanes end them together (`ComparedTogether`).
The converse direction, that an instruction marked as running is held, needs
the room, and the room needs it: they are one invariant.

*The writers of a register.* `WritersCovered` speaks of reachability, which no
step preserves by itself. `ChainInv` says where a chain begins: an instruction
waits directly for a writer of the register that is the older writer in question,
or younger than it (`ChainStarts`). Ages decrease along a chain and are finite,
so every chain leads to the writer (`ChainsLead`). A step may break a chain only if a
writer ends before an older writer of the same register. `WritersEndInOrder`
says that it does not: lane by lane it ends after the older one, and in lane 0
after the other units too, so as long as the older one runs anywhere the younger
one does. A unit that ends an instruction has looked at its row, so what remains
are the lanes that mute an instruction without looking at anything: those have
no element of the older one either, as the two are equally long, unless it is
queued there (`QueuedHere`) or shown after the younger one (`YoungestShown`).
That they are equally long is the hypothesis `NoneShorter`, which the
counterexample *shorter overwriters* (section 4) showed to be necessary; it came out of the proof attempt.

*The store unit.* The theorems add `WidthsAssumption` to the sizes: the lanes' word
(`NrLanes * 8` bytes) is a whole number of W beats (half of it, `ara_system.sv:26`)
and of elements, and a store has whole elements. `BeatCarriesOwnBytes` speaks
of the first word and the first burst only; it is kept because all of them are
in order. `Parted(seq, f, owner, m)` says that a sequence is made of `m`
consecutive parts with an owner each; `StoreInv` says so of the words and of the
bursts, and that part `k` is what store `k` still needs: words that hold its bytes
(`Fits`), and one burst or one per element (`Carry`). Accepting a store appends a
part, a word or burst that is used up shortens the first one, and the store's
last beat removes the first part from both at once, which holds because both then
have length one (`BeatFacts`). That in turn needs the position of the head store
(`AtBeat`): `vrfPnt` is a multiple of what a beat carries, and the beats of the
burst to come hold exactly the bytes not sent.

`Refines` assumes `OneBurstEach`: unit-stride stores, none foreign to the cluster, and
`InFlight < Depth`; section 4 and the bound above say what happens otherwise.
`OrderInv` adds that the ring's stores have consecutive numbers, hence
different ones, that exactly one answer to each is to come, in the same order, and that
at most `InFlight` are written and unanswered. The memory answers only what it
has, so an answer always finds the pointers apart (`AnswerableWritten`) and
`DropAnswer` never happens: `Accept` is `Take`, `WriteLastBeat` is `Write`,
`Commit` is `Complete`, and a beat inside a store is a stutter.

*The store path.* The types need one fact that is not a type: an answer can only take an
entry from the B FIFO if a store has been started and not reported
(`done + bFifo <= Started`), or more stores would be reported than there are. The other two theorems are about programs
of stores of one length (`OneLength`), with any idle cycles and a memory that
makes anything wait. Then the length beside an address may belong to
another store and is right all the same; the first half of `store_path`'s programs is of this kind, the
second (several lengths, nothing waits) stays model-checked. `CutInv` numbers the
pieces: piece `k` on the way to the memory is of the store `n` with
`Upto(n - 1, l) < k <= Upto(n, l)`, and as many have been sent as the stores the unit
has accepted need, less what is left of the one being cut. `AnswerInv` reads the trackers by the same numbering: the
tracker of each of the next `Trackers` stores from the oldest one on holds what has come of it
less what has been answered, modulo its width (`TrackersAt`). An answer thus finds the count at one exactly when it is the
last of its store, which takes two more hypotheses. `Patient`: the memory has all the
addresses of a store before it answers one. `CountHolds`: a store has at most as many pieces
as the count has values. Both are needed, as the divergences *hasty memory* and *long stores* in
section 4 show; the second of them came out of this proof. `RoomForLive` is how the
code is sized: a tracker and an entry of the FIFO for each live store (4 live stores, 8 and 8
entries). It makes the window of trackers free of clashes and
the push, which looks at no full flag, safe.

*The walk.* `WalkInsideHead` is inductive with the types. `NoLineSkipped` needs
both, and that the filter does not reach `Invalidated` before the shortcut: what
is owed is then among the lines of the bursts that wait and, of the head, those
at the offset or behind it, and a step takes away exactly the line the cache has
accepted. The arithmetic of addresses and lines by a symbolic divisor is in
`DivModLemmas`.

*The clusters.* `LevelClustersAgree` compares clusters only when they are level;
`OneLog` says why it holds at all other times: there is one log of instructions,
each cluster has handled a prefix of it, and its pipe holds the next ones.

*The shares.* `SharesAreOwned` compares the arithmetic of `vsetvl` with a count.
`Element` numbers the elements a cluster owns row by row and lane by lane;
`PartLemma` shows that exactly those numbered below the cluster's share are
below the length, and a bijection gives the cardinality (`OwnedCount`). The theorem
supposes `NoExcess`: no legal length at or beyond VLMAX leaves a part of a row;
section 4 (*long lengths*) shows that it fails otherwise, and the run's
lengths satisfy it. The proof attempt showed that two guards of a `CASE` in an
earlier form of `NewVl` overlapped, so that it could stand for either branch; it is
now a chain of IFs, in the order of the source.

*The ring.* `RingInv` says where a packet can be: it rides in the direction its
source has chosen (`Riding`), and it is nearer to its destination than its source
is (`AtInput`, `AtOutput`). So it never comes round a second time, and the
registers from the destination back to the source are all those that can hold
packets of a pair; `OnTheWay` lists them hop by hop. Each register is one more small queue
(`Replaces`): what leaves it was its head, what enters it goes to the end, and
restricted to the packets of one pair this is still so (`OfReplaces`). A hop is the
output register of a router, the register between the macros and the input register of the next
router; the head that leaves the one enters the other in the same cycle, so a hop
as a whole is a queue too (`HopMoves`). Here the two ready signals joined at an input matter:
a packet for another cluster leaves the input exactly if it enters the output
(`PoppedIsThrough`), one at home exactly if the slide unit takes it (`TakenAtHome`). What
leaves a hop enters the one before it, so all of it cancels (`Telescope`) but what
the slide unit takes at one end and joins at the other, which is a step of the
channel. `FlattenSeq` of the community modules is defined by a recursive function;
the proof only unfolds it once per piece (`FlattenSeqPieces`).

*The slides.* The theorem is about any number of clusters and lanes, both directions, every
stride up to the lanes of a cluster and every length, as long as a program is one slide;
the clusters receive it whenever they like. *Slides in a row* (section 4) shows
why several are not claimed, *packets before their slide* why the claim ends when a packet has come before its
slide. So the invariant is `early = {} => SlideInv`, and a step has to keep
`SlideInv` only if nothing is dropped in it. First the arithmetic: all packets of a
cluster go to one cluster (`DstIs`), each cluster gets packets of one cluster only (`OneSource`),
and the `j`-th packet of a cluster is for the row that `RowIs` gives, one lower or
higher only where the slide passes the end of a row. So it is enough that a
cluster uses what it gets in order, and counts it right. `SlideInv` has these parts:

- `RingInv`, and `todo`, the channel and what has arrived are the packets of a cluster cut into
  three parts (`WaysInv`). This is the theorem on the ring, used for one cycle of the
  channel between two clusters (`WayInCycle`);
- a unit is done receiving only when it has sent everything (`UnitInv`), so a unit without a slide has yet
  to receive it, and a packet that meets it is recorded in `early`: unless it is, no packet is
  dropped (`NothingDropped`);
- the packets used are the words completed times the stride, and those of the
  word begun; in the last cluster of a slide down the first of each lane are only
  remembered (`CountsInv`). A word completed without a packet is the
  last of its cluster, so nothing is counted after it.

`ReceiverFirstLosesNothing` turns the condition on `early` into one on the clusters: every
packet comes from the one cluster that sends to its destination (`ComesFrom`), so it is enough that
the latter has received the slide before the former sends (`ReceiverFirst`). This is what the comment at
`sldu.sv:714` takes for granted and no guard ensures.

*The kernels.* The constants are the sizes a kernel is called with, the length of a
register group and the slice of `gemv` and `spmv`. `KernelInv` has a part for each
kernel: what every register holds at each value of the loop counters. For the small ones
it is short: in `fmatmul` the register of the parity of the step holds the row of B
whose scalars have been fetched (`MatmulInv`), in `jacobi2d` the role of a register
among the three depends on the row modulo three (`Around`), and what is stored is a set of elements of a
matrix whose rows are `Inc` apart (`Cells`), in `pathfinder` a strip
overwrites the costs it has read but for one, kept in `aux` (`PathInv`), in `gemv`
the sums of a block move down by one element per row and are back in place after the
last one (`RowAt`), in `spmv` a row's sum is stored while the next row is added up.

The 7x7 convolutions keep seven sums. `AccHolds` says that the `k`-th of them, counted
from the first output row not yet stored, is the bag of all that has been read for that row, whatever
has been read, so one lemma covers every phase: adding a group of input rows is right if a
sum is started anew exactly when its first row comes (`FreshRight`), and moving
the registers up is right if the rows at the top have been stored. `Progress` says what has been
read at the start of a phase, `Area` what has been stored. The pairs of a row
and a channel make `fconv3d` the same argument with another name for a row; what is
its own is the group that is read for some channels only (`Progress` with a `c`) and
that the buffers hold the first column of coefficients of the channel that comes next (`Phase3`).

`ShortFits` (two rows, or one more than a multiple of three from seven rows on) is
what `kernels_short` shows to be necessary: for other heights the last step leaves
the result in another register than the one stored. Likewise the four lanes in all of `jacobi2d` are
what *strides* (section 4) shows to be necessary. The loads need no such hypothesis, nor does `JacobiIsStencil`.

Only model-checked: the store path with stores of several lengths, that every slide and
every kernel ends, and the rest of liveness. Liveness under fairness, `ENABLED`, and induction over data are
out of the prover's reach; there are no `RECURSIVE` operators.

## 6. Not modelled, and why

- Planned (section 7): the operand requester, the load unit's data path, the
  shuffle stage and the read side of the stages behind it, decoding, address
  errors, longer and narrower slides, reductions between clusters.
- Contents of elements, masks, addresses: no property here tells them apart.
- Integer and floating-point arithmetic: deep pipelines without control state
  of their own.
- Wiring modules, the AXI-to-memory bridge and the control registers, the ideal
  dispatcher of simulations, scripts and the test bench: no concurrent
  behaviour of the vector unit in them, but for the registers that tell when all clusters have
  finished a reduction (`ara_cluster.sv:236-262`), which belong to the planned
  `ClusterReduction`.
- Most of `src/apps` by lines is instruction tests (`rvv-tests`), generated
  encodings, a `printf`, and the same kernels for further element types and
  filter sizes, partly as straight-line assembly: they have no state beyond
  the rotations that are modelled, and the share of the C lines that the map
  names is small for that reason. The program's core is the SystemVerilog.

## 7. Plan

1. `ShuffleJoin`: the trackers of the shuffle stage, the join of the clusters'
   beats and the made-up valid of a cluster that has finished; then `Vstu` as an
   instance per cluster on `StorePath`, with the abstract specification of one
   memory that takes whole stores.
2. `OperandRequester`: chaining, bank arbitration and hazards. Property: no
   operand is read before its producer's write; every requester ends. It
   justifies `Overtakes`.
3. `Dispatcher`: zero-length instructions, `WAIT_IDLE`, reshuffles and register
   groups; `req_fork_cut`'s responses. Its composition with `VectorConfig` and
   the sequencer settles the hazards on groups.
4. `Vldu` and `GlobalRead`: R beats, the lanes' write-back, `load_complete`, the
   registers AR shares with AW; `Addrgen`: errors and the burst FSM.
5. `ClusterReduction` (`sldu.sv:923-985`, `ara_cluster.sv:236-262`) on the ring.
6. Proofs: `StorePath` with stores of several lengths and a prompt memory.
