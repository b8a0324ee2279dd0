# TLA+ models of the fraud-score service

The repository is an HTTP service that scores card transactions.  A load
balancer accepts every TCP connection and passes its descriptor to one of the
API workers; a worker is a single-threaded epoll loop that parses a request,
turns its JSON body into a vector of fourteen 16-bit numbers, and answers with
the number of frauds among the five nearest of three million reference
vectors, which an offline builder has put into a file.

This directory holds TLA+ modules that model the service, TLC runs that check
them on small instances, and proofs checked by TLAPS.

## 1. Inventory

| Component | State | Operations | What makes it hard |
|---|---|---|---|
| worker event loop (`src/main.zig`) | pool of `MAX_CONNS` slots, stack of free slots, per slot `in_buf`, `out`, `out_pos`; control connection; epoll registrations | accept, accept a control connection, receive a passed descriptor, receive, parse, answer, drain, close | edge-triggered readiness; a batch of events captured once and dispatched later; partial reads and writes; slot reuse; load balancers that restart |
| C load balancer (`src/lb.c`) | turn of the round robin, backends | accept, peek at a health check, read a prefix, pass a descriptor (non-blocking, then blocking) | bytes in flight between peek, read and hand-off; full queues; dead workers |
| Zig load balancer (`src/lb.zig`) | turn of the round robin | the same without health checks, with fail-over to the next worker | a prefix read in several steps; retries |
| kd index, search (`src/kdtree.zig`) | five best, search stack, list of partitions | search one tree, list and sort the others, search them | pruning by bounds, ties, a bounded stack |
| kd index, builder (`tools/build_index.zig`) | the stack of calls of `buildKdTree`, node table, slot table, partition table | bucket, split at the median, store a leaf, return to the caller | padding, recursion, balance |
| IVF index, search (`src/index.zig`) | heap of probes, five best | probe, fast repair, full repair | early exits that depend on each other |
| IVF index, builder (`tools/build_index.zig`) | cluster tables, slot table | assign to clusters, lay out in blocks | padding, empty clusters |
| leaf calibration (`tools/calibrate_leaf_safe.py`, `tools/calibrate_leaf_safe_b.py`) | the labelled requests, `safe_a`, `per_pair`, `safe_pairs`, `leaf_verdict`; the files written; the tables in `tree.zig` | script A, script B, copying their output | the two depend on each other and are installed by hand; what a check can still find; bits in a mask |
| request pipeline (`src/http.zig`) | none | parse, respond (tree, mask, index) | three sources of one verdict |
| decision tree (`src/tree.zig`) | generated tables | predict | consistency of five tables |
| feature vector (`src/normalize.zig`, `src/partition.zig`, and `vectorize`, `quantize`, `partition_key` of the scripts) | none | vectorize, quantize, partition key | boundaries, missing fields, two formats of fractions |
| calendar (`src/time.zig`, and the scripts) | none | days, seconds, weekday | months, leap years, centuries |
| JSON parser (`src/json.zig`) | position | one reader per object | malformed bodies |
| start-up (`main.zig` 290-379, 550-632; `lb.c` 57-101) | sockets in the file system | unlink, bind, listen; connect with retries | the order of processes |
| warm-up, tuning, load tests | - | - | not modelled, see section 7 |

How they interact.  Clients talk TCP to a load balancer, which hands sockets
over SEQPACKET control connections (`SCM_RIGHTS`), each message with the bytes
it has already read.  A worker can also listen itself (legacy mode).  Workers
of one process share the read-only index and nothing else that a handler
writes.  The builder and the searches share a file format.  Which of the two
indexes is used is decided when the program is compiled.  Before it is asked
for, a decision tree may answer: for a leaf that is safe by itself (Mode A), or
for one that is safe together with the request's partition (Mode B).  Two
scripts calibrate those tables from labelled requests, with a copy of their own
of everything from the timestamp to the partition key; their output is copied
into `tree.zig` by hand, where script B finds what script A has decided.

What makes each correct, in short: the worker never mixes up connections,
loses neither wake-ups nor descriptors, and answers every request whole and in
order; the load balancers pass each connection once, with all its bytes; the
search returns what an exhaustive search would; the builder writes what the
search relies on; the tables answer without a search only what the labels
show; a vector says what the request says, and fits the search's arithmetic.  The list `hazards` in PROJECT.json gives the line where
each of these could go wrong and the property that watches it, or why none does.

## 2. Modules

| Module | Models | Reads with |
|---|---|---|
| `Worker` | `main.zig`: `run`, `acceptAll`, `acceptCtrl`, `onCtrlRecv`, `addClientFd`, `processBuffered`, `onRecv`, `drainSend`, `startSend`, `shiftBuf`, `closeConn` | `MCWorker` |
| `Service`, `WorkerService` | the promise to a client (`Safe`, and with fair answers `Spec`), and the mapping of the worker's state to it | |
| `WorkerProofs` | theorems about `Worker` and its mapping to `Service` | |
| `Handoff` | what both load balancers meet: clients, control connections, workers that come and go | |
| `LoadBalancer` | `lb.c`: `main`'s loop, `try_serve_ready`, `drain_ready_prefix`, `send_fd`, `send_fd_blocking` | `MCLoadBalancer` |
| `LoadBalancerZig` | `lb.zig`: `main`'s loop, `readReadyPrefix`, `sendFdWithBytes` | `MCLoadBalancerZig` |
| `Dispatch` | the promise of a load balancer (`Safe`, and with every client settled at last `Spec`) | |
| `HandoffProofs` | lemmas about `Handoff`, for both load balancers | |
| `LoadBalancerProofs`, `LoadBalancerZigProofs` | theorems about each and its mapping to `Dispatch` | |
| `KdSearch` | `kdtree.zig`: `score`, `searchNode`, `scanLeaf`, `insertBest`, `sortProbes` | `MCKdSearch` |
| `Knn` | the promise of a nearest-neighbour index (`Safe`, and with an answer at last `Spec`) | |
| `KdSearchProofs` | theorems about `KdSearch` and its mapping to `Knn` | |
| `IvfSearch` | `index.zig`: `score_qq_ivf`, `repair_fast`, `repair_full`, `scan_cluster`, the heap of probes | `MCIvfSearch` |
| `IvfProofs` | theorems about `IvfSearch` | |
| `BuildInput` | `build_index.zig`: the vectors with their keys, the stable sort, `computeBounds` | |
| `KdBuild` | `build_index.zig`: `buildKdMain`, `buildKdTree`, `widestDim` | |
| `IvfBuild` | `build_index.zig`: `main` from the centers of k-means to the tables, `nearest`, `sortByDist` | |
| `Builder` | a run of the builder in either mode | `MCBuilder` |
| `SmallIndexes` | twelve vectors and the two indexes of them, for the instances of the searches and of the builder | |
| `BuilderProofs` | theorems about `Builder`, and that its indexes are what the searches assume | |
| `KdGeometry` | distances and lower bounds | |
| `Calendar` | `time.zig`: `daysSinceEpoch`, `dayOfWeek`, by their twins in the scripts | |
| `CalendarWalk` | a calendar to hold them against | |
| `FeatureVector` | `vectorize`, `quantize`, `partition_key`, `mcc_risk`, `clamp01`, `epoch_seconds` of the scripts, which mirror `normalize.zig`, `index.zig` and `partition.zig`; the sums of `blkDist` | |
| `FeatureWalk` | a customer who buys on the days of `CalendarWalk` | `MCFeatureWalk` |
| `LeafTables` | the tree (`load_tree`, `predict`), the labelled requests, `respond` of `http.zig` up to the search | |
| `CalibrateA` | `calibrate_leaf_safe.py`: `main` | |
| `CalibrateB` | `calibrate_leaf_safe_b.py`: `main`, `load_safe_a` | |
| `Calibration` | both scripts and the tables in `tree.zig` | `MCCalibration` |
| `DecisionProofs` | theorems about `CalendarWalk`, `FeatureWalk` and `Calibration` | |

### Worker

One variable per field of `Worker` and `Conn`, plus the thread: `pc` is the
next system call, `cur` the slot a handler works on, `caller` the handler that
entered the shared parse and send steps.  A handler is cut at its system
calls, because clients and load balancers may act between any two of them;
everything between two calls (parsing, shifting the buffer, pushing a slot) is
part of one action.  The kernel's side is modelled from how the code uses it:
`rx` (received, not read), the send buffer (`Space`), the epoll registration
(`reg`, `want_out`), the ready list (`ready`), and `batch`, the events
`epoll_wait` has returned with the mask they had at that time.  An edge is put
on the ready list when data, room or a hang-up arrives and by `EPOLL_CTL_MOD`,
and taken off when the event is delivered.  A request is `ReqParts` chunks and
a response `RespParts`, so both can be cut anywhere.

### Load balancers

`Handoff` has what they share.  A client's bytes are chunks that say what they
are (`ready` is the text `GET /ready`, `end` a header end that follows it).
`sendmsg` copies the descriptor into the control connection, whose queue holds
`QCap` messages; a worker takes messages, or exits and takes its queue along.
`LoadBalancer` has the uninitialised `buf[10]` of `try_serve_ready` as a
choice between both outcomes of the test.

### Indexes

An index is constant, so the searches take it as constants with two
assumptions each: types (`KdConstants`, `IvfConstants`) and what the builder
guarantees (`KdIndex`, `IvfIndex`).  The instances of both searches read the
indexes that are written down in `SmallIndexes`; the run `builder` builds them
from the same vectors and compares (`IndexesAsBuilt`).  That every index the
builder makes satisfies what the searches assume is proved (section 6).

`buildKdTree` calls itself.  `KdBuild` keeps its activation records in `calls`,
the innermost last: the vectors it was called for, the node it has put into the
table, and its left child once that has been built; `ret` is the node the call
that has just ended returns.  One action is the body of a call up to its next
call or its end: `MakeLeaf`, `Split` (the node comes before its children in the
table, and is completed after them), `LeftBuilt`, `RightBuilt`.  `buildKdMain`
is the rest: it fills the buckets, calls for the root of each that has vectors,
in the order of the keys, and notes the root.  The other mode, `IvfBuild`, has
an action per loop where a turn depends on no other, and an action per turn
where it does: the offsets, which add up, and the clusters, which write into
blocks they share an array for.

One action of `KdSearch` is one turn of the loop in `searchNode` or one point
in `scanLeaf`; one action of `IvfSearch` is one cluster offered to the heap, one
exchange of two entries in it, one cluster taken from the list of probes or one
point scanned.  The steps of the heap are the loops of `heap_sift_up`,
`heap_sift_down` and the sort that empties it; `caller` says which loop a scan or
a sink returns to.  The vector instructions compute what a scalar loop would, so a block
is its points one after the other; `blk_dist_prune` gives up on a block only
when no point of it could be taken.  In `IvfBuild` a vector stands for its
floats and for the 16-bit numbers they are rounded to, and the centers are any.

### Calendar and feature vector

`Calendar` is the formulas.  `CalendarWalk` is the reference: a date that
moves a day at a time by the lengths of the months, from 1970-01-01, in both
directions.  `FeatureWalk` adds to it the time of a customer's last transaction
and the days since, counted as the walk moves; the walk may also move back, as
when two terminals' clocks differ.

A feature is an exact fraction.  The service computes with 32-bit binary
fractions and the scripts with 64 bits.  Each makes the same error on the same
number every time: 671.5 ten-thousandths are always 672 in the scripts and
always 671 in the service.  `off` is the set of dimensions where a program
errs, so that a number ends up on the other side of a half.  The scripts can
err only at the half itself (`Ties`); the service also a little before and
after it, by less than 1/250 (`Close`): five operations on 24 bits err by at
most 5 * 2^-24 of the scale.  `Quantize(v, off)` is one vector, `Served(r)` all
that the service might make of a request whatever its errors.  Of minutes,
counts and whole tenths only halves are that close; of a ratio of amounts or a
distance with many digits other numbers are too.

The scripts look at the average before they divide by it (`AmountVsAvg`), the
service does not (`normalize.zig:77`).  Something by nothing is infinite there,
and cut off at 1 as in the scripts.  Nothing by nothing is no number, passes
`clamp01`, and its conversion (`index.zig:474`) is undefined: the service may
make any of `NanAsInt` of it (`HasRatio`, `ServedAs`).

### Calibration

`CalibrateA` and `CalibrateB` have one action per phase of `main`: reading,
deciding, auditing, a fold of the cross-validation, writing.  The list of
labelled requests is any of `Datasets`.  A run ends in a file, or with the exit
code of the check that stopped it; script A divides by the number of labelled
requests and ends there when there are none.  Script B reads `LEAF_SAFE_A` when
it starts.  `Calibration` runs the two in any order and as often as one likes,
and copies a file into `tree` at any time.  Before the first copy Mode A may be
on for any leaf, since the tree came with a table of its own.

`routed` and `served` are the leaf and the partition of each request,
computed at the start by the definitions of `FeatureVector`, so that the
quantities the scripts and the service compute are one definition with
different errors: `ScriptOff` and `ServiceOff` say where each errs, within
`Ties` and `Close`.  A request has one vector in the scripts, and one in the
service unless it has neither amount nor average.

## 3. Runs

| Run | Question | Instance |
|---|---|---|
| `worker_legacy` | pool, owners, wake-ups and responses with a listening worker; does it, under fair scheduling, implement `Service`: whole answers in order, for every request of a client that stays, and no client dropped without a cause | 2 clients, 2 slots, 2 requests each of 2 chunks, one bad, partial sends |
| `worker_ctrl` | events of a batch, passed descriptors in control mode; the same promises as stated of the worker; is a client whose request does not fit in the buffer dropped | 2 clients, 2 load balancers, 1 slot; the second client's request has 3 chunks, the buffer 2 |
| `worker_pipelined` | finding 1 | 1 client that pipelines |
| `lb_c`, `lb_zig` | each client passed once, with all its bytes; turn, descriptors, drops; do the load balancers implement `Dispatch` | 3 clients, 2 workers, queues of 1 |
| `lb_c_ready` | finding 2 | a route that starts with `GET /ready` |
| `kd_search` | is the answer the nearest ones, does the search end | 12 vectors, 35 queries, 3 best, leaves of 2 |
| `ivf_search` | does the heap keep the nearest clusters, sorted; what the early exits may get wrong; double counting | 12 vectors, 7 clusters of which one is empty, 77 queries, 5 labelings, 3 best, up to 4 probes |
| `builder` | the tables of both modes; is what the searches are checked on what it makes | all lists of up to 5 vectors on a 3 x 2 grid with two partition keys, and the searches' 12 vectors with 4; three sets of centers; blocks and leaves of 2 |
| `features` | every date, the time since the last transaction, the sums of squares | 1899 to 2001, two times of day, the two requests that are farthest apart and one without amount and average |
| `calibrate` | what the tables may answer, and what the scripts' own checks can find | all lists of up to 4 labelled requests over 5 kinds of request and a kind that is never labelled, 2 leaves, 3 partitions, at least 2 observations, 2 folds |
| `calibrate_rounding` | finding 3 | lists of up to 3 |

Bounds.  Two clients and one or two slots are enough for every pair of
connections to meet over a slot: reuse within a batch needs one slot closed
and taken again, a leak or a double needs two.  Two chunks per request and per
response, with room for one, make every cut possible; a third would repeat
one.  Two requests per client show what a first leaves behind for the next.
Two workers are what the deployment runs, and a queue of one message is full
as early as possible.  Two load balancers show one replacing the other.  In
`kd_search` the vectors hold equal ones, ties between leaves, clusters and a
bucket no vector is in, with leaves both full and padded, and a search stack
with just the depth of the tallest tree.  Fewer than `TOP_K` vectors in a
bucket occurs; fewer in the whole index does not (the file has millions).
The instance of `ivf_search` was chosen so that each way through the search is
taken: a unanimous verdict that is tight and one that is not, a fast repair
that ends early and one that does not, and a full repair; some unanimous
verdicts are wrong, as the code accepts.  Four probes for six clusters with
points make the heap let two of them go, and give it a node with only a left
child.  The number of clusters is taken to
be at most `MAX_K`, so that the mask of seen clusters holds them all.  The
builder's lists reach one leaf that is full, splits with an odd and an even
number, equal vectors on both sides of a median, two buckets, clusters with
none, one and several blocks, and calls three deep.  The calendar's walk has years of every kind: a
century that is no leap year (1900) and one that is (2000), and days before and
after 1970.  The last transaction lies a day back or ahead at most, which is
where the feature saturates; which day of the calendar it is decides the rest.
One of the two times of day is half way between two ten-thousandths of a day,
and the errors of 32 bits go either way there.  A squared distance is taken
between any two vectors of the day's requests, each with the last transaction
and without.  Of the request without amount and average the history is looked
at and no distance: with what a conversion may leave of it, sums do overflow
(without the condition in `DistanceFits` the run fails).

In `calibrate`, one amount is half way between two integers next to the
tree's threshold, 672 to the scripts and 671 to the service as in the code; one
is a unit below the threshold; and one request, never labelled, has neither
amount nor average.  Two of the partitions, 185 and 249, have the same bit in different
words of the mask; 253 differs from 249 in the bit of one flag.  Two observations are the
smallest minimum that a single label does not meet; four entries make two pairs
that meet it, one pair that meets it with a fold left out, and a leaf that does
although its pairs do not.  Two folds are enough for a pair to be unanimous in
one part and divided in the whole.

Fairness.  `FairSpec` of the worker: the thread runs while it has something to
do (it is a thread of its own that blocks only in `epoll_wait`), and a client
reads what it is sent.  Nothing is assumed of clients sending or load
balancers acting.  Of the load balancers: the loop runs, the accept call
does not fail for ever though it may fail at any time (`AcceptMayFail`), and a
living worker takes what it is sent, which is what the worker runs show.  Of the search: it
runs.

Deadlock is not checked where the system may stop: clients send a bounded
number of requests, a search and a build end.

## 4. Properties

Each is stated in a comment where it is defined.  The ones that carry most:

- `PoolIntegrity`, `OneOwner`, `BatchFresh` (Worker): slots and descriptors
  belong to one client however closes, reuse and captured events interleave.
- `NoLostWakeup` (Worker): nothing that needs the worker is left without an
  edge that brings it back.
- `ResponsesIntact`, `ImplementsService` (Worker): whole answers, in order.
- `NoStrandedDescriptor` (Worker): a descriptor that is still queued is on a
  control connection the worker has accepted or has yet to accept, never on one
  it refused or gave up; one it received is in exactly one slot, or closed and
  in none.  `ClosedForCause` (Worker): a close has a reason: a hang-up, a bad request
  that was sent whole, one that `in_buf` cannot hold, a full pool, a control
  connection not served, or a registration the kernel refuses.
- `BytesConserved` (Handoff), `DroppedOnlyForDeadBackend`,
  `DroppedOnlyWhenAllDead` (load balancers); `ImplementsDispatch`, which holds
  that no client is passed twice: a client with two deliveries is mapped to a
  holder `Dispatch` does not know.
- `NearestFound`, `CountedOnce`, `StackSuffices`, `ImplementsKnn` (KdSearch):
  whatever is pruned, the verdict is an exhaustive search's.
- `InexactOnlyIfUnanimous` (IvfSearch): the clustered search is approximate,
  but a verdict of its own that is divided is exact; `CountedOnce`,
  `ProbesNearest`.
- `EveryVectorStoredOnce`, `BoxesEnclose`, `TreesBalanced`,
  `EveryVectorInOneCluster`, `ClusterBoundsSound` (Builder): what the searches
  assume; `IndexesAsBuilt` (MCBuilder): ties in the sort go as the stable sort
  leaves them.
- `DaysCounted`, `WeekdayRight` (CalendarWalk); `HistoryRight`, `DistanceFits`
  (FeatureWalk): the interval to the last transaction survives dates, clocks,
  scaling and rounding; between requests that have an average or an amount no
  difference leaves 16 bits and no squared distance 32.
- `FastPathRight`, `FastPathObserved` (Calibration): whatever was computed and
  installed when, an answer without a search agrees with the labels and has
  enough of them.
- `AuditsPass`, `ErrorsOnlyInRejected` (Calibration): what the scripts' own
  checks can find.

## 5. Findings

1. `ResponsesIntact` (`worker_pipelined`).  With a client that pipelines and
   reads slowly, `startSend` replaces a response that is still partly unsent.
   Clients that wait for each answer cannot see it, which is the assumption
   (`Pipelining = FALSE`) of the other runs.
2. `OnlyHealthChecksServed` (`lb_c_ready`).  When exactly the ten bytes
   `GET /ready` have arrived, `lb.c:121` tests a byte that was never written.
3. `NoErrorsOnTestData` (`calibrate_rounding`).  The scripts round a number
   half way between two integers as 64-bit fractions have it, the service as
   32-bit ones do.  An amount of 671.50 is 672 in the script and 671 in the
   service, and 671 is a threshold of the tree (`tree.zig:849`).  In the trace
   such a request is labelled as denied: the scripts count it in leaf 1, above
   the threshold; leaf 0, with two approved requests of 670, becomes safe, and
   there the service takes it and approves it.  (Other numbers go the other
   way: 1.50 is 1 in the script and 2 in the service.)  So the count of errors that
   `tree.zig:1082` gives, and the comment at `calibrate_leaf_safe.py:163` that
   the rounding matches, hold only for data without such numbers.

About the calibration, short of a finding:

- `calibrate_leaf_safe_b.py:286` says that cross-validation catches pairs in
  the whitelist whose unanimity is an artefact.  `ErrorsOnlyInRejected` shows
  that a fold can err only on a pair that is divided over all the entries, so
  one that is not in the whitelist.  What is in it is never contradicted: it is
  unanimous in every part.
- A pair with fewer observations in four folds of five than the minimum is
  enabled without having been tried in a fold.
- `AuditsPass` shows that neither audit can find anything: the decisions before
  it leave no error on the entries they were made from.
- With `MODE_B_OPEN` pairs of leaves outside `ALLOW_LEAVES` are selected, but
  never enabled, since `leaf_verdict` has only leaves of the list.
- Script B writes the partitions of selected pairs to `PARTITION_RESTRICTED`,
  those of leaves that were left out for conflicting verdicts among them.
- Script A divides by the number of entries and fails without any.

A comment that is not exact: `lb.c:141` says the worker's `onRecv` loops until
EAGAIN.  It returns earlier when a send buffer is full (`main.zig:251`), and
the rest is read later, by the edge the re-arm makes; `NoLostWakeup` and
`EveryRequestAnswered` show that this is enough.

`daysSinceEpoch` rounds years before -1 down twice (`time.zig:36`: `@divFloor`
of `y - 399`) and would be a day off for them.  Years come from four
digits, and the calendar's assumptions leave negative ones out.

## 6. Proofs

`WorkerProofs` proves, for all values of the constants that satisfy
`WorkerConstants`:

- `TypeCorrect`: `Spec => []TypeOK`;
- `PoolCorrect`: `Spec => []PoolIntegrity`;
- `OwnerCorrect`: `Spec => []OneOwner`;
- `BatchCorrect`: `Spec => []BatchFresh`.

None of the last three is inductive alone.  `closeConn` keeps the pool intact
only if the slot it closes is in use, which for an event of a batch is
`BatchFresh`; that in turn survives a close only because events name distinct
slots and registrations name the slot of their owner, `OneOwner`.  So they
are proved together: `IInv` joins them with `PoolCount` (the number of free
slots is the length of the stack, so a push finds room), `CtrlTaken` (the control
connection's event is never both under dispatch and still in the batch) and
`BatchKinds` (what an event of a batch can be).
The operations on the pool are lemmas (`CloseConnPool`, `AdoptClientPool`,
`PoolFrame`), and each action cites one of them.

For clients that wait for each answer before the next request
(`~Pipelining`; with pipelining, `ResponsesIntact` is false, finding 1):

- `ResponsesCorrect`: `Spec => []ResponsesIntact`;
- `WakeupsCorrect`: `Spec => []NoLostWakeup`;
- `ClosesForCause`: `Spec => ClosedForCause`;
- `WorkerImplements`: `Spec => Abstract!Safe`, the worker implements the safety
  part of `Service`;

and for all clients `DescriptorsCorrect`: `Spec => []NoStrandedDescriptor`, of
descriptors on their way and of those received.

They rest on two more invariants.  `StreamInv` is an account of every chunk:
for a slot's client, what was sent is what the answered requests have used, what
is in `in_buf` and what is in `rx`, and the stream of responses ends where
`out_pos` says.  From it follows that `in_buf` never holds more than one request
of a client that waits, that a client that has asked again has got the whole
answer before (so `startSend` replaces nothing), and that a refusal for a bad
request is for one the client did send.  `WakeInv` says for each connection what
brings the worker back to it, also while a handler is at work on it: data that
is not read needs an edge or an event of the batch, unless the handler in hand
still reads; a response held back needs `EPOLLOUT`, unless the handler is about
to send or to re-arm.  It also holds that a hang-up in the batch is one the
client is responsible for, which `ClosedForCause` needs.  `FlowInv` joins the
three.  `PassInv`, for descriptors on their way,
is inductive beside `IInv`, which says where those received are.  The refinement
counts complete requests and complete answers by division; a write that
completes an answer is `Answer`, one that does not is a stutter, and a close is
`Drop`.

`HandoffProofs` proves what both load balancers rely on.  `HandoffInv` joins
`BytesConserved` with `OneDelivery` (no two messages, in queues or taken, are
about one client) and `QueueUntouched` (nobody has read from a connection that
is not yet accepted), and one lemma per operation shows what it does to them.

`LoadBalancerProofs` proves, for any number of clients, backends and any
request:

- `BytesKept`: `Spec => []BytesConserved`;
- `DescriptorsKept`: `Spec => []NoDescriptorLeak`;
- `TurnsFair`: `Spec => []Balanced`;
- `DropsExcused`: `Spec => DroppedOnlyForDeadBackend`;
- `HealthChecksOnly` and `LBImplements`: what it answers by itself are health
  checks, and it implements the safety part of `Dispatch`, if no request for
  another route starts with `GET /ready` (`NoOtherReadyRoute`; without it the
  first is false, finding 2).

The invariant `LBInv` adds `Underway`: in every step between `accept4` and
`close`, what is staged and what is left in the socket are all the client has
sent, no worker knows of it, and at the end it was passed or the backend has
gone.  `Turns` is the round robin: the backends before the next one are ahead by
one.

`LoadBalancerZigProofs` proves `BytesKept`, `DropsExcused`
(`Spec => DroppedOnlyWhenAllDead`) and `LBImplements` of the other one.  Its
`TriedAreDead` says that each backend already tried for the client in hand has
gone, and stays so; `Around` that trying as many as there are tries them all.

`KdSearchProofs` proves of the kd search, for every index, query and `TOP_K` that
satisfy `KdConstants` and `KdIndex`:

- `TypeCorrect`: `Spec => []TypeOK`;
- `FindsNearest`: `Spec => []NearestFound`;
- `StackNeverFull`: `Spec => []StackSuffices`;
- `CountsOnce`: `Spec => []CountedOnce`;
- `Implements`: `Spec => Abstract!Safe`, the search implements `Knn`.

The heart of the invariant `IInv` is `NothingLost`: a point is kept, or not
nearer than the worst kept one, or still to be reached from the node in hand,
the stack, or a partition ahead.  It rests on `BestSorted` (the worst kept
distance is the last, and only shrinks), `BoundsHold` (the bound in hand and
those on the stack are bounds), and `StackRoom` (node, stack and height add up
to no more than the stack's depth, so that no subtree is dropped).  That a point
is never counted twice needs that the places where it could be reached have no
point in common (`Apart`).  When the search ends, nothing can be reached, so
the kept points are a set of nearest ones: the refinement.  The assumptions
`KdIndex` are facts about the builder's output, and proved of it below.

`IvfProofs` proves of the clustered search, for every index, query, labeling,
number of probes and `TOP_K` that satisfy `IvfConstants` and `IvfIndex`:

- `ChoosesNearest`: `Spec => []ProbesNearest`;
- `CountsOnce`: `Spec => []CountedOnce`;
- `InexactOnlyUnanimous`: `Spec => []InexactOnlyIfUnanimous`.

The invariant has two parts.  `HeapInv` holds while clusters are chosen: no
entry is farther than its parent, except the one that is moving (`HeapOrder`);
whatever takes the place of that entry fits between its neighbours
(`HeapBridge`), without which the exception could not be given up at the end of
a move; what has left the heap is sorted and no nearer than what is in it
(`TailSorted`); and what was refused or let go is no nearer than what is kept
(`ChosenNearest`).  The last needs that the top of the heap is the farthest
(`HeapTop`).  A textbook would prove that by induction on the place in the
heap; here the least place that is farther than the top is compared with its
parent, and that a set of places has a least one is shown by counting
(`LeastOf`).  `ScanInv` holds while clusters are scanned: a point that was
scanned, or skipped with its cluster, is kept or too far for ever
(`MetCounts`), and the kept points are such points (`KeptMet`), so no point is
taken twice.  When `repair_fast` ends, the kept ones are the nearest of the
probed clusters; when `repair_full` ends, of all.  The early exits are left for
`InexactOnlyIfUnanimous` to sort out.  That `IvfConstants` has
`REPAIR_MIN = 1` and `REPAIR_MAX = TOP_K - 1` is what makes a verdict that is
not repaired a unanimous one; they are the values in `index.zig`.

`BuilderProofs` proves of the builder, for every list of vectors and keys, every
result of k-means, and every number of dimensions, lanes and points in a leaf
that satisfy `InputConstants`, `LeafSize` and `CentersAssumption`:

- `StoredOnceCorrect`: `Spec => []EveryVectorStoredOnce`;
- `BoxesCorrect`: `Spec => []BoxesEnclose`;
- `BalanceCorrect`: `Spec => []TreesBalanced`;
- `OneClusterCorrect`: `Spec => []EveryVectorInOneCluster`;
- `ClusterBoundsCorrect`: `Spec => []ClusterBoundsSound`;
- `KdIndexSearchable` and `IvfIndexSearchable`: a finished index is what the
  search that reads it assumes, clause by clause of `KdIndex` and `IvfIndex`.
  The bounds are sound for any query, not only for the vectors themselves; the
  points below two children, and below two roots, are apart; and when the
  vectors would fit in 2^d leaves no tree is higher than d; the file counts them
  in 32 bits, and the search's stack has 128 entries.

The properties speak of finished tables only, so none is inductive.  In the kd
mode the invariant is `KdInv`.  While trees are under way, `Under` and `Height`
mean nothing yet: a node that is not complete has no children.  `KdInv`
therefore speaks of two functions, U (the vectors below a node) and H (its
height), which `IInv` says exist: every step keeps them where they are and adds
the node it completes.  What it says: each record on the stack works for vectors
that are none of those its callers have yet to pass on (`StackInv`) and for one
half of its caller's (`CallInv`); every vector is in one leaf, or with one
record, or in a bucket no tree was begun for (`PlacementInv`); a complete node
has its length, its box, and as many levels as its size allows (`TreeInv`).
`Shallow` is the arithmetic of the last: a half is at most one more than half,
rounded, and that is enough at every level.  When the stack is empty, children
come after their parents in the table, so U and H agree with `Under` and
`Height` from the last node to the first (`SettledIs`).  That replaces an
induction: the last node at which they differed would have children at which
they do not (`FromTheEnd`), and that there is a last one is shown by counting.
The sort is characterised by ranks (`Ranks`, `InOrderKeeps`): each place has one
element and each element one place, which is all the proofs need of it; which
one comes first is for `IndexesAsBuilt`.

In the clustered mode the invariant is `IvfInv`: offsets are the sums of what
the clusters before need, hence in order (`OffsetInv`), so the lanes a cluster
is written to are no other's (`Region`), and those written stay (`StoreInv`).
That a cluster's last block lies before the next cluster's first is
`BlocksEnough`, the rounding up of `blocks_per_cluster`.  For the bounds,
`BoundIs` compares two sums of squares term by term; `SumsExist` shows that the
sums a recursive function defines are there, by a least gap without them.

`KeysInv` is inductive beside these: a key waits for its tree or has one, and no
two trees have the same, which is what keeps partitions apart.

`DecisionProofs` proves `CountsDays` (`CalendarSpec => []DaysCounted`) and
`KnowsWeekday` (`CalendarSpec => []WeekdayRight`) for every range of years that
are not negative.  `YearsByLeaps` frees the formula of eras, `LeapCounted` relates
leap days to leap years, and `NextDay`, `NextMonth` and `NextYear` are the
walk's three kinds of step.  The invariant has the weekday follow from the
count, and `WeekdayByDays` shows the same of the two formulas.

On that builds the second part of the module, which proves, for all dates, times
and profiles that satisfy `WalkConstants` (no number is negative):

- `HistoryAlwaysRight`: `WalkSpec => []HistoryRight`;
- `DistanceAlwaysFits`: `WalkSpec => []DistanceFits`.

The invariant `WalkInv` adds `Past` to the calendar's: the last transaction is
dated as many days back as the walk has counted, so the difference of the two
formulas is the time that has passed.  `WholeBounds` bounds the rounding of any
fraction between 0 and 1 and `AstrayBounds` what an error adds to it, so that
no error leads out of the scale (`RoundedInScale`); `Features` says which
dimensions may be missing, and `QuantizedBounds` puts them together: fourteen
dimensions within the scale, two of them possibly at its negative, two zero.
`DistanceBounded` bounds the differences and sums the squares to at most twenty times the square of the
scale, which is 93 % of the range; the proof needs that the last two dimensions
are zero, and, of both requests, that they have an average or an amount
(`ServedWithRatio`).  For the time since the last transaction, `DayTies` shows
that a part of a day is close to a half only if it is at one, so an error still
leaves a nearest integer (`Nearest`), and a full day is never left (`FullDay`).

Its third part proves, for every tree, list of labelled requests, minimum,
whitelist and number of folds that satisfy `TreeAssumption`, `DataAssumption`,
`MinObsA` and `ConstantsB`:

- `AnswersRight`: `Spec => []FastPathRight`;
- `AnswersObserved`: `Spec => []FastPathObserved`;
- `AuditsNeverFail`: `Spec => []AuditsPass`;
- `ErrorsInRejected`: `Spec => []ErrorsOnlyInRejected`.

The invariant follows a table from the run that decides it, through its file,
to the tree: `GoodA` and `GoodB` say of a table, wherever it is, what the
labels say of all it enables.  That neither mentions the other mode is why the
order of installing does not matter: Mode B keeps only pairs whose entries are
unanimous, and whether Mode A takes some of a leaf's away is all or nothing for
the pair.  `Mixed` says of the pairs that have failed in a fold that their
entries are divided.

Only model-checked: all liveness, which is `EveryRequestAnswered`,
`EveryClientTakenUp` and the fair halves of `ImplementsService`,
`ImplementsDispatch` and `ImplementsKnn`, since neither fairness nor `ENABLED`
is in the prover's reach; `IndexesAsBuilt`, which is about one list of vectors;
and the three runs of section 5, which are counterexamples.  `TreeAssumption`,
that the tree leads every request to a leaf, is evaluated by TLC for the
instance's tree.  The searches are proved for indexes given by constants and the
builder for the tables in its state: that the theorems of the two fit together
is read off `SearchableKd` and `SearchableIvf`, which repeat `KdIndex` and
`IvfIndex` with the tables in place of the constants, and not by instantiating
one module in the other.

## 7. Not modelled

The arithmetic of binary fractions itself: which numbers err is a choice, in
`features` any that are close to a half, in `calibrate` the one given by the
instance; k-means; the wording of requests and responses, and with it the JSON parser and
the digits of a timestamp; the statistics the scripts print; start-up; tuning
and warm-up (timing only); load tests and container files.  The descriptor
limit of a process and `MSG_CTRUNC` are left out of the worker.  How the tree
was trained is not in the repository.  Of `respond`, what comes before the
search is part of `LeafTables`, and the search has modules of its own.

## 8. Plan

Done: worker, load balancers, both indexes, their builder and their searches,
calendar, feature vector, calibration, and the proofs of section 6.  What a
continuation would add:

1. `Startup`: workers that unlink, bind and listen against load balancers that
   connect with retries, and a restart on either side.
2. `System`: load balancers and workers composed, the load balancer's model in
   place of the free one of `Worker`.
