# fdpi in TLA+

A verification development for fdpi, a C++23 deep packet inspection library that decodes
raw frames, tracks flows, reassembles IPv4 fragments and TCP streams, detects application
protocols, and does all of that on a pool of worker threads. The modules are written from
the source under `src/`; TLC checks them on small instances and TLAPS proves what it can
for every value of the constants.

## The system

| Part | State | Operations | What makes it correct |
|---|---|---|---|
| Packet processor (`src/src/processor.cpp`) | per worker: queue, mutex, condition variable, `running`, thread, decoder; shared: `started`, handler, counters | `setHandler`, `start`, `submit`, `submitBatch`, `flush`, `stop`, destructor, `workerLoop` | every accepted packet is decoded once, in its worker's order, and counted; no wakeup is lost; `flush` and `stop` cover what came before them and return; no thread object is lost |
| Distribution hash (`processor.cpp`) | none | hash over the first 40 bytes | one worker per flow under FlowPinned |
| Flow table (`flow_table.cpp`) | map from normalized flow id to metadata | `update`, `cleanupExpired`, `lookup`, `forEach`, `size` | one entry per conversation, bounded, evicting the idlest |
| TCP reassembler (`reassembly.cpp`) | per flow id: buffered segments, next expected sequence number, `synSeen`, `totalBytes` | `process` | bytes in order, once, none withheld; the account matches the buffer |
| IP defragmenter (`defragment.cpp`) | per identification and addresses: fragments, last seen, size | `process` | only whole datagrams, as soon as they are whole, of the bytes that were captured |
| Detection (`detection.cpp`) | per flow: decided, result, packets seen; TFTP ports | `detect`, `detectFlow` | the first protocol a flow shows in time is its protocol, and none is given up too early |
| Packet decoder (`decoder.cpp`) | the four above, POP3 and SMTP flags, L7 stream buffers | `decode`, `flows` | layers in order; a flow id from one level of a tunnel; each message of a stream reported once, wherever segments end; content of mail never taken for messages |
| Data link (`datalink.cpp`), header decoders, application decoders (`protocol/*.cpp`) | none | one function per protocol | the offsets they leave stay inside the capture; what was sent is what is reported; what is cut off is not invented |
| Addresses, flow ids (`address.cpp`, `flow_id.cpp`) | none | order, equality, hash, text | a total order for normalization |
| Tools, examples, benchmarks, regressions | | programs that use the library | not part of it |

Interaction: `submit` copies a frame into one worker's queue; that worker's thread hands
it to its own `PacketDecoder`, which calls defragmenter, flow table, reassembler and
detection in turn, and the result to the user's handler, on the worker's thread. Workers
share nothing but the handler, the counters and `started`; everything below the decoder is
used by one thread. The flow table and the detection engine have a mutex of their own, and
their operations are single steps.

What is hard: threads that submit, flush, stop and start at the same time, and handlers
that call back; a loop of three critical sections per worker in `stop`; segments and
fragments lost, repeated, reordered and cut anew; sequence numbers that wrap; tables and
buffers at their limits; per-flow state that outlives its connection. The list, line by
line, is under `hazards` in `PROJECT.json`.

## Modules

### `PacketProcessor`: the worker pool

One variable per field of `Impl` and `WorkerThread`, a program counter `wpc` per worker
thread and `pc` per caller. Callers are the program's threads and the workers themselves,
inside a handler callback. Each access to shared state is one step; a critical section is
one step, since the queue is touched under its mutex only. `flush` holds the mutex while
it looks, so its spin is a step that waits for the empty queue. `start` writes `running`
outside the mutex, a step by itself. `cv.wait` tests its predicate when it is called and
whenever it wakes, of its own accord too (`SpuriousWakeup`).

`std::thread` is modelled by what the standard says of it: assigning to or destroying one
that owns a thread terminates the program (`fault`), joining oneself throws out of a
function that does not catch it and does the same. Other accesses of a dead object are
excluded by the callers' rule that the destructor is called when no client is inside a
call.

The history variables `pushed`, `handled`, `overtaken` and `snap` record what the
properties speak of; no action reads them, except to keep them up to date.

`Disciplined` restricts the environment, not the code: `stop` and the destructor begin
only when no `submit` is in progress. `Ops` says which caller may call what.

`DispatchService` is the abstract promise: open, accept each packet once, complete in
order, close only with nothing unfinished. `PacketProcessor` implements it under
discipline (`ImplementsService`): a refinement mapping takes `open` to `started`, held up
until the last join of a stop has returned. Its part without fairness, `Safety`, has a
name of its own, since that is the part that is also proved.

### `FlowHash`, `MCFlowAffinity`: the FlowPinned hash

The multiplicative hash on the bytes of real frames, Ethernet, IPv4 with its checksum, and
the first TCP fields. The accumulator is 16 bits wide instead of 64: with four workers
only its two lowest bits matter, and addition and multiplication never carry downwards.

### `FlowTable`

`update` and `cleanupExpired` as single steps, with addresses and ports as numbers. The
victim of an eviction is any of the idlest entries: the code takes the first in the
iteration order of a hash table. `arrived` records the timestamps of each conversation's
packets, `latest` the flow id of the last one, which `FindsOwnFlow` looks up. `byteCount` and
`detectedProtocol` are left out.

### `TcpReassembler`

`process` for one stream, with sequence numbers modulo `SeqSpace`. A byte is its offset in
what the sender writes; the network is the choice of which segment arrives next, so it
loses, repeats and reorders. `segmentation` is the sender's way of cutting the stream,
chosen once: into segments that are always repeated as they were, or into any segments.
The loop that takes segments out of the buffer is a recursive function of the rounds it
has made (`Round`, `Rounds`); `Assemble` is its state after as many rounds as the buffer has
segments, when it has stopped: this is a lemma of the proofs (`RecursionLemmas` below).
What is buffered is counted as the places of its bytes (`Places`).

### `IpDefragmenter`

`process` with offsets in units of eight bytes, over datagrams cut in one or in several ways.
`process` is given how many of a fragment's units its span holds, down to a span that ends in
the header (`Spans`); it stores what the header announces nevertheless, and what lies behind the
span is `Beyond`, which may be any bytes. A unit of which one byte is missing counts as
`Beyond`. `cut` records the units that were missing. `processThrows` is the call for a header
that announces less than itself: the group is created, and the exception leaves `process`. The
loop over the fragments is again a function of the rounds (`Follow`, `Followed`).
`PacketDecoder` extends the module and calls it for the fragments it decodes.

### `Frames`, `HeaderDecoders`, `DataLink`, `FrameDecoder`: from a frame to its payload

A frame is the row of headers it was sent with, each with its offset, its length and the
fields a decoder looks at, and `cap`, the number of bytes the capture kept. A decoder that
looks for a header where none of its kind starts reads `Filler`, bytes 0x50 that are valid
for no protocol. So an offset that is off by one shows, although no byte is written down,
and every cut of a frame is one number. `WellFormed` says what a header can be, `LaidOut`
how headers make a frame (each behind the other, IP headers as long as they say, the
protocol of IP the one that follows); the captures of the run are both, and the theorems
about frames assume no more. A decoder returns its header or an error, and the
offset it leaves: the tunnels go on from the offset of a failed attempt.

`HeaderDecoders` has the link, network, transport and tunnel headers, `DataLink` the link
types other than Ethernet, `FrameDecoder` the stages of `PacketDecoder::decode` in their
order. A stage takes the state of the decoding and returns it; one that the code returns
from early leaves a state in which the later stages do nothing.
What a stage decodes is passed on as an argument (`OrFail`, and `Deliver` and `Take` in the
decoders below) where the code has a local variable.

### `MessageDecoders`, `StreamMessages`: application messages

One operator per decoder under `protocol/`, over the same frames. A message is a list of
items (the names of a DNS message, its options, its lines), and a decoder reports the items
it finds; the fields of one fixed header are one item. Loops over names, options,
attributes and lines are recursive functions of the offset. A message is not what its
fields say but what its decoder consumes and reports: that is what the stream path and the
length checks depend on. `decodeL7` chooses the decoder. Where a decoder goes on reading behind
what it has checked (an RDP request that says it is shorter than its fixed part, an odd number
of bytes of cipher suites), what it reports is `Stray`.

### `Detection`: the detection engine

The rules of `detectSingle` in their order, as data: transport, ports, size, and the
pattern the first bytes must show. Payloads carry the set of patterns they show. The engine
is a record that `detectFlow` returns anew, so that both decoders below can hold one.

### `PacketDecoder`: decoding packet by packet

`decode` for frames of a capture in any order, any number of times, with the defragmenter,
the detection engine, and the flow ids the table is updated with. TCP reassembly is off,
as `enableTcpReassembly` allows; then every payload is a message of its own. Each frame
says what its sender meant, its flow and its items, and no action reads that.
`FlowAsSent` compares the flow of a whole frame to it; `FlowIdFromOneLevel` and
`StaysInCapture` speak of cut frames as well, and do not. `StaysInCapture` is about the offsets
that the decoders leave, those of ARP, RARP, EAPOL, LLDP and HomePlug included, and not about
what they read on the way.

The defragmenter is given the fragment as far as it was captured (`CapturedUnits`). When it
throws, so does `decode` (`Escape`): the status of the packet is then `"length_error"`, and
neither flow table nor detection hear of it.

`DetectsAsHeard` says what the detection engine reports, from the history of what was
decoded: the first protocol that one of the first `MaxPackets` packets of a flow shows is
that of all its later ones. Two rules qualify it. A WebRTC flow (STUN, DTLS, RTP and RTCP on
one pair of ports) is told apart packet by packet. A TFTP request begins a transfer, whose
ports the engine then knows, only if it decides its flow: a flow that is a WebRTC one
already may report a TFTP packet, but nothing learns its ports.

### `StreamDecoder`: decoding a TCP conversation

The stream path of `decode`, for both directions of one conversation: stream buffer,
detection, one decoding per segment, the limit `maxL7StreamBytes`, the modes of SMTP and
POP3, and the FIN that forgets a stream. The bytes arrive as `TcpReassembler` returns them
when it withholds nothing, in order and once (run `reassembly`); what its findings hold
back never arrives, and that is a shorter conversation. A segment may end after the first
byte of a header, before its last byte, or with it, and the two sides are interleaved in
every way the dialogue allows: a side waits for what it answers, except where it is `ahead`.

`OfMessages` is the class of conversations a theorem is about: those of a protocol of which
a message is one header (`MessageOf`: FTP, SMTP, POP3, IMAP, SSH, SMB, RTMP, BGP, RDP), on a
port of that protocol, in which nothing shows a pattern of another protocol that is looked
for on any port. All conversations of the run are in it but those of TLS, HTTP, DNS and
Telnet, whose messages are made of several headers.

## Runs

| Run | Question | Instance |
|---|---|---|
| `processor_overlap` | Is anything lost, reordered, miscounted or left asleep, and do flush and stop cover what came first, when submits overlap a stop? | 2 workers, 3 packets (one malformed), the owner and a second thread that submits; a handler that submits |
| `processor_liveness` | Do stop, flush and the destructor return, and is the service implemented? | 2 workers, 2 packets, disciplined |
| `processor_shared` | Do order, accounting and wakeups survive two controlling threads and a handler that stops or flushes? | 2 workers, 2 packets pinned to one of them |
| `flow_affinity` | Does FlowPinned keep a flow on one worker? It does not. | 4 workers, three frames |
| `flow_table` | Is the table right across eviction and expiry? | 3 conversations in both directions, room for 2, 4 packets, times 0 to 3 |
| `flow_lookup` | Does a packet's own id find the entry the packet was filed in? Not when it goes from the larger address to the smaller. | the two directions of one conversation, any timestamps |
| `reassembly` | Is a stream delivered in order, completely, within the limit? | 6 bytes, 16 sequence numbers, wrapping after two bytes; 4 fixed segments, or all segments of up to 3 bytes |
| `reassembly_gap` | Does filling a gap release what is buffered behind? Not if it overlaps it. | 3 bytes behind a SYN, in the segments 1-2 and 0-1 |
| `decoding` | Does every frame leave its decoders within its capture, and is it decoded to the flow and the message it was sent with, and to no other when it is cut? | about 87 frames of every link type, tunnel, transport and application protocol, each cut after every byte; datagrams of 4 units (cut two ways) and 3 units (one way) in fragments, some of them captured in part, and one with a header that announces less than itself; four captures of several packets, of which up to 3 are classified, with `maxPackets` 2 |
| `decoding_cut_fragment` | Is what the defragmenter returns data of the fragments? Not where the capture cut one. | the three fragments of a datagram, two of them cut |
| `conversation` | Are the messages of a TCP conversation reported once, in order, and as soon as one decoding per segment allows, and do the modes follow the dialogue? | 19 conversations of 15 protocols, two of mail with a client that is ahead, one with an error, one with a line longer than the buffer; `maxL7StreamBytes` 50 |
| `conversation_content` | Is the content of a list never reported as a message? It is, after the list has ended. | the same |

Bounds. Two workers are the fewest for which the loops over workers have an order to get
wrong, and round robin uses both with two packets; the third packet lets a submit overlap
a stop while both queues are in use. Restarts are unbounded. In the flow table four packets
fill it, evict and come back to an evicted conversation. The stream of six bytes has a
gap of two segments behind a delivered one and can leave more than one segment stranded; a
sequence number space more than twice as large keeps its bytes apart, as 2^32 does for a
window below 2^31 (`ReassemblerAssumption`): streams that pass 2^32 bytes with segments
left behind in the buffer are not covered. In `decoding` a frame
alone is a state of its own, so that the frames do not multiply; three classified payloads
are one more than `MaxPackets`, which decides a flow. In `conversation` every byte sequence
is finite; a limit of 50 is above every message but the long line, and below what a mail
conversation leaves in the buffer when it is sent ahead.

Symmetry: in `processor_overlap` only, of the well-formed packets; it has safety properties
alone, and nothing orders the packets. Deadlock is not checked in `processor_overlap` and
`processor_shared`, where the system really may stop: a packet stranded by an overtaken
stop lets a `flush` wait for ever, and two threads that start and stop at once may leave
a stop waiting for a thread that does not end; nor in `decoding` and the conversations,
which end when there is nothing more to decode. In the other passing runs it is checked.

Fairness. `processor_liveness` assumes that a thread that can take a step takes one
eventually, a mutex included, and that handler callbacks return. The operating system
schedules runnable threads; no call is ever obliged to begin. That a mutex is granted
eventually, although `flush` takes it in a tight loop, is an assumption: C++ does not
promise it. `reassembly` assumes that a sender retransmits until a segment gets through,
as TCP does, and nothing of the code. `StreamDecoder` states none: every behaviour is
finite, and what must have happened in the end (`SuppressionEnds`, `CaughtUp`) is said of
the states in which it is due.

Each property of a passing run has a mutant, a definition of one of its modules with a
plausible bug (`Mutant of ...`) under which TLC finds the property violated.

## Findings

* Under FlowPinned the packets of one flow are spread over the workers
  (`flow_affinity`): the 40 hashed bytes reach the IP identification, the header checksum
  and the TCP sequence number. Each worker has its own reassembler, so a stream split over
  two is not reassembled.
* `FlowTable::lookup` does not normalize its argument (`flow_lookup`).
* A gap filler that overlaps the segment buffered behind it strands that segment, and its
  share of `maxStreamBytes`, for good (`reassembly_gap`).
* The lines that POP3 and SMTP suppress stay in the stream buffer
  (`conversation_content`): when the mode ends they are decoded as messages, one per
  segment, in place of the answers and commands that come then.
* The defragmenter stores of a fragment what its header announces, although the capture may
  have kept less: what lies behind the captured bytes becomes data of the datagram
  (`decoding_cut_fragment`).

Met while modelling the decoders, with no statement of the repository to hold against the
code, hence without a run: a fragment that completes a datagram is decoded
instead of the datagram (the code says "for now"); the headers and the body of an HTTP
message stay in the stream buffer when they come later than its first line, and so do the
body of SMB, RTMP and SSH packets, and nothing behind them is reported; an empty line at
the front of a buffer blocks a line protocol; detection always looks at the front of the
buffer, so that an IMAP client, whose first line no rule knows, is never detected; a
subnegotiation of Telnet that is cut loses what comes until the segment ends; the first
byte of an RTMP chunk of type 0 on stream 3 is taken for a handshake; an inner transport
that a tunnel's decoding does not follow leaves inner addresses with outer ports in one flow
id (`NotFollowed` in `FlowIdFromOneLevel`); behind a cut name NBNS reports bytes of the name;
a long-form OCSP response cut in front of its status is reported as a request; a cycle of
DNS compression pointers would not end (the frames have none); a connection request or confirm
of RDP that says it is shorter than its 11 fixed bytes is searched behind its end, since the
length of the rest wraps below zero; an odd number of bytes of cipher suites takes in the byte
behind them.

Met while modelling the rest, likewise without a run: a stream that is picked up without its SYN
begins with the first segment that comes, so that earlier ones that come later are reported as
retransmissions and dropped; a fragment whose `totalLength` is less than its header makes the
defragmenter throw `std::length_error` and leave an empty group behind, which `decode` lets
through although the library's README says "no exceptions" (`Escape`); `stop` overtaken by a
`start` of another thread may never return; `flush` returns while packets are still being
decoded; a packet stranded by an overtaken `stop` makes later flushes of a stopped processor
spin for ever; the reassembler refuses the segment that would empty a full buffer; `timeout` and
`maxFragments` of the defragmenter, `streamTimeout` and `maxStreams` of the reassembler are
never read.

## Proofs

A theorem holds for every value of the constants that the assumptions named in the modules
allow (`ProcessorAssumption`, `FlowTableAssumption`, `ReassemblerAssumption`,
`DetectionAssumption`, ...); TLC evaluates those on every run. Some theorems have a
hypothesis besides, about what surrounds the component. Each is listed with its theorem,
and the run that checks the same property satisfies it. The inductive invariants were
checked with TLC on the instances of the runs before they were proved.

| Hypothesis | It says | Without it |
|---|---|---|
| `SingleOwner` | one client starts, stops and destroys; any others, and the handlers, submit, flush and set handlers | two threads that start and stop at once can assign to a thread object that owns a thread |
| `Disciplined` | stop and the destructor begin while no submit is in progress | a packet may be enqueued behind a stop and stay there |
| `~LateSyn` | no SYN comes behind data | a second SYN begins a new count over the buffer of the old one |
| `SynFirst` | a connection is seen from its SYN on | a stream picked up out of order reports undelivered segments as retransmissions, see Findings |
| `CutOnce` (in the property) | the sender repeats segments as they were | finding `reassembly_gap` |
| `InOrder` | the timestamps never go back | a packet older than the entries it finds may evict one that was active after it |
| `KeysDiffer` | datagrams differ in identification or addresses | fragments of two datagrams are put together, see `hazards` |
| `SentWhole` | the fragments of a datagram cover it | |
| `FragmentsAreKnown` | the fragments in a capture are those of the datagrams, wherever they are cut, or announce less than their header | it only ties the constants of `PacketDecoder` and `IpDefragmenter` together |
| `CapturesAreFrames`, `ConversationsAreFrames` | the numbers in a header are unsigned, and a line, a label or an option has at least one byte (`WellFormed`) | no bytes say otherwise |
| `CapturesAreLaidOut` | the headers of a frame follow one another, and IP names the transport behind it (`LaidOut`) | a frame that contradicts itself has no level a header belongs to |
| `OfMessages` (in the statement) | the conversation is one of single-header messages, see `StreamDecoder` | TLC checks the others |

The hypotheses about constants are `ASSUME`s of the MC modules (`FragmentsAssumption`,
`CapturesAssumption`, `ConversationsAssumption`, `MessagesAssumption`), so the runs satisfy
them. They are not assumed where the constants are declared, since most theorems do not need
them. `NoneAssumption`, that `None` is no transport, is assumed there (`Frames`).

### `PacketProcessorProofs`

For every number of threads, every set of clients and packets and every `Ops`, disciplined
or not:

* `TypeCorrect`: `[]TypeOK`. The arithmetic that matters is that an index modulo the number
  of workers is a worker, and that a loop stays among them.
* `FifoCorrect`: `[]FifoConservation`. Not inductive as it stands: if a start could give a
  worker a second thread while the first holds a packet, that packet would be gone.
  `ThreadOwned` strengthens it, a worker's thread is at work only while its thread object owns
  it, and a start that would assign to an owning object takes the `fault` branch instead.
* `WakeupCorrect`: `[]NoLostWakeup`, inductive with `TypeOK`: whoever makes the predicate
  true is at its notify step, and only that step of the same caller leaves it.
* `FlushCorrect`: `FlushCovers`. The invariant `FlushProgress` says that for every worker
  behind the loop's position what was enqueued before the call has left the queue; it is
  kept because what has left a queue only grows, and `FifoConservation` turns an empty queue
  into "all of it has left".
* `CountersCorrect`: `[]CountersAccount`. `PacketsOnce`, a packet is pushed at one worker
  once, makes the handled packets of all workers a set whose size can be counted;
  `CountsAreRight` counts it, except for the packet a worker is between decoding and counting.

### `PacketProcessorControl`

With a `SingleOwner`:

* `NeverTerminates`: `[]NoTerminate`. `Stage` ties `started`, every `running` and every
  `joinable` to how far the owner is in its loops over the workers. None of them holds by
  itself across a start or a stop: they differ from worker to worker while a loop is under way.
* `StrandedCorrect`: `[]StrandedOnlyByRace`, from `ExitedStopped` (a thread leaves its loop
  only when it was told to) and `Overtaken` (while stopped, what is still in somebody's hands
  or in the queue of a worker that is gone was overtaken).
* `StopCorrect`: `StopDrains`, from `Drained`: once a worker's thread has left its loop, what
  was enqueued there when the stop began is handled. A loop is left with an empty queue only,
  and `FifoConservation` makes that "all handled".
* `ServiceImplemented`, with `Disciplined`: the processor implements the safety part of
  `DispatchService`, `Service!Safety`, under the mapping of `ImplementsService`. `Quiet`, nobody
  submits to a stopped processor and its queues are empty, lets the last join be the step in
  which the service closes; every other step is one of the service or a stutter.

### `FlowTableProofs`

For every set of flow ids, every capacity and timeout and every order of timestamps:

* `TypeCorrect`, which says that entries are kept under flow ids in normal form.
* `CapacityCorrect`: the table never exceeds `maxFlows`, from `Finite`, by counting.
* `ConversationCorrect`: `[]DescribesConversation`; that two directions share an entry rests on
  the lemma that flow ids in normal form with the same ends are equal.
* `EvictionCorrect`, with `InOrder`: `KeepsTheActive`. `Timed`, no entry is newer than the last
  call, is what makes a new entry newer than its victim.

### `RecursionLemmas`: induction without operator parameters

The provers cannot instantiate the library's induction theorems, whose parameter is an
operator. `NatSetInduction` states induction over a set: one that has 0 and with each number
its successor has them all. The set is defined by the statement to be proved.

Most recursive functions of the models have one shape: the value at a place (a round, an
offset, an index) is made of the value at one other place, or is known. The module has that
shape as CONSTANTS (`Dom`, `More`, `Next`, `Last`, `Join`), and a claim `Inv` about the value.
`Grounded` is the set of the places from which the recursion comes to an end. Where a rank
falls with each step that is every place: the function exists, satisfies its equation
(`RankedRecursion`), and has what each step hands on (`RankedInduction`, `RankedChoice`). Where
the recursion may go round, as the pointers of DNS names may, it exists if some value is
passed on everywhere (`AbsorbingRecursion`). Each recursive function is an instance, `INSTANCE
RecursionLemmas WITH ...`: the rounds of the reassembler and of the defragmenter, the tags
and options of the header decoders, the names, entries, records, items and characters of the
message decoders. So they are proved about for inputs of every length.

### `TcpReassemblerProofs`

For every stream shorter than half the sequence number space, every segmentation, every
limit and every order, loss and repetition of segments:

* `ReassemblerTypesCorrect`: `[]TypeOK`, which says that every segment in the buffer is one the
  sender's segmentation has, with its bytes, under the sequence number of the first.
* `LimitCorrect`, `BalanceCorrect`: `WithinLimit` and
  `AccountBalanced`, from `Account`. `totalBytes` alone says nothing inductively: `process`
  subtracts what the loop took out, so the invariant has to compare the counter to the bytes
  in the buffer, and to know that the buffer is keyed by the numbers of the bytes it holds.
* `DeliveryCorrect`, with `~LateSyn`: `DeliversInOrder`, from `Stream`: the next expected number
  is that of an offset of the stream, what was returned ends there, and nothing buffered
  begins there. `NumValue` and its companions show that `seqBefore` orders the numbers of one
  stream as the offsets are, across the wrap.
* `RetransmissionsCorrect`, with `SynFirst` and `~LateSyn`: `RetransmissionsWereSeen`.
* `ReleaseCorrect`, with `~LateSyn`: `NothingWithheld`. A round that does anything takes a
  segment out, so the loop has stopped after as many rounds as there were segments; and
  from a sender that cuts its stream once, the expected number is always the beginning of a
  segment, so that what comes next is found under its key.

### `DecoderBounds`: no decoder moves behind the capture

One lemma for each decoder of the headers, the data links and the messages, over any well-
formed frame, any cut and any offset it may begin at: the offset it leaves is not in front of
where it began and not behind the capture. `L7Bounded` puts the application decoders together,
`PipelineInside` the stages of `decodeFrame`: a stage keeps what the ones in front left, also
when it fails and a tunnel goes on from there. What makes it more than a sum of guards are the
lengths that come from the wire, which each decoder has to compare with what remains before it
adds them, and the loops. A DNS name behind a pointer may lead anywhere, even back to itself;
the offset behind the name does not depend on what the pointer leads to. Offsets are bounded,
not reads: the copy of a cut fragment (`Beyond`) and the `Stray` items are read behind the end,
and move no offset. Behind a cycle of pointers, where the code would not return (see Findings),
the model has some name, and the bound holds of it like of any other.

### `PacketDecoderProofs`

For any captures, whatever the layers make of their frames:

* `WholenessCorrect`, with `KeysDiffer`: `[]ReturnsWholeDatagrams` of `IpDefragmenter`.
  `Grouped` strengthens it: a buffer holds fragments of one datagram at their places, knows its
  size if it has its last fragment, and is not complete; its units are in place, or `Beyond` and
  in `cut`. The lemma about the loop, `FollowedRule`, says that it returns the data up to the
  first gap.
* `BufferCorrect`, with `SentWhole` too: `[]HoldsOnlyIncomplete`, since a loop over all
  fragments of a datagram meets no gap (`AllPresentIsComplete`), overlaps included.
* `DecoderWholenessCorrect`, `DecoderBufferCorrect`, with `FragmentsAreKnown` and
  `CapturesAreFrames` too: a step of the decoder is a step of the defragmenter, with as many units
  as the capture kept or with the exception, or leaves it alone. So it implements `IpDefragmenter`
  and has its theorems. The step rests on `CapturedSpan`: the header of a fragment was captured
  whole when the defragmenter is called, so what it is given is one of its `Spans`.
* `DetectionCorrect`: `DecoderSpec => []DetectsAsHeard`, with no hypothesis, for every
  `MaxPackets` and any number of flows and packets. `EngineMatches` says what the engine's state
  is a function of: a flow's record, of what that flow showed so far; the TFTP ports, of the
  transfers that were begun. An earlier form of the property let every reported TFTP packet
  begin a transfer. The proof did not go through, and TLC confirmed the counterexample: the
  packet of a flow that is a WebRTC one already. The property now says what the code does, and
  `DecidedCapture` puts the case before TLC.
* `StaysCorrect`, with `CapturesAreFrames`: `[]StaysInCapture`, the offsets of all layers,
  tunnels and messages, for all frames, cuts and nestings, from `DecoderBounds`. `Contained`
  says it of the latest packet; a decoding keeps nothing that an offset of a later one could
  come from.
* `OneLevelCorrect`, with `CapturesAreLaidOut` too: `[]FlowIdFromOneLevel`. `Networked` and
  `Leveled` are the invariants of the stages: in front of the transport stage the offset is
  where the network header of layer 3 ends, so that what is read there lies over it; a tunnel
  replaces the network header and leaves the ports of the outer level only where it follows
  no transport.

### `StreamDecoderProofs`

For any conversations, any cuts of their streams, any interleaving and any limit:

* `BufferLimitCorrect`, with `ConversationsAreFrames`: `[]BufferWithinLimit`. What the limit
  bounds is inductive only with what `DecoderBounds` says: a decoder that consumed more than
  the buffer holds would leave it a negative length.
* `MessagesCorrect`: `DecodedAsSent` of all conversations that are `OfMessages`, and
  `HeadsCorrect`: `CompleteHeadDecoded` of them. Neither is inductive. `Understood` says what
  the state is between two segments: the engine knows the protocol or nothing (`Own`: no rule of
  another protocol fits a packet of these ports), what was reported is what was said, and the
  buffer begins where the next message does, unless something was reported behind which a
  body stays. `MessageGives` is what a step rests on: at the beginning of a message its
  decoder succeeds exactly when the end of the message has come, and then reports that
  message and stops at its end.

### Only model-checked

* Liveness, which TLAPS cannot prove: `StopReturns`, `FlushReturns`, `StreamCompletes` and the
  fairness part of `ImplementsService`.
* `FlowAsSent`, `QuotedFlow`, `MessagesRestored` and `CutInventsNothing` of the packet decoder.
  They compare the result with what the sender meant, `flow`, `says` and `about`, which the
  frames of the run carry. For every frame they would need a second definition of what each
  nesting and each message means; `StaysInCapture` and `FlowIdFromOneLevel` need none, and are
  proved.
* `DecodedAsSent` and `CompleteHeadDecoded` of TLS, HTTP, DNS and Telnet conversations.
* `CaughtUp`, `ModeFollowsDialogue` and `SuppressionEnds`, which are about sides that take turns.
* The findings, which are counterexamples.

## Not modelled

* `imf.cpp`: the detection engine never reports IMF, so its decoder is not reached.
* Addresses as text, hashing of map keys, formatting; tools, examples, benchmarks and the
  recorded regressions: programs that use the library.
* Fields that are copied into a result and looked at by nothing else; checksums, which the
  code does not verify.
* The reassembler's part in the stream path beyond what it returns: a second connection on
  the same ports, and a FIN that arrives ahead of missing bytes.
* Conversations of the packet path over TCP with the modes of SMTP and POP3, which
  `StreamDecoder` covers with streams.
* Identifications that are reused; IP headers whose lengths contradict each other, other than
  the `totalLength` of a fragment that is less than its header.
* The data race of `setHandler` with `start`; relaxed memory order of the counters, which are
  read by nothing else; allocation failure, and exceptions of the standard library other than
  the defragmenter's; `forEach` and the reference `update` returns.

## Plan

1. `PacketProcessor`, `DispatchService`, `FlowHash`: done; every safety property is proved, and
   the step simulation of the service.
2. `FlowTable`: done and proved.
3. `TcpReassembler`, `IpDefragmenter`: done for one connection, and proved.
4. `Frames` to `PacketDecoder`: done; defragmentation, detection, `StaysInCapture` and
   `FlowIdFromOneLevel` are proved. Open: `FlowAsSent`, from a definition of the innermost level
   of a nesting.
5. `StreamDecoder`: done for one connection; `BufferWithinLimit` is proved, and for messages of
   one header each `DecodedAsSent` and `CompleteHeadDecoded`. Open: messages of several headers,
   and `CaughtUp`, which needs the turns of a dialogue as a definition.
