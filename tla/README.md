# PyHDLWeaver in TLA+

PyHDLWeaver turns Python descriptions of network protocols into SystemVerilog
parsers on an AXI-Stream bus, and into C parsers over a buffer. What has to be
right is what it emits: small state machines that cut frames into header fields
and payload, byte lane by byte lane, while the source pauses, the sink stalls,
frames end anywhere and the configuration changes; and the generators, which must
make of one definition two programs that agree. This directory models both. TLC
checks the machines on small buses and the generators on the repository's own
examples; TLAPS proves, for every bus width, protocol and set of frames, the safety
of all four machines and of the pipeline of them, and that what they do to whole
frames is what short specifications without a bus allow.

`PROJECT.json` lists the runs, the lines of `src/` each definition stands for,
the mutants that show each property can fail, and the hazards in the code.

## The system

| Part | Where (under `src/pyhdlweaver/`) | State | Operations | Interacts with |
| --- | --- | --- | --- | --- |
| AXI-Stream bus | `stream/axi_stream.py` | the beat on the bus | handshake | every parser's ports |
| Protocol definitions | `protocols/*.py`, `actions/` | none, definitions are immutable | construction, with what it rejects; software evaluation of a packet | generators, tests |
| Software packet reader | `data_packet.py` | none | reading a field from bytes | evaluation |
| Header layout | `protocols/definitions/` | none | byte to beat and lane, beats of a header, masks and shifts of a field | generators, reports |
| Actions and plan | `generators/backends/systemverilog/` (`systemverilog_generator.py`, `generation_plan.py`, `*_condition.py`, `config_port.py`) | none | drop and route actions become conditions, registers become configuration ports | templates |
| Field capture | `field_extract_emitter.py` | field and configuration registers | capture by beat, bypass of the last header beat | templates |
| Sideband parser | `sideband_body.sv.j2` | FSM of 5 states, tail of a beat, error flag, route, drop counters | parse, drop, realign, flush, forward | source, sink, configuration |
| Multi-message parser | `multi_message_body.sv.j2` | FSM of 4 states, scratchpad of two beats, message and byte counters | parse, sub-header, body, drain | source, sink, configuration |
| Discriminated parser | `discriminated_body.sv.j2` | FSM of 2 states, registers of all variants | parse, publish, refuse, drain | source, sink or field consumer |
| Multi-message discriminated parser | `multi_message_discriminated_body.sv.j2` | both of the above, a byte per cycle | parse, sub-header, message, drain | source, field consumer |
| C backend | `generators/backends/c/`, `templates/c/` | the offset in a buffer, the result | generation, with what it rejects; one call per buffer | the caller |
| Wrapper and rendering | `module.sv.j2`, `template_renderer.py` | none | names of ports, text | files |
| Examples and benches | `src/examples/` | | definitions; packets and what is asserted of them | every part above |
| Pipelined example | `src/examples/hft_pipelined/` | three parsers in series, a gate | route, gate, split, read | source, field consumer |

The parsers meet only at AXI-Stream handshakes. A beat moves at a clock edge at
which `tvalid` and `tready` are both high; each side may hold its signal low for
as long as it likes. What makes the code hard to test follows from that: which
edges coincide (input handshake, output handshake, both, a configuration write, a
reset) is decided outside, while the byte at which a header, a message or a frame
ends relative to a beat decides inside. The generators have no state, but every
definition and bus width is another program. The hazards in `PROJECT.json` are
these, at their lines. What makes each part correct:

- sideband: the payload leaves whole, once, in order, in full beats up to its last;
  the error mark of a frame is neither lost nor inherited; the verdict and route
  are those of one configuration; counters count each frame once; nothing hangs;
- multi-message: every message is found wherever it starts; each body is an
  output frame of its own; a malformed frame counts once and ends where it ends;
- discriminated: what is published is one message of a known variant, with the
  fields that variant has; anything else counts once;
- definitions, layout, plan and C backend: a definition is rejected or becomes
  programs that read the same fields, drop the same packets, route them alike and
  find the same messages;
- pipeline: what a stage announces belongs to the frame the other stage is at.

## Modules

```
AxiStream ─┬─ GenerationPlan ─┬─ MessagePlan
           │                  └─ FrameIntake ─┬─ FrameFilter
           │                                  └─ MessageWalk ─┬─ MessageSplitter
           │                                                  ├─ MessageReader
           │                                                  └─ MessageFeed
           ├─ VariantPlan ── VariantBeats ── VariantReader
           ├─ StreamSource ─┐
           └─ StreamSink    ├─ HeaderParser ─┬─ SidebandParser ── SidebandFrames ── SidebandInvariant
                            │                └─ MessageHeaders ─┬─ MultiMessageParser ── MultiMessageFrames ── HftPipeline
                            │                                   └─ MultiMessageDiscriminated
                            └─ DiscriminatedParser ── DiscriminatedFrames

Protocols ─┬─ Planning ─┬─ CParser ──┐
           │            └─ Datapath ─┴─ Toolchain
           └─ Examples

StreamSourceProofs ─┬─ SidebandParserProofs
                    ├─ MessageHeadersProofs ─┬─ MultiMessageProofs ── HftPipelineProofs
                    │                        └─ MultiMessageDiscriminatedProofs
                    └─ DiscriminatedProofs

Toolchain ── ToolchainProofs
```

A line is EXTENDS. Each `...Frames` module, MultiMessageDiscriminated and HftPipeline
also INSTANCE the promise they implement; MessageHeaders has MessageWalk as
`Walk`, the walk over a frame's messages that its own registers amount to.

The machines:

- **AxiStream** is the bus. A beat's `tdata` is a function from lanes to bytes,
  `tkeep` a set of lanes. A frame is a record of its bytes, its length, the end of
  its last beat and the beats the source marks with `tuser`. The lanes behind a
  frame's last byte carry something too, and a last beat may carry no byte. Byte to
  beat and lane, and the number in a field, are here as well.
- **StreamSource** drives an input port. The wires `s_axis_*` are functions of the
  frame being sent and the position in it. It pauses as it likes, and holds a beat
  until it is taken. `cur`, the frame last read from, is history. **StreamSink**
  takes an output port's beats and puts frames together from the wires alone.
- **GenerationPlan**, **MessagePlan**, **VariantPlan** and **VariantBeats** are
  what a plan means to the machine that is rendered from it: number of header beats, payload start, drop and route
  conditions, message count and length, variants. Registers are kept byte by byte.
- **HeaderParser** holds what the parsers with a fixed header share: capture, the
  bypass of the last header beat, configuration registers, drop counters.
  **MessageHeaders** holds what the two templates for frames of messages share,
  branch for branch: the outer header, the sub-headers, the scratchpad they are
  taken from, and the draining of a refused frame.
- **SidebandParser**, **MultiMessageParser**, **DiscriminatedParser**,
  **MultiMessageDiscriminated** are the emitted modules: a variable per register,
  a definition per wire, an action per branch of the `always_ff` block that is
  taken at an edge. An action is one clock edge, except `Present`, by which the
  source puts its next beat on the bus. `IdleEdge` is an edge at which nothing is
  handed over, because the source pauses or because the sink stalls. `Reset` may
  come at any time.
- **FrameFilter**, **MessageSplitter**, **VariantReader**, **MessageReader** say
  what the four promise of whole frames, with no bus, no beats and no lanes.
  **FrameIntake** is what three of them share (how a frame is judged, counted and
  discarded), **MessageWalk** what those about messages share (how one message
  follows another, and where a frame stops being what its headers announce).
  **SidebandFrames**, **MultiMessageFrames**, **DiscriminatedFrames** and the end of
  **MultiMessageDiscriminated** put a parser and its listeners together and state
  that they implement the promise.
- **HftPipeline** is `examples/hft_pipelined`: the splitter beat by beat, the
  reader taking its beats at the edges they leave at, and before them the router
  and the gate as a map from packets to frames, which FrameFilter justifies.
  **MessageFeed** is what splitter and reader promise together.
- **SidebandInvariant** is the inductive invariant of the sideband parser and its
  sink; those of the others are at the end of their modules. **StreamSourceProofs** has the facts
  about the source that all proofs share, **MessageHeadersProofs** those about the
  actions of MessageHeaders, **ToolchainProofs** what is proved of the generators, of
  the plans they accept and of the C functions they emit.

The generators:

- **Protocols** is what the Python constructors complete and reject, and `eval`,
  the software model. **Planning** is `bus_layout.py`, `beat_layout.py` and the
  emitters of slices, bit by bit, then `build_plan` and what the three
  SystemVerilog generators make of it, with what they raise and the ports and
  wires the module declares.
- **Datapath** says what a module generated from a plan does to one frame: the
  promises of the four machines in one formula each.
- **CParser** is the C generator (what it rejects, which bounds it elides) and the
  emitted function, a step per part of it up to a return and per turn of its loop.
- **Toolchain** is the way of a definition: constructed, planned for each bus
  width, turned into C, then given packets. The outcome of module, C function and
  software model are compared; where parsers are chained, each slice the C result
  points at is the next parser's buffer.
- **Examples** holds the definitions of `src/examples/`, and the packets of their
  cocotb and ctypes benches with what those assert.

`MC*` modules give the constants values. Operators introduced by a comment that
says "Fault" are mutated definitions: what a slip in the code would make of the
definition after them. No specification uses them.

## What TLC checks

Each bus is as wide as it takes for headers and payload to share beats, and frames
take every length at which an answer changes. Counters wrap at 2 or 3. Every frame
is sent in every order, with every pattern of pauses, stalls, configuration writes
and resets. Two frames are enough for anything to leak from one to the next, and
every reachable leftover of one frame meets every other frame.

| Run | What | States |
| --- | --- | --- |
| `sideband_unaligned` | 5-byte header on 4 lanes, the longest tail there is. Lengths 3 to 13: too short, all header, tail only, last bytes fit, last bytes spill. All invariants and `FramesInv`, the one they are proved from, `HeldUntilAccepted`, `FrameCompletes`, `ImplementsFilter` | 10^4 to 10^5 |
| `sideband_aligned` | 4-byte header on 2 lanes: the payload starts a beat and is forwarded, not realigned | 10^4 |
| `messages` | 4-byte header, 2-byte sub-headers, 3 lanes: sub-headers and bodies begin at every lane, the scratchpad reaches its limit of 2·3 - 1 bytes. Well-formed and damaged frames. All invariants, `FrameCompletes`, `SeparateFrames`, `ImplementsSplitter` | 4·10^5 |
| `message_fields` | 4-byte header, 2-byte sub-headers, messages of 3, 4 and 5 bytes on 3 lanes, the tag at every lane: three variants in a row, unknown tags, wrong, zero and over-long lengths, frames cut, too long or ended by an empty beat. `PayloadInStep`, `MessagePublished`, `ImplementsReader` | 4·10^4 |
| `variants` | discriminator on the second of four 2-byte beats, a field with two places, overlapping fields: `Published`, `Framing`, `ImplementsReader` | 4·10^4 |
| `toolchain` | every example definition at the bus widths its benches use, every packet of those benches with what they assert; eight small definitions with every packet of a few bytes; definitions that are rejected | 10^4 |
| `pipeline` | the pipelined example at its true size, 10 lanes, over the frames its benches send and a few more | 4·10^4 |
| `sideband_readme`, `sideband_keep_on_last`, `messages_boundary`, `messages_open`, `variants_overlong` | the disagreements below, each a violation | |

What the properties say is in a comment above each. In short:
`PayloadIntegrity`, `FrameBoundary` and `ErrorFlag` hold of every beat on offer at
`m_axis`, `OnlyAccepted` ties them to the verdict on the frame, `FieldsCoherent`
and `SubFieldsCoherent` say that announced fields are one header of the frame in
hand. `Framing` and `ScratchIntact` are the multi-message parser's: it is never
out of step with the source and its scratchpad holds exactly the bytes accepted
and not consumed. `Published` is the discriminated parser's. `PayloadInStep` says
that the counters that place a byte in its message agree on where that is, and
`MessagePublished` that what is announced is one whole message of the frame in hand.
The `Implements...` properties are refinements, checked as temporal properties with
the fairness of the promise; `ImplementsFeed` is safety only.

Of the generators: `PlansSound` is that each plan is what the machines' models
assume of one, and that the rendered module's wires, ports and slices exist and
fit. `AsTested` is every assertion of the benches. `ReadersAgree`, `FilterAgrees`,
`MessagesAgree` and `VariantsAgree` compare module, C function and software model,
`PayloadsWithin` keeps the C result inside its buffer. `SeqNumCoherent` and
`FrameAsTested` are the pipeline's: the number on one stage's outputs belongs to
the message on the other's, and each bench's expectation holds after any frame,
not only after a reset.

**Fairness.** `WF(Present)` and `WF(Consume \/ Output)`, without `Output` for the
parsers that have none: the source keeps sending
and the sink, whenever it is offered a beat, takes it in the end. Both are about
the environment; the emitted module has no scheduling of its own, its clock just
runs. `FrameCompletes` and the fairness of the promises then say that the parser
itself is never what a stream hangs on. Nothing is assumed about how long pauses
last, nor that resets stop. `toolchain` ends when a packet has been through, which
is why it does not check for deadlock.

**What the passing runs leave out**, each of them a disagreement shown by a run
that finds a violation:

- `messages` and `message_fields` send no frame that ends with its outer header
  while messages were announced, nor one that ends behind a sub-header that
  announces a body. Those put the parser out of step with the source
  (`messages_boundary`): it reads the next frame's header as a message. `FramesEnd`
  in MessagePlan says what is left out, and TLC evaluates it on the frames of
  both runs.
- `messages` sends no frame that an empty beat ends after part of a body was sent.
  Its output frame is never ended (`messages_open`).
- `variants` does not check the forwarded stream. A forwarded frame longer than
  the longest variant is never ended (`variants_overlong`).
- The sideband runs use headers whose last field reaches the header's last beat.
  Otherwise, as in the README's quick start, the payload starts too early
  (`sideband_readme`). And they drive `tkeep` on every beat; a source that drives
  it only where the README gives it a meaning loses payload
  (`sideband_keep_on_last`).

Other things the passing runs leave out, which no text of the repository speaks of:

- The generators accept plans in which the discriminator is read before it is
  captured: a field with several places on a beat before the discriminator's
  (discriminated parser), or before the discriminator or in a message that ends
  with it (multi-message discriminated parser). `VariantBeatsAssumption` and
  `DiscriminatorFirst` exclude them; `PlansSound` shows the examples are none.
- A multi-message definition whose last field ends in an earlier beat than
  `total_length`: its checks name bypass wires that are not declared
  (`multi_message_systemverilog_generator.py:67` against `:182`). `OuterAssumption`
  excludes it.
- `fields_valid` of the discriminated parser and `itch_fields_valid` of the
  multi-message one, once set, stay high while the next message's bytes overwrite
  the registers behind the outputs. `Published` and `ImplementsReader` are therefore
  about a consumer that takes the fields when `fields_fresh`, or `itch_fields_fresh`,
  is high.
- What a discriminated parser passes on has no common meaning: the module forwards
  the message's own beats, the C function points at what lies behind the message
  (`source.c.j2:90`). `VariantsAgree` relates the C result's slice to the message the
  module publishes: it begins where that message ends and reaches the end of the
  buffer, if the definition forwards, which it does unless it says `forward=False`
  (`discriminated_protocol.py:20`). The example ITCH_PARSER says so; the small
  definitions Moved, WideKey and Dropped do not, and Dropped drops some of the
  messages it forwards.
- `message_fields` does not write the configuration: the two templates treat it
  alike, and `messages` does.
- Fields of more than 8 bits that are no whole bytes are left out of
  `ReadersAgree`: the module takes the top of the field's first byte whole, the
  packet reader and the C function the low bits; one such field in a single beat
  makes `field_beats` raise, and on an 8-bit bus the slices are wrong.
- The comparisons of `toolchain` are conditional where module and C function differ
  by design or by omission. C goes on behind a message of no length and ignores
  bytes behind the last one, where the module stops and counts. It accepts a
  message longer than its variant. It honours route actions of the outer header of
  a multi-message definition, and drop and route actions on the common fields of a
  discriminated one, which the modules ignore; both ignore actions on sub-header
  and variant fields. With more than `MAX_MESSAGES` announced it sets an error and
  parses what fits. A packet with no route has destination 0 in the module and
  none in C. With two `RouteToAll` the module takes the last, C the first; of two
  uses of a register that differ in default or width the module takes the first, C
  the last.
- In the pipeline a message the frame's end cuts short is read as far as it was
  sent, and published if that is a message; all three stages in one module would
  not. MessageFeed says so. The 80-bit bench's stalls between splitter and reader
  are not modelled: in the shipped wiring the reader is always ready.

## What is proved

For every bus width, definition, configuration, counter modulus and set of frames
that meets the assumptions:

| Proofs | Invariants and action properties | Refinement |
| --- | --- | --- |
| `SidebandParserProofs` | `TypeOK`, `PayloadIntegrity`, `FrameBoundary`, `ErrorFlag`, `OnlyAccepted`, `FieldsCoherent`, `HeldUntilAccepted`; with a sink, `FramesInv` | FrameFilter: `FiltersFrames` |
| `DiscriminatedProofs` | `TypeOK`, `Framing`, `Published` | VariantReader: `ReadsMessages` |
| `MultiMessageProofs` | `TypeOK`, `Framing`, `ScratchIntact`, `BodyBoundary`, `MessageMarked`, `FieldsCoherent`, `SubFieldsCoherent`; with a sink, `FramesInv` and `SeparateFrames` | MessageSplitter: `SplitsFrames` |
| `MultiMessageDiscriminatedProofs` | `TypeOK`, `Framing`, `ScratchIntact`, `FieldsCoherent`, `PayloadInStep`, `MessagePublished` | MessageReader: `ReadsMessages` |
| `HftPipelineProofs` | `PipelineInv`, `SeqNumCoherent` | MessageFeed: `FeedsMessages` |

and of the generators, in `ToolchainProofs`: for every field, bus width and packet
`SlicesAgree` and `SlicesRead`, for every definition `FilterPlansFit`,
`SplitterPlansFit`, `ReaderPlansFit`, `DiscriminatedPlansFit`,
`DiscriminatedPlansCapture` and `ReaderPlansCapture`, and of every run of
Toolchain `CallsInvariant`, `ReadInvariant` and `VariantInvariant` and, from these,
`ResultsWithin`, which states `PayloadsWithin`, `FieldsReadAlike`, which states
`ReadersAgree`, and `VariantsReadAlike`, which states `VariantsAgree`.

A refinement theorem is about the safety of the promise, `Init /\ [][Next]_vars`:
initial states map to initial states and each clock edge to a step of the promise or
to none. The promise's fairness stays with TLC. MessageFeed has none, so
`FeedsMessages` is `ImplementsFeed` in full.

**Sideband.** The assumptions are those a plan that compiles meets
(`KeepWidthAssumption`, `FramesAssumption`, `PlanAssumption`, `CounterAssumption`,
`KeepAlwaysAssumption`) and those of `SidebandInvariant`: `HeaderAssumption`, that
the last field reaches the header's last beat and the source drives `tkeep` on
every beat, and `RoutesAssumption`, that the routes are a sequence.
`HeaderAssumption` is needed: `sideband_readme` and `sideband_keep_on_last` are
what happens without it. The properties speak of beats on offer and none is
inductive: what is offered next depends on the tail registers, on how far the
source has got and on what was emitted before. `IInv` adds what ties these
together, state by state. Between frames nothing is left over. In `ST_PARSE` the
source is `beat_count` beats into its frame, the registers hold the bytes captured
so far, and the error flag the marks so far. In `ST_REALIGN` the tail is exactly
the bytes between those emitted and those accepted. In `ST_FLUSH` it is the
frame's last bytes. In `ST_FORWARD` the source stands at the payload position.

**Discriminated.** The assumptions are `VariantPlanAssumption` (places within a
message, one width per field) and `VariantBeatsAssumption` (no field with several
places before the discriminator's beat). `Published` is not inductive: whether the
registers hold one message is decided when its last beat comes, by bytes captured
on earlier beats at places that depend on the discriminator. `Hold` says what
they hold meanwhile: every byte behind the position that the frame's own
discriminator selects, once that has been seen. A frame that ends before its
discriminator is not published because it is shorter than any message.

**Multi-message.** The theorems have the hypothesis `FramesEnd`, that no frame
ends where the parser does not look; `messages_boundary` shows that it is needed.
The invariant `IInv` says where the parser is. Its four counters (accepted by the
source, left in the scratchpad, left of the body, left of the messages) determine
a position, `Start`. `WalkInv` says that this is where the message in hand starts
according to the frame itself: there is a sequence of starts, the first behind the
outer header, each next one where the length in the sub-header before puts it.
`SubHeaderInv` and `BodyInv` say that the sub-header registers hold the bytes
there, as far as they are read. The scratchpad is a `Slice` of the frame, and the
lemmas about slices (their head, their rest, two in a row) are all a step needs to
know of it. Two lemmas stand apart: `BigEndianType`, that the number in a field is
a natural number, needs an induction over the field's bytes, which is done with
the least counterexample (`Least`); `Layout` has the arithmetic of beats.

**Multi-message discriminated.** What the two parsers share, the actions of
MessageHeaders, is proved once, in `MessageHeadersProofs`, of `HeadersInv`.
`PayloadInv` adds that the offset counter is the number of bytes read of the
message, modulo its width, and, as long as it has not wrapped, that the registers
`Hold` those bytes at the places the message's own variant gives them. A byte at a
place that depends on the discriminator is captured by the discriminator's
register, so `DiscriminatorFirst` is needed: the discriminator has been read
before. A message long enough for the offset to wrap corrupts the registers and is
longer than any variant, so it is not announced. `OffsetAssumption` is a fact of
arithmetic: the smallest power of two above every length is above every length;
the prover knows nothing of powers, and TLC evaluates it.

In each proof a lemma per action shows that it keeps the invariant.

**With a sink.** That the sink gets whole frames needs a stronger invariant than
that the wires are right, because the sink believes the wires: `FramesInv` is
`IInv` and `SinkInv`, that the sink has received what has been sent so far of the
frame, or body, in hand, and nothing while none has begun. The multi-message
parser's has `ReadWhenNeeded` as well: no marked beat is read before one of its
bytes is needed, so that the marks gathered by the end of a body are those up to
its last byte and no later ones. The sideband parser's is checked by
`sideband_unaligned` too.

For the multi-message parser the theorems with a sink have a second hypothesis,
`NoneLeftOpen`: no frame is ended by an empty beat behind a body of which something
was sent and something is missing. `messages_open` shows `SeparateFrames` fail
without it. TLC evaluates both hypotheses: MCMultiMessageFrames assumes that the
frames of `messages` include no such frame and those of `messages_open` one, and
MCHftPipeline that all its frames meet both.

**Refinements.** `FiltersFrames`: a frame is judged at the edge that takes its last
header beat and delivered at the edge its last payload beat leaves at, which may come
after the source has nothing more of it; the edges in between do no more to the promise
than a configuration write does, and the sink's invariant says what is delivered.
`SplitsFrames`, and `ReadsMessages` of the
multi-message discriminated parser: MessageHeadersProofs shows once that every edge of
what the two share is a step of MessageWalk, with `Start` as its position. What is
left is the end of each message: whole (`BodyWhole`), cut short by the frame's end
(`BodyCut`) or lost because the frame ends with an empty beat (`BodyGone`), and
whether the next one begins (`BodyNext`) or the frame is done with, once, with the
right count (`BodyLast`). The instances of MessageWalk in the promises are shown to be the same
as the one in MessageHeaders operator by operator (`SplitterReads`, `FeedReads`).

**Pipeline.** A step of the pipeline is one of the splitter with its sink
(`SplitterOnly`), so `FramesInv` holds; the sink's `received` is then what the
reader has seen of the message on the bus. `OnBus` says that with the beat on the
bus it is a part of the body in the frame, from its first byte, and `SameMessage`
that its bytes say the same there as in the frame. `ReaderInv` ties the reader to the
splitter: it drains only inside a body of which no less than `Limit` bytes have
been sent, and has counted that one, unless it was marked. `SeqNumCoherent` follows because a
message is announced one edge after its last beat and the splitter, which needs an
edge for the next sub-header, still has the outer header of its frame in the
registers. For `FeedsMessages` the reader's count is read back by one while it has
counted a message whose end it has not seen (`Refused`, `CountBack`), since the
promise judges a message when it ends. `ReaderAssumption` is what the generators
check of a discriminated protocol: places are natural numbers and lie within their
message.

**Slices.** Every bit of a field's register is in the slice of one byte of the field
and in no other (`OneSlice`), and the lane that slice names is where the bus has that
byte (`SliceBit`). So the modules that capture beat by beat and those that capture
byte by byte read the same bits (`SlicesAgree`), of fields of any width. `SlicesRead`
adds that this is the number `read_field` returns, for fields of whole bytes or of no
more than 8 bits: of others the reader masks the first byte and the modules the last.
`FieldsReadAlike` is from these.

**Plans.** What the proofs above assume of a plan is what the constructors and the
generators see to. `SplitterPlansFit` says that the plan of every multi-message
definition they accept meets `PlanAssumption` and `MessagePlanAssumption`;
`ReaderPlansFit`, that with discriminated messages it meets `VariantPlanAssumption`;
`DiscriminatedPlansFit`, the same of a discriminated definition, and that its
discriminator lies in one beat; `FilterPlansFit`, that a sideband plan meets
`PlanAssumption` in what it says of lengths and places. All that is asked of a
definition is that its offsets, widths and lengths are numbers, that its fields are
sequences and its variants finitely many (`DeclaredMulti` and the like); negative
numbers, lengths that do not cover the fields, counts and lengths that are no fields,
and names of two widths are for the constructors and generators to reject. The
argument goes from the definition as it is written to the one the constructors
complete (`Lengths`, `WithVariantsIs`, `Subs`, `MultiIs`), from there to the places its
names stand for (`Required`, `Named`, `FieldsFit`, `CommonPlaces`), and through the
records a plan is put together from (`BothRecords`, `OuterPlan`, `MessagePlans`,
`VariantPlans`). The proof of `DiscriminatedPlansFit` needed a hypothesis that nothing
in the code checks: `field_beats` is asked about the discriminator, while the module
knows it by its name, so no other common field may have that name. Two that do would
be two ports of one name, which do not compile. Not among these theorems are the
assumptions the generators do not see to (`OuterAssumption`, `HeaderAssumption`,
`DiscriminatorFirst`, the second line of `VariantBeatsAssumption`) and the
destinations of routes, which are folded from lists.

**Capture.** `DiscriminatedPlansCapture` and `ReaderPlansCapture` are the part of
`PlansSound` named `Captures`: the slices assigned to a register for a value of the
discriminator are the bytes where that variant has the field. The generators decide by
the places of a name over all variants (`name_locations`, of offsets and widths in
bits) whether a slice is taken always, and by the variants that have the very same
place for which values it is taken otherwise (`KeysOf`); `CaptureAt`, on which the
proofs about both parsers rest, counts the places in bytes that a plan knows. They
agree because a name has one width in all the variants, so that the two sets of places
have the same number of members (`PlacesTaken`), and because the slices of a field are
its bytes, one each, on any bus (`BeatBytes`) and byte by byte (`MessageBytes`).
The hypothesis is `Apart`: no two places of one header, or of one variant, have one
name. Nothing in the code checks it, and without it the entries of both would be taken
into one register. TLC evaluates it for the jobs of `toolchain` (`VariantsApart`).

**C function.** `ResultsWithin`: whatever definition was generated from, no payload or
message of a result reaches past the end of its buffer. Assumed are
`MaxMessagesAssumption` and, of the jobs, `JobsAssumption`: a chain of definitions
made of numbers where the constructors expect numbers, and packets of bytes; nothing
of how their fields, lengths and counts fit together, which is what the C generator
has to see to. The invariant is `CallInv`. `Generated` says that a parser which is
called was accepted by constructor and generator; `Queued` that what it is called on
are bytes, which is needed because in a chain they are slices of the call before;
`Pointed` that all that was pointed at so far is within the buffer, and that an
accepted message has a payload (else the slice handed on would not be there);
`Looping` that the loop is one over messages. The heart of it is
the bounds the emitted function does not test: that a payload may begin at `parse_length`
because the length of the buffer has been compared with it or needs no comparison
(`ContextFits`, `ValidFields`), that a message is no longer than what is left
(`TakeSound`), and that a variant's length is at least that of the common fields
(`DiscriminatedSound`). A length read from a field is a natural number
(`NumberType`, `ReadDigits`). The recursive functions of the model (`NumberOf`,
`unique_fields`) are shown to exist by a set of their arguments instead of the
library's induction theorem (`Recurs`, `Recursion`).

**Readers.** `FieldsReadAlike`: modules, C function and `eval` read the same number of a
field, and C accepts nothing `eval` raises its exception on. `ReadInv` is the invariant
it takes beyond `CallInv`: past the length check the result has the fields of the header,
through the loop and to the return, and an input too short is said to be. What is left is
about one buffer: `FieldRead` (C's `read_be`, which masks up to 64 bits, is `read_field`),
`BitsRead` (so are the slices of any module, whatever follows the header on the bus),
`EvalReads` and `EvalRaises`. The hypothesis `NamesApart` says that a name stands for one
place. `eval` and the C function look a field up by its name. Two fields of a header or
of a variant with one name are two ports and two struct members of one name, which do not
compile; a variant's field with the name of a common one elsewhere overwrites it in
`eval`'s dictionary, while the C result has both. It also says that a discriminator has no
more than 64 bits: a wider one C keeps as an array of bytes. TLC evaluates `NamesApart`
for the jobs of `toolchain`.

**Variants.** `VariantsReadAlike`: the C function finds a message of a known variant, whole,
if and only if its input begins with one that the module publishes, finds the same
bytes in every field, and points at the rest of the input behind it if the definition
forwards, at nothing if it does not or if no message was found. Whether it then drops the message is left open, since the module has
no drop conditions (`Found`). `VariantInv` is what it takes beyond `CallInv` and `ReadInv`:
the modules that judge a packet were rendered from plans of that definition (`Made`,
`Judged`), and a result that is returned either has the fields of the variant its key names
and points behind them (`Behind`), or carries the flag that says why not and points at
nothing (`VariantRead`). That the function forwards if the definition does is part of what
a context keeps of its definition (`Callable`). From there it is about one buffer:
the key a module assembles on the bus is the number C assembles in the buffer (`KeyRead`),
`IsMessage` and `Enough` ask for the same length (`MessageIs`, `MessageHolds`), no variant is
longer than the frames a module accepts (`LongEnough`), and a field of the message has one
place it is captured at, whether its name is common, in one variant or in several
(`OnePlace`). Beyond `NamesApart` the hypothesis is `WholeVariants`: the fields of a
discriminated definition are whole bytes, as they are in every example, because the promise
of a module says of a field which bytes it has. TLC evaluates it for the same jobs.

**Only model-checked**: liveness (`FrameCompletes` and the fairness in the
promises), which is beyond the prover here; `FrameAsTested`, which is about the packets the
benches send and nothing else; the rest of `PlansSound` (bypass
wires, ports, destinations), `AsTested`, `FilterAgrees` and
`MessagesAgree` (`toolchain`), which compare whole outcomes. What
modules and C function make of routes and messages is folded over
lists of any length (`FlattenSeq`, `SelectSeq`, `FoldLeft`), which takes an induction
over data.

## What is not modelled

- Rendering, reports, file names and port widths: text without state. The names of
  ports are in Planning, because two that collide do not compile; collisions of
  fields with the fixed ports (`fields_valid` and the like) are not.
- The mask of a fragment of several bytes (`beat_layout.py`): the code has no
  reader for it.
- `with_payload` and `layers`, which link definitions for a human reader.
- Throughput, latency and random stress of the benches: their packets are among
  those sent, the statistics are not a property of the code.
- The width of C's integers beyond that of the fields they hold.

## Plan

Left to do: a ready signal between splitter and reader in HftPipeline.
