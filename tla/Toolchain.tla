------------------------------- MODULE Toolchain -------------------------------
(***************************************************************************)
(* The whole way of a definition: it is constructed, modules and a C       *)
(* parser are generated from it, and packets are given to both.  A job is  *)
(* a definition, or several whose parsers hand their payloads on, the data *)
(* widths its modules are generated for, and the tests its packets are     *)
(* sent in.                                                                *)
(***************************************************************************)
EXTENDS CParser, Datapath

CONSTANT Jobs   \* sequence of [chain, data_widths, tests], the tests as Examples has them

Byte == 0 .. 255

(* A job has definitions, widths in bits, and packets that consist of bytes. *)
ASSUME JobsAssumption ==
  \A j \in DOMAIN Jobs :
    /\ Jobs[j].chain \in Seq(Range(Jobs[j].chain)) /\ Jobs[j].chain # << >>
    /\ \A d \in Range(Jobs[j].chain) : Declared(d)
    /\ Jobs[j].data_widths \subseteq Int
    /\ \A t \in Jobs[j].tests : t.packet \in Seq(Byte)

VARIABLES
  stage,     \* "define", "constructed", "planned", "ready", "running", "done",
             \* or "rejected" where the constructors or the C generator raise
  job,       \* the job in hand
  plans,     \* of the modules: link of the chain, data width |-> plan
  contexts,  \* of the C parsers: link |-> context
  test,      \* the test in hand
  queue,     \* buffers to be parsed, [link, bytes], the first by the present call
  verdicts,  \* what the modules make of it: data width |-> outcome
  results    \* of the calls before

script == <<stage, job, plans, contexts, test>>
vars   == <<script, queue, verdicts, results, call>>

Protocol(link) == Constructed(Jobs[job].chain[link])
Links          == DOMAIN Jobs[job].chain
DataWidths     == Jobs[job].data_widths

Init ==
  /\ stage = "define" /\ job \in DOMAIN Jobs
  /\ plans = << >> /\ contexts = << >> /\ test = << >>
  /\ queue = << >> /\ verdicts = << >> /\ results = << >>
  /\ CInit

------------------------------------------------------------------------------
(* The definitions and the scripts that generate from them. *)

Construct ==
  /\ stage = "define"
  /\ stage' = IF (\A k \in Links : Accepted(Protocol(k))) /\ (\A w \in DataWidths : ValidStream(w))
              THEN "constructed" ELSE "rejected"
  /\ UNCHANGED <<job, plans, contexts, test, queue, verdicts, results, call>>

GenerateSV ==
  /\ stage = "constructed" /\ stage' = "planned"
  /\ plans' = [k \in Links |-> [w \in DataWidths |-> generate(Protocol(k), keep_width(w))]]
  /\ UNCHANGED <<job, contexts, test, queue, verdicts, results, call>>

GenerateC ==
  /\ stage = "planned"
  /\ contexts' = [k \in Links |-> build_context(Protocol(k))]
  /\ stage' = IF \A k \in Links : contexts'[k].ok THEN "ready" ELSE "rejected"
  /\ UNCHANGED <<job, plans, test, queue, verdicts, results, call>>

------------------------------------------------------------------------------
(* A test. *)

Send ==
  /\ stage = "ready" /\ stage' = "running"
  /\ test' \in Jobs[job].tests
  /\ queue' = <<[link |-> 1, bytes |-> test'.packet]>>
  /\ UNCHANGED <<job, plans, contexts, verdicts, results, call>>

link       == Head(queue).link
InHand     == stage = "running" /\ queue # << >>
Modules(k) == {w \in DataWidths : plans[k][w].ok}
ConfigOf(k) == IF k = 1 THEN test.config ELSE << >>

Present ==
  /\ InHand
  /\ Call(Head(queue).bytes, ConfigOf(link) @@ default_config(contexts[link]))
  /\ verdicts' = [w \in Modules(link) |->
                    LET kw == keep_width(w)
                    IN  Judge(Protocol(link), plans[link][w],
                              FrameOf(Head(queue).bytes, kw, {kw * beat_no : beat_no \in test.flagged}), ConfigOf(link))]
  /\ UNCHANGED <<script, queue, results>>

Parse ==
  /\ InHand
  /\ Step(Protocol(link), contexts[link])
  /\ UNCHANGED <<script, queue, verdicts, results>>

(* The bytes a result points at: the payload, or one for each message the  *)
(* result counts, empty where it points at none.                           *)
SliceBytes(slice) == SubSeq(data, slice.from + 1, slice.from + slice.length)
Slices ==
  IF contexts[link].kind # "multi"
  THEN <<IF result.forwarded = << >> THEN << >> ELSE SliceBytes(result.forwarded[1])>>
  ELSE [k \in 1 .. parsed_message_count |->
          IF k \in DOMAIN result.messages /\ ok(result.messages[k]) THEN SliceBytes(result.messages[k].payload) ELSE << >>]
Outcome ==
  [flags |-> result.flags, values |-> result.data @@ result.values, variant |-> result.variant,
   dest |-> result.destination, out |-> Slices, parsed |-> parsed_message_count,
   message_flags |-> [k \in DOMAIN result.messages |-> result.messages[k].flags]]

HandOn ==
  /\ InHand /\ pc = "returned"
  /\ results' = Append(results, Outcome)
  /\ queue' = Tail(queue) \o IF link = Len(Jobs[job].chain) THEN << >>
                             ELSE [k \in DOMAIN Slices |-> [link |-> link + 1, bytes |-> Slices[k]]]
  /\ verdicts' = << >>
  /\ pc' = "idle" /\ data' = << >> /\ cfg' = << >> /\ i' = 0 /\ offset' = 0 /\ result' = NoResult
  /\ UNCHANGED script

Finish ==
  /\ stage = "running" /\ queue = << >>
  /\ stage' = "done"
  /\ UNCHANGED <<job, plans, contexts, test, queue, verdicts, results, call>>

Next == Construct \/ GenerateSV \/ GenerateC \/ Send \/ Present \/ Parse \/ HandOn \/ Finish

Spec == Init /\ [][Next]_vars

------------------------------------------------------------------------------
(* Properties. *)

Planned  == stage = "planned"
Returned == pc = "returned"
ReadHeader == Returned /\ Len(data) >= contexts[link].parse_length

(* A module is rendered only from a plan that is what the parsers' models  *)
(* assume of one: a header within its length, a discriminator known in     *)
(* time for the fields and the length it decides, distinct port names,     *)
(* bypass wires that are declared, and slices that capture, for each value *)
(* of the discriminator, the bytes where that variant has the field.       *)
PlanOf(p, plan) ==
  CASE p.class = "Discriminated" -> Reader(plan)!VariantPlanAssumption /\ Reader(plan)!VariantBeatsAssumption
    [] p.class = "Multi" ->
         /\ Splitter(plan)!PlanAssumption /\ Splitter(plan)!MessagePlanAssumption
         /\ p.sub_protocol.class # "LengthPrefixed" =>
              Reader(plan)!VariantPlanAssumption /\ Reader(plan)!DiscriminatorFirst
    [] OTHER -> Gen(plan)!PlanAssumption
Wired(plan)    == Has(plan, "comb") => \A c \in plan.DropConditions : c.value = "comb" => c.field \in plan.comb
Distinct(plan) == Cardinality(Range(plan.ports)) = Len(plan.ports)
SliceByte(plan, s) == IF Has(s, "beat") THEN s.beat * plan.KEEP_WIDTH + s.bit_lo \div 8 ELSE s.header_byte
Captures(plan) ==
  Has(plan, "entries") =>
    \A k \in DOMAIN plan.Variants \cup {0}, n \in Reader(plan)!FieldNames :
      {SliceByte(plan, e.slice) : e \in {x \in plan.entries : x.register = n /\ (x.always \/ k \in x.keys)}}
        = UNION {at.offset .. Reader(plan)!Ends(at) - 1 : at \in Reader(plan)!CaptureAt(n, k)}
PlansSound ==
  Planned => \A k \in Links : \A w \in Modules(k) :
    LET plan == plans[k][w]
    IN  PlanOf(Protocol(k), plan) /\ Wired(plan) /\ Distinct(plan) /\ Captures(plan)

(* What the repository's benches assert of a packet, of the emitted module *)
(* or of the C functions' results, is what the two make of it.             *)
Meets(seen, key, asserted) ==
  CASE key = "cut"       -> asserted \in seen
    [] key = "values"    -> \A n \in DOMAIN asserted : n \in DOMAIN seen /\ seen[n] = asserted[n]
    [] key = "published" -> /\ Len(seen) = Len(asserted)
                            /\ \A m \in DOMAIN asserted : \A n \in DOMAIN asserted[m] :
                                 n \in DOMAIN seen[m] /\ seen[m][n] = asserted[m][n]
    [] OTHER             -> seen = asserted
AsAsserted(outcome, asserted) == \A key \in DOMAIN asserted : Meets(outcome[key], key, asserted[key])
AsTested ==
  /\ Returned /\ Len(Jobs[job].chain) = 1 => \A w \in DOMAIN verdicts : AsAsserted(verdicts[w], test.hw)
  /\ stage = "done" /\ test.c # << >> =>
       Len(results) = Len(test.c) /\ \A k \in DOMAIN test.c : AsAsserted(results[k], test.c[k])

(* The three readers of a header read the same number from each field: the *)
(* slices of the module, whatever its width, those of the byte-wise        *)
(* parsers, the C function and the protocol's own eval, which raises its   *)
(* exception where the function says that the input is short.  Fields of   *)
(* more than eight bits that are no whole bytes are left out: eval and C   *)
(* mask the first byte of those, the modules the last.                     *)
WholeBytes(f)  == f.width <= 8 \/ f.width % 8 = 0
ReadersAgree ==
  Returned =>
    LET p == Protocol(link)
    IN  /\ p.class \in {"Sideband", "Discriminated"} => (eval(p, data).raised => ~ok(result))
        /\ ReadHeader => \A f \in {g \in Range(p.fields) : WholeBytes(g)} :
             LET bits == BitsOf(result.values[f.name], f.width)
             IN  /\ ~eval(p, data).raised => BitsOf(eval(p, data).values[f.name], f.width) = bits
                 /\ FromBytes(f, data) = bits
                 /\ \A w \in Modules(link) :
                      FromBeats(f, keep_width(w), data \o [x \in 1 .. keep_width(w) |-> 0]) = bits

(* No result points past the end of the buffer.                            *)
PayloadsWithin ==
  Returned =>
    /\ \A k \in DOMAIN result.forwarded : result.forwarded[k].from + result.forwarded[k].length <= Len(data)
    /\ \A k \in DOMAIN result.messages : Has(result.messages[k], "payload") =>
         result.messages[k].payload.from + result.messages[k].payload.length <= Len(data)

(* The inductive invariant behind it.  What was generated stands: no link  *)
(* of the chain was rejected, and each has the context built from it.      *)
Generated ==
  /\ job \in DOMAIN Jobs
  /\ stage \notin {"define", "rejected"} => \A k \in Links : Accepted(Protocol(k))
  /\ stage \in {"ready", "running", "done"} =>
       contexts = [k \in Links |-> build_context(Protocol(k))] /\ \A k \in Links : contexts[k].ok

(* Buffers wait for a link of the chain, the first of them for the call. *)
Queued ==
  /\ stage = "running" => queue \in Seq([link : Links, bytes : Seq(Byte)])
  /\ pc # "idle" => InHand
  /\ data \in Seq(Byte)

(* What a result points at lies within the buffer, messages that are       *)
(* accepted point at something, and nothing is said before it is looked at.*)
Within(slice, n) == slice.from \in Nat /\ slice.length \in Nat /\ slice.from + slice.length <= n
SoundMessage(m, n) ==
  (ok(m) => Has(m, "payload")) /\ (Has(m, "payload") => Within(m.payload, n))
Sound(r, n) ==
  /\ DOMAIN r = DOMAIN NoResult
  /\ r.message_count \in Nat
  /\ r.forwarded \in Seq(Range(r.forwarded)) /\ \A k \in DOMAIN r.forwarded : Within(r.forwarded[k], n)
  /\ r.messages \in Seq(Range(r.messages)) /\ \A k \in DOMAIN r.messages : SoundMessage(r.messages[k], n)
Pointed ==
  /\ pc \in {"idle", "called"} => result = NoResult
  /\ Sound(result, Len(data))

(* The loop is one over messages, and stands at one. *)
Looping == pc = "loop" => contexts[link].kind = "multi" /\ i \in Nat /\ offset \in Nat

CallInv == Generated /\ Queued /\ Pointed /\ Looping

(* With it, of what is read of a header: once the function is past it, the *)
(* result has all its fields, and one that found the input short says so.  *)
Streams == stage \notin {"define", "rejected"} => \A w \in DataWidths : ValidStream(w)
HeaderRead ==
  LET p == Protocol(link)
      c == contexts[link]
  IN  /\ pc = "loop" => Len(data) >= c.parse_length
      /\ pc \in {"loop", "returned"} /\ Len(data) >= c.parse_length => result.values = read_fields(c.fields, 0)
      /\ Returned /\ Len(data) < c.parse_length => ~ok(result)
      /\ Returned /\ Len(data) >= c.parse_length /\ c.kind = "discriminated" /\ ok(result) =>
           Enough(p, NumberOf(result.values[p.discriminator.name]))
ReadInv == Streams /\ HeaderRead

(* Definitions a packet is read alike by: a name stands for one place of   *)
(* the message, and a discriminator is a number C can compare.             *)
OneName(fields) ==
  \A f, g \in Range(fields) : f.name = g.name => f.offset = g.offset /\ f.width = g.width
NamesApart ==
  \A j \in DOMAIN Jobs : \A d \in Range(Jobs[j].chain) :
    LET p == Constructed(d)
    IN  Accepted(p) =>
          /\ OneName(p.fields)
          /\ p.class = "Discriminated" =>
               p.discriminator.width <= 64 /\ \A v \in DOMAIN p.variants : OneName(p.fields \o p.variants[v])

(* The C parser drops what the module drops, sends the rest to the same    *)
(* destination and hands on the same payload.  A multi-message module has  *)
(* no destination, and a discriminated one neither drops nor routes.       *)
FilterAgrees ==
  ReadHeader /\ Protocol(link).class \in {"Sideband", "Multi"} =>
    \A w \in DOMAIN verdicts :
      /\ ("DROPPED" \in result.flags) = (verdicts[w].drops # {})
      /\ Protocol(link).class = "Sideband" /\ "DROPPED" \notin result.flags =>
           /\ verdicts[w].dest = (IF result.destination = << >> THEN 0 ELSE result.destination[1].tdest)
           /\ Slices = IF verdicts[w].out = << >> THEN << << >> >> ELSE verdicts[w].out

(* The C parser splits a header's messages as the module does, up to the   *)
(* first of no length, where the module stops.  The module counts a frame  *)
(* as malformed if and only if the C parser finds it truncated, a message  *)
(* of no length, or bytes behind the last; a module that reads the         *)
(* messages publishes those of the C parser's that are of a known variant. *)
Parsed == SelectSeq(result.messages, ok)
Pieces == [k \in DOMAIN Parsed |-> SliceBytes(Parsed[k].payload)]
Whole  == SubSeq(Pieces, 1, Min({k \in DOMAIN Pieces : Pieces[k] = << >>} \cup {Len(Pieces) + 1}) - 1)
AsAnnounced ==
  \/ result.message_count = 0
  \/ "TRUNCATED_MESSAGE" \notin result.flags /\ Whole = Pieces /\ offset = Len(data)
MessagesAgree ==
  ReadHeader /\ Protocol(link).class = "Multi" /\ result.flags \cap {"DROPPED", "TOO_MANY_MESSAGES"} = {} =>
    \A w \in DOMAIN verdicts :
      IF Protocol(link).sub_protocol.class = "LengthPrefixed"
      THEN verdicts[w].out = Whole /\ (verdicts[w].malformed = 0) = AsAnnounced
      ELSE LET read(bytes) == Reads(plans[link][w], FrameOf(bytes, keep_width(w), {})).published
           IN  verdicts[w].published = FlattenSeq([k \in DOMAIN Whole |-> read(Whole[k])])

(* The C parser finds a message of a known variant, whole, if and only if  *)
(* its input begins with one that the module publishes, finds the same     *)
(* fields in it, and points at what lies behind that message if the        *)
(* definition forwards, and at nothing if it does not or none was found.   *)
(* Whether it drops the message is its own, and changes none of this: the  *)
(* module has no drop conditions.                                          *)
Found(r)     == r.flags \subseteq {"DROPPED"}
Behind(p, n) == IF p.forward THEN <<Bytes_t(n, Len(data) - n)>> ELSE << >>
VariantsAgree ==
  ReadHeader /\ Protocol(link).class = "Discriminated" =>
    \A w \in DOMAIN verdicts :
      LET read(n) == Reads(plans[link][w], FrameOf(SubSeq(data, 1, n), keep_width(w), {})).published
          fields  == Extended(result.values, result.data)
      IN  /\ Found(result) <=> \E n \in 1 .. Len(data) :
               /\ read(n) # << >> /\ result.forwarded = Behind(Protocol(link), n)
               /\ \A name \in DOMAIN fields : name \in DOMAIN read(n)[1] /\ read(n)[1][name] = fields[name]
          /\ ~Found(result) => result.forwarded = << >>

(* The inductive invariant behind it: the modules judge by the plans that  *)
(* were made of the definition, and a result has the fields of the variant *)
(* its key says and points behind them, or a flag that says why not.       *)
Made ==
  stage \notin {"define", "constructed", "rejected"} =>
    plans = [k \in Links |-> [w \in DataWidths |-> generate(Protocol(k), keep_width(w))]]
Judged == pc # "idle" => DOMAIN verdicts = Modules(link)
VariantRead ==
  LET p   == Protocol(link)
      c   == contexts[link]
      key == NumberOf(result.values[p.discriminator.name])
  IN  Returned /\ Len(data) >= c.parse_length /\ c.kind = "discriminated" =>
        IF Enough(p, key) THEN /\ Found(result) /\ result.forwarded = Behind(p, p.variant_length[key])
                               /\ result.data = read_fields(unique_fields(p.variants[key]), 0)
                          ELSE ~Found(result) /\ result.forwarded = << >>
VariantInv == Made /\ Judged /\ VariantRead

(* Definitions whose fields have one place in a header, or in a variant,   *)
(* for the entries of a plan know a field by its name.                     *)
Apart(p) == OneName(p.fields) /\ \A v \in DOMAIN p.variants : OneName(p.variants[v])
VariantsApart ==
  \A j \in DOMAIN Jobs : \A d \in Range(Jobs[j].chain) :
    LET p == Constructed(d)
    IN  Accepted(p) =>
          /\ p.class = "Discriminated" => Apart(p)
          /\ p.class = "Multi" /\ p.sub_protocol.class # "LengthPrefixed" => Apart(p.sub_protocol.discriminated)

(* Definitions whose messages a module captures byte for byte. *)
WholeVariants ==
  \A j \in DOMAIN Jobs : \A d \in Range(Jobs[j].chain) :
    LET p == Constructed(d)
    IN  Accepted(p) /\ p.class = "Discriminated" => \A f \in AllFields(p) : f.width % 8 = 0
==============================================================================
