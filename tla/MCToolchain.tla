------------------------------ MODULE MCToolchain ------------------------------
(***************************************************************************)
(* Toolchain over the examples, each with the packets of its own benches,  *)
(* and over small definitions given every packet of a few bytes.           *)
(***************************************************************************)
EXTENDS Toolchain, Examples

Job(chain, data_widths, tests) == [chain |-> chain, data_widths |-> data_widths, tests |-> tests]
Alone(p, data_widths, tests)   == Job(<<p>>, data_widths, tests)

MaxLength == 4
Words(alphabet, lengths) == UNION {[1 .. n -> alphabet] : n \in lengths}
Sent(packets)      == {Hw(packet, << >>) : packet \in packets}
After(head, tails) == {head \o tail : tail \in tails}

ExampleJobs ==
  <<Alone(IP_PARSER, {32}, Range(EthIpParser)), Alone(IP_PARSER, {24}, Range(EthIp24)),
    Alone(IP_FORWARD_UDP_PARSER, {8, 512}, Range(ForwardUdp8 \o ForwardUdp512 \o ForwardUdpC)),
    Alone(IP_ROUTE_BROADCAST_UDP_PARSER, {32}, Range(RouteBroadcast32)),
    Alone(UDP_PORT_ROUTER, {8, 64, 80}, Range(PortRouter8 \o PortRouterC)),
    Alone(UDP_CLASSIFIER_64, {64}, Range(ClassifierRoutes \o ClassifierDrops \o ClassifierSequences \o ClassifierC)),
    Alone(MOLD_UDP_PARSER, {8, 24, 32, 64, 80, 512}, Range(MoldUdp8 \o MoldUdp32 \o MoldUdpWide \o MoldUdpC)),
    Alone(ITCH_PARSER, {8, 32, 64, 80}, Range(ItchMessages \o ItchSequences \o ItchC)),
    Alone(ALL_IN_ONE_HFT_PARSER, {8, 64}, Range(AllInOne8 \o AllInOne64 \o AllInOneC)),
    Alone(ETH_TO_MOLD_DMA, {64}, Range(EthToMold64)),
    Job(<<UDP_PORT_ROUTER, MOLD_UDP_PARSER, ITCH_PARSER>>, {8, 64, 80},
        Range(HftC) \cup Sent({Stress(3).packet, len_overflow(1, Text(5), 200), Zeros(30)}))>>

------------------------------------------------------------------------------
(* Small definitions. *)

Acting(kind, parameters) == [kind |-> kind] @@ parameters
Sideband(fields, total)  == [class |-> "Sideband", name |-> "small", fields |-> fields, total_length |-> total]

(* Masks, flags, registers, and ranges that overlap, in a header with a    *)
(* byte no field has.                                                      *)
Flags == Sideband(
  <<With("nibble", 0, 4, <<Acting("DropOnMismatch", [expected |-> 5, mask |-> 7])>>),
    With("flags", 1, 8, <<Acting("DropOnFlag", [mask |-> 3]),
                          Acting("DropOnRegisterFlagMismatch", [register |-> "wanted", mask |-> 12, default_value |-> 8])>>),
    With("level", 2, 16,
         <<Acting("DropOnRange", [min_value |-> 10, max_value |-> 300, counter |-> "outside"]),
           Acting("RouteByRange", [ranges |-> <<[min |-> 10, max |-> 200, dest |-> Tdest(1)],
                                                [min |-> 200, max |-> 299, dest |-> Tdest(2)]>>]),
           Acting("RouteByRegistersRange", [min_register |-> "low", max_register |-> "high", min_default |-> 11,
                                            max_default |-> 20, destination |-> Tdest(3)])>>)>>, 5)
FlagPackets == {<<a, b>> \o be(v, 2) \o tail : a \in {5, 13, 245, 4}, b \in {0, 8, 9, 12},
                                             v \in {9, 10, 15, 200, 300, 301}, tail \in {<< >>, <<7>>, <<7, 8>>}}
FlagTests == Sent(FlagPackets)
             \cup {Configured(Hw(<<5, 4>> \o be(150, 2) \o <<7, 8>>, << >>), [wanted |-> 4, low |-> 100, high |-> 160])}

(* One register for two fields. *)
Blocked == <<Acting("DropOnRegisterMatch", [register |-> "blocked", default_value |-> 3])>>
Ends    == Sideband(<<With("source", 0, 8, Blocked), With("target", 1, 8, Blocked)>>, 2)

(* Widths that are no whole bytes. *)
Odd == Sideband(<<F("bit", 0, 1), F("seven", 1, 7), F("twelve", 2, 12)>>, 4)

(* A count, and messages of a length byte and a body. *)
LEN     == F("len", 0, 8)
Counted8 == [class |-> "Multi", name |-> "small", fields |-> <<F("count", 0, 8)>>, message_count_field |-> "count"]
Small    == [sub_protocol |-> [class |-> "LengthPrefixed", name |-> "piece", fields |-> <<LEN>>, length_field |-> LEN]]
            @@ Counted8
SmallTests == Sent(UNION {After(<<n>>, Words(0 .. 2, 0 .. MaxLength)) : n \in 0 .. 2}
                   \cup {<<>>} \cup {<<MAX_MESSAGES + 1, 1, 7, 1, 8, 1, 9, 1, 10, 1, 11>>})

(* A field in two places, told apart by a key. *)
KEY   == F("key", 0, 8)
Moved == [class |-> "Discriminated", name |-> "moved", discriminator |-> KEY, fields |-> <<KEY>>,
          variants |-> (1 :> <<F("a", 1, 8)>>) @@ (2 :> <<F("b", 1, 16), F("a", 3, 8)>>)]
MovedTests == Sent(Words(1 .. 3, 0 .. MaxLength + 1))
MovedMessages ==
  [sub_protocol |-> [class |-> "LengthPrefixedSub", name |-> "piece", length_field |-> LEN, discriminated |-> Moved]]
  @@ Counted8
MovedMessageTests == Sent(UNION {After(<<n>>, Words(0 .. 2, 0 .. MaxLength + 1)) : n \in 1 .. 2})

WideKey == [Moved EXCEPT !.discriminator = F("key", 0, 16), !.fields = <<F("key", 0, 16)>>,
                         !.variants = (1 :> <<F("a", 2, 8)>>)]

(* A key whose values are dropped or not, of variants that end before the  *)
(* packet does.                                                            *)
Dropped == [Moved EXCEPT !.discriminator = With("key", 0, 8, <<Acting("DropOnFlag", [mask |-> 1])>>),
                         !.fields = <<F("tag", 1, 8)>>]

SmallJobs ==
  <<Alone(Flags, {8, 16, 24, 40}, FlagTests),
    Alone(Ends, {8, 32}, Sent(Words(2 .. 4, {2, 3}))),
    Alone(Odd, {8, 32}, Sent({<<a, a, b, a, 1>> : a \in {0, 85, 170, 255}, b \in {15, 240}})),
    Alone(Small, {8, 24}, SmallTests),
    Alone(Moved, {8, 16, 32}, MovedTests),
    Alone(MovedMessages, {8, 16}, MovedMessageTests),
    Alone(WideKey, {8, 16}, Sent(Words(0 .. 2, 2 .. MaxLength))),
    Alone(Dropped, {8, 16}, MovedTests)>>

(* Definitions and streams that something rejects: a module, the C parser, *)
(* or the constructors.                                                    *)
Acted(action) == Sideband(<<With("kind", 0, 8, <<action>>)>>, 1)
RejectedJobs ==
  LET alone(p) == Alone(p, {8}, Sent({<<1, 2>>}))
      to_all   == Acting("RouteToAll", [consumers |-> <<"host">>])
      value(d) == Acting("RouteByValue", [table |-> <<[value |-> 1, dest |-> d]>>])
  IN  <<alone([class |-> "Variable"]), alone(Acted(to_all)), alone(Acted(value([consumer |-> "host"]))),
        alone(Acted(value(Tdest(16)))), alone(Acted(Acting("DropOnFlag", [mask |-> 0]))),
        alone(Acted(Acting("DropOnRange", [min_value |-> 2, max_value |-> 1]))),
        alone(Acted(Acting("RouteByValue", [table |-> << >>]))),
        alone(Sideband(<<F("kind", 0, 16)>>, 1)), alone(Sideband(<<F("kind", 0, 0)>>, 1)), alone(Sideband(<< >>, 1)),
        alone(Acted(Acting("UseAsMessageCount", << >>))), alone([Small EXCEPT !.message_count_field = "none"]),
        alone([Moved EXCEPT !.variants = (1 :> <<F("a", 1, 8)>>) @@ (2 :> <<F("a", 1, 16)>>)]),
        Alone(Flags, {4}, {}), Alone(Flags, {12}, {})>>

(* TLC evaluates a definition once, and what stands for a constant         *)
(* whenever the constant is used.                                          *)
AllJobs == ExampleJobs \o SmallJobs \o RejectedJobs
MCJobs  == AllJobs

(* Every module the examples' scripts write is one of a job's.             *)
ASSUME ShippedAssumption ==
  \A s \in Range(EthIpModules \o UdpModules \o MoldUdpModules \o ItchModules \o PipelineModules
                 \o AllInOneModules \o EthToMoldModules) : \A w \in s.data_widths :
    \E k \in DOMAIN ExampleJobs : w \in ExampleJobs[k].data_widths /\ s.protocol \in Range(ExampleJobs[k].chain)

(* What the theorems about what is read and captured assume of definitions *)
(* holds of these.                                                         *)
ASSUME NamesApart
ASSUME WholeVariants
ASSUME VariantsApart
==============================================================================
