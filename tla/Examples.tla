--------------------------------- MODULE Examples ---------------------------------
(***************************************************************************)
(* The protocol definitions of the repository's examples, the streams the  *)
(* shipped modules are generated for, and what the examples' benches send  *)
(* and assert.  Constants beyond TLC's numbers (addresses above 2^31) are  *)
(* stood for by smaller ones.                                              *)
(***************************************************************************)
EXTENDS Protocols

With(name, offset, width, actions) == [name |-> name, offset |-> offset, width |-> width, actions |-> actions]
F(name, offset, width)             == With(name, offset, width, << >>)

Tdest(n) == [tdest |-> n]
Unless(expected, counter) == <<[kind |-> "DropOnMismatch", expected |-> expected, counter |-> counter]>>

ETHERTYPE_IPV4 == 2048
IP_PROTO_UDP   == 17
IP_BROADCAST   == 2147483647       \* for 255.255.255.255

------------------------------------------------------------------------------
(* Ethernet and IPv4. *)

ETH_ETHERTYPE == F("eth_ethertype", 12, 16)
IpFields(protocol_actions, dst_actions) ==
  <<ETH_ETHERTYPE, F("ip_version_ihl", 14, 8), F("ip_total_length", 16, 16), F("ip_flags_frag", 20, 16),
    With("ip_protocol", 23, 8, protocol_actions), F("ip_src", 26, 32), With("ip_dst", 30, 32, dst_actions)>>
IP_PAYLOAD_OFFSET == 34

IP_PARSER ==
  [class |-> "Sideband", name |-> "eth_ip", fields |-> IpFields(<< >>, << >>), total_length |-> IP_PAYLOAD_OFFSET]
IP_FORWARD_UDP_PARSER ==
  [class |-> "Sideband", name |-> "eth_ip_forward_udp", total_length |-> IP_PAYLOAD_OFFSET,
   fields |-> IpFields(Unless(IP_PROTO_UDP, "non_udp_drop_count"), << >>)]
IP_ROUTE_BROADCAST_UDP_PARSER ==
  [class |-> "Sideband", name |-> "eth_ip_route_broadcast_udp", total_length |-> IP_PAYLOAD_OFFSET,
   fields |-> IpFields(<<[kind |-> "RouteByValue", table |-> <<[value |-> IP_PROTO_UDP, dest |-> Tdest(1)]>>]>>,
                       <<[kind |-> "RouteByValue", table |-> <<[value |-> IP_BROADCAST, dest |-> Tdest(0)]>>,
                          default |-> Tdest(3)]>>)]

------------------------------------------------------------------------------
(* UDP. *)

DEFAULT_DST_PORT       == 1234
DEFAULT_ALLOWED_DST_IP == 1084752129    \* for 192.168.1.1

UDP_DPORT ==
  With("udp_dport", 36, 16, <<[kind |-> "RouteByRegister", register |-> "dst_port", destination |-> Tdest(0),
                               default |-> Tdest(1), default_value |-> DEFAULT_DST_PORT]>>)
UDP_PORT_ROUTER ==
  [class |-> "Sideband", name |-> "udp_port_router", total_length |-> 42,
   fields |-> <<UDP_DPORT, F("udp_length", 38, 16), F("udp_checksum", 40, 16)>>]

UDP_CLASSIFIER_64_FIELDS ==
  <<With("ethertype", 12, 16, Unless(ETHERTYPE_IPV4, "non_ipv4_drop_count")),
    With("ip_protocol", 23, 8, Unless(IP_PROTO_UDP, "non_udp_drop_count")),
    With("ip_dst", 30, 32, <<[kind |-> "DropOnRegisterMismatch", register |-> "allowed_dst_ip",
                              default_value |-> DEFAULT_ALLOWED_DST_IP]>>),
    With("udp_sport", 34, 16, <<[kind |-> "DropOnRegisterRange", min_register |-> "min_sport",
                                 max_register |-> "max_sport", min_default |-> 1024, max_default |-> 65535]>>),
    With("udp_dport", 36, 16, <<[kind |-> "RouteByRange", default |-> Tdest(3),
                                 ranges |-> <<[min |-> 1, max |-> 1023, dest |-> Tdest(0)],
                                              [min |-> 1024, max |-> 49151, dest |-> Tdest(1)],
                                              [min |-> 49152, max |-> 65535, dest |-> Tdest(2)]>>]>>),
    With("udp_checksum", 40, 16, <<[kind |-> "DropOnRegisterMatch", register |-> "blocked_checksum",
                                    default_value |-> 0]>>)>>
UDP_CLASSIFIER_64 ==
  [class |-> "Sideband", name |-> "udp_classifier_64", total_length |-> 42, fields |-> UDP_CLASSIFIER_64_FIELDS]

------------------------------------------------------------------------------
(* ITCH 5.0: the common header, fields several variants share, variants.   *)

MSG_TYPE   == F("message_type", 0, 8)
ItchCommon == <<MSG_TYPE, F("stock_locate", 1, 16), F("tracking_number", 3, 16), F("timestamp", 5, 48)>>

STOCK     == F("stock", 11, 64)
ORDER_REF == F("order_reference_number", 11, 64)
AddOrder  == <<ORDER_REF, F("buy_sell_indicator", 19, 8), F("shares", 20, 32), F("order_stock", 24, 64),
               F("price", 32, 32)>>
Executed  == <<ORDER_REF, F("executed_shares", 19, 32), F("match_number", 23, 64)>>

StockDirectory ==
  <<STOCK, F("market_category", 19, 8), F("financial_status_indicator", 20, 8), F("round_lot_size", 21, 32),
    F("round_lots_only", 25, 8), F("issue_classification", 26, 8), F("issue_sub_type", 27, 16),
    F("authenticity", 29, 8), F("short_sale_threshold_indicator", 30, 8), F("ipo_flag", 31, 8),
    F("luld_reference_price_tier", 32, 8), F("etp_flag", 33, 8), F("etp_leverage_factor", 34, 32),
    F("inverse_indicator", 38, 8)>>
TradingAction == <<STOCK, F("trading_state", 19, 8), F("reserved", 20, 8), F("reason", 21, 32)>>
RegSho        == <<STOCK, F("reg_sho_action", 19, 8)>>
ParticipantPosition ==
  <<F("mpid", 11, 32), F("participant_stock", 15, 64), F("primary_market_maker", 23, 8),
    F("market_maker_mode", 24, 8), F("market_participant_state", 25, 8)>>
DeclineLevel    == <<F("level_1", 11, 64), F("level_2", 19, 64), F("level_3", 27, 64)>>
IpoQuoting      == <<STOCK, F("ipo_quotation_release_time", 19, 32), F("ipo_quotation_release_qualifier", 23, 8),
                     F("ipo_price", 24, 32)>>
AuctionCollar   == <<STOCK, F("auction_collar_reference_price", 19, 32), F("upper_auction_collar_price", 23, 32),
                     F("lower_auction_collar_price", 27, 32), F("auction_collar_extension", 31, 32)>>
OperationalHalt == <<STOCK, F("market_code", 19, 8), F("operational_halt_action", 20, 8)>>
OrderReplace    == <<F("original_order_reference_number", 11, 64), F("new_order_reference_number", 19, 64),
                     F("replace_shares", 27, 32), F("replace_price", 31, 32)>>
CrossTrade      == <<F("cross_shares", 11, 64), F("cross_stock", 19, 64), F("cross_price", 27, 32),
                     F("cross_match_number", 31, 64), F("cross_type", 39, 8)>>
Imbalance ==
  <<F("paired_shares", 11, 64), F("imbalance_shares", 19, 64), F("imbalance_direction", 27, 8),
    F("noii_stock", 28, 64), F("far_price", 36, 32), F("near_price", 40, 32), F("current_reference_price", 44, 32),
    F("noii_cross_type", 48, 8), F("price_variation_indicator", 49, 8)>>
RetailInterest == <<STOCK, F("interest_flag", 19, 8)>>

(* By the character that names them: S R H Y L V W K J h A F E C X D U P Q *)
(* B I N.                                                                  *)
ItchVariants ==
  (83 :> <<F("event_code", 11, 8)>>) @@ (82 :> StockDirectory) @@ (72 :> TradingAction) @@ (89 :> RegSho) @@
  (76 :> ParticipantPosition) @@ (86 :> DeclineLevel) @@ (87 :> <<F("breached_level", 11, 8)>>) @@
  (75 :> IpoQuoting) @@ (74 :> AuctionCollar) @@ (104 :> OperationalHalt) @@
  (65 :> AddOrder) @@ (70 :> Append(AddOrder, F("attribution", 36, 32))) @@ (69 :> Executed) @@
  (67 :> Executed \o <<F("printable", 31, 8), F("execution_price", 32, 32)>>) @@
  (88 :> <<ORDER_REF, F("cancelled_shares", 19, 32)>>) @@ (68 :> <<ORDER_REF>>) @@ (85 :> OrderReplace) @@
  (80 :> Append(AddOrder, F("trade_match_number", 36, 64))) @@ (81 :> CrossTrade) @@
  (66 :> <<F("broken_match_number", 11, 64)>>) @@ (73 :> Imbalance) @@ (78 :> RetailInterest)
ItchLengths ==
  (83 :> 12) @@ (82 :> 39) @@ (72 :> 25) @@ (89 :> 20) @@ (76 :> 26) @@ (86 :> 35) @@ (87 :> 12) @@ (75 :> 28) @@
  (74 :> 35) @@ (104 :> 21) @@ (65 :> 36) @@ (70 :> 40) @@ (69 :> 31) @@ (67 :> 36) @@ (88 :> 23) @@ (68 :> 19) @@
  (85 :> 35) @@ (80 :> 44) @@ (81 :> 40) @@ (66 :> 19) @@ (73 :> 50) @@ (78 :> 20)
ITCH_PARSER ==
  [class |-> "Discriminated", name |-> "itch", discriminator |-> MSG_TYPE, forward |-> FALSE,
   fields |-> ItchCommon, variants |-> ItchVariants, variant_length |-> ItchLengths]

------------------------------------------------------------------------------
(* MoldUDP64, alone and behind the headers below it. *)

MSG_LEN == F("msg_len", 0, 16)
MOLD_MESSAGE ==
  [class |-> "LengthPrefixed", name |-> "mold_message", fields |-> <<MSG_LEN>>, length_field |-> MSG_LEN]
MOLD_UDP_PARSER ==
  [class |-> "Multi", name |-> "mold_udp", total_length |-> 20, message_count_field |-> "msg_count",
   fields |-> <<F("session_id", 0, 80), F("seq_num", 10, 64), F("msg_count", 18, 16)>>,
   sub_protocol |-> MOLD_MESSAGE]

FeedFields ==
  <<With("eth_ethertype", 12, 16, Unless(ETHERTYPE_IPV4, "non_ipv4_drop_count")),
    With("ip_protocol", 23, 8, Unless(IP_PROTO_UDP, "non_udp_drop_count")),
    With("udp_dst_port", 36, 16, <<[kind |-> "DropOnRegisterMismatch", register |-> "expected_dst_port",
                                    default_value |-> 4789, counter |-> "wrong_port_drop_count"]>>),
    F("mold_session_id", 42, 80), F("mold_seq_num", 52, 64), F("mold_msg_count", 60, 16)>>
ETH_TO_MOLD_DMA ==
  [class |-> "Multi", name |-> "eth_to_mold_dma", total_length |-> 62, message_count_field |-> "mold_msg_count",
   fields |-> FeedFields, sub_protocol |-> [total_length |-> width_bytes(MSG_LEN)] @@ MOLD_MESSAGE]
ALL_IN_ONE_HFT_PARSER ==
  [class |-> "Multi", name |-> "all_in_one_hft", total_length |-> 62, message_count_field |-> "mold_msg_count",
   fields |-> FeedFields,
   sub_protocol |-> [class |-> "LengthPrefixedSub", name |-> "itch_message", length_field |-> MSG_LEN,
                     discriminated |-> ITCH_PARSER]]

------------------------------------------------------------------------------
(* The definitions generate_sv.py has for an example, and the data widths  *)
(* of the modules it writes for each.                                      *)
Shipped(p, data_widths) == [protocol |-> p, data_widths |-> data_widths]
EthIpModules     == <<Shipped(IP_PARSER, {32, 24}), Shipped(IP_FORWARD_UDP_PARSER, {8, 512}),
                      Shipped(IP_ROUTE_BROADCAST_UDP_PARSER, {32})>>
UdpModules       == <<Shipped(UDP_PORT_ROUTER, {8}), Shipped(UDP_CLASSIFIER_64, {64})>>
MoldUdpModules   == <<Shipped(MOLD_UDP_PARSER, {8, 32, 24, 512})>>
ItchModules      == <<Shipped(ITCH_PARSER, {8, 32, 64})>>
PipelineModules  == <<Shipped(UDP_PORT_ROUTER, {8, 64, 80}), Shipped(MOLD_UDP_PARSER, {8, 64, 80}),
                      Shipped(ITCH_PARSER, {8, 64, 80})>>
AllInOneModules  == <<Shipped(ALL_IN_ONE_HFT_PARSER, {8, 64})>>
EthToMoldModules == <<Shipped(ETH_TO_MOLD_DMA, {64})>>

------------------------------------------------------------------------------
(***************************************************************************)
(* What the examples' own benches send and what they assert, frame by      *)
(* frame.  hw is what a cocotb bench asserts of the emitted module: the    *)
(* counters that count, the frames it sends on, their destination, whether *)
(* they are marked, the fields it shows and the messages it publishes.  c  *)
(* is what a ctypes bench asserts of the results of the generated C        *)
(* functions, one for each call.  flagged holds the beats, of four bytes,  *)
(* with tuser.                                                             *)
(*                                                                         *)
(* Payloads, names and addresses are shorter lists of distinct bytes where *)
(* only their length matters, and an IPv4 address begins with a byte below *)
(* 128, 64 standing for 192, so that its number is one of TLC's.           *)
(***************************************************************************)
(* The bytes of a packet, and the benches' builders of them. *)

be(n, bytes) ==
  [i \in 1 .. bytes |-> IF bytes - i > 3 THEN 0 ELSE (n \div 256 ^ (bytes - i)) % 256]
Text(n)      == [i \in 1 .. n |-> 64 + i]
Zeros(n)     == [i \in 1 .. n |-> 0]
From(s, n)   == SubSeq(s, n + 1, Len(s))
Patched(s, position, byte) == [s EXCEPT ![position + 1] = byte]

------------------------------------------------------------------------------
(* Ethernet, IPv4, UDP and TCP. *)

MACS == Text(12)
IpHeader(proto, src, dst, flags, id, payload_length) ==
  <<69, 0>> \o be(20 + payload_length, 2) \o id \o flags \o <<64, proto, 0, 0>> \o src \o dst
EthIp(ethertype, proto, src, dst, flags, id, payload) ==
  MACS \o be(ethertype, 2) \o IpHeader(proto, src, dst, flags, id, Len(payload)) \o payload
Udp(sport, dport, checksum, load) ==
  be(sport, 2) \o be(dport, 2) \o be(8 + Len(load), 2) \o checksum \o load
Tcp(sport, dport, seq_num, load) ==
  be(sport, 2) \o be(dport, 2) \o seq_num \o Zeros(4) \o <<80, 2, 32, 0, 1, 1, 0, 0>> \o load

DF           == <<64, 0>>
SCAPY_ID     == <<18, 52>>
Checksum     == <<1, 1>>       \* any one that is not zero
HOST_10      == <<64, 168, 1, 10>>
HOST_20      == <<64, 168, 1, 20>>
TEN_1        == <<10, 0, 0, 1>>
TEN_2        == <<10, 0, 0, 2>>
ALLOWED_DST  == <<64, 168, 1, 1>>
BROADCAST    == <<127, 255, 255, 255>>
TCP_SEQ      == <<0, 0, 0, 0>>

ScapyUdp(src, dst, sport, dport, load) ==
  EthIp(ETHERTYPE_IPV4, IP_PROTO_UDP, src, dst, DF, SCAPY_ID, Udp(sport, dport, Checksum, load))
ScapyTcp(src, dst, sport, dport, seq_num, load) ==
  EthIp(ETHERTYPE_IPV4, 6, src, dst, DF, SCAPY_ID, Tcp(sport, dport, seq_num, load))

------------------------------------------------------------------------------
(* MoldUDP64, and it behind a header of struct.pack's. *)

SESSION_ID == <<83, 69, 83, 83, 73, 79, 78, 73, 68, 95>>
mold_outer(seq_num, msg_count) == SESSION_ID \o be(seq_num, 8) \o be(msg_count, 2)
mold_submsg(body)              == be(Len(body), 2) \o body
make_mold_udp_payload(seq_num, messages) ==
  mold_outer(seq_num, Len(messages)) \o FlattenSeq([i \in DOMAIN messages |-> mold_submsg(messages[i])])
make_truncated_payload(seq_num, declared_len, body) ==
  mold_outer(seq_num, 1) \o be(declared_len, 2) \o body
make_zero_length_payload(seq_num, trailer) == mold_outer(seq_num, 1) \o be(0, 2) \o trailer

FeedFrame(ethertype, proto, dst_port, mold) ==
  EthIp(ethertype, proto, <<64, 168, 1, 2>>, ALLOWED_DST, <<0, 0>>, <<0, 0>>,
        Udp(12345, dst_port, <<0, 0>>, mold))
eth_ip_udp(dst_port, mold) == FeedFrame(ETHERTYPE_IPV4, IP_PROTO_UDP, dst_port, mold)

------------------------------------------------------------------------------
(* ITCH messages. *)

TIMESTAMP == <<26, 49, 139, 150, 0, 0>>
itch_header(type, stock_locate, tracking_number) ==
  <<type>> \o be(stock_locate, 2) \o be(tracking_number, 2) \o TIMESTAMP
make_system_event(event_code, stock_locate) == itch_header(83, stock_locate, 100) \o <<event_code>>
make_order_delete(order_ref)                == itch_header(68, 1, 100) \o order_ref
make_add_order(order_ref, shares, stock_locate) ==
  itch_header(65, stock_locate, 100) \o order_ref \o <<66>> \o be(shares, 4) \o Text(8) \o be(1500000, 4)
make_noii(paired, imbalance) ==
  itch_header(73, 1, 100) \o be(paired, 8) \o be(imbalance, 8) \o <<66>> \o Text(8)
  \o be(1500000, 4) \o be(1499000, 4) \o be(1498000, 4) \o <<67, 49>>
make_unknown_type_msg == itch_header(255, 1, 100) \o <<171>>
unknown_with_extra    == itch_header(1, 1, 100) \o Text(5)

ORDER_1 == <<222, 173, 190, 239, 202, 254, 186, 190>>
ORDER_2 == <<202, 254, 186, 190, 222, 173, 190, 239>>

------------------------------------------------------------------------------
(* The benches' tests. *)

Hw(packet, asserted) == [packet |-> packet, config |-> << >>, flagged |-> {}, hw |-> asserted, c |-> << >>]
C(packet, results)   == [packet |-> packet, config |-> << >>, flagged |-> {}, hw |-> << >>, c |-> results]
Configured(test, config) == [test EXCEPT !.config = config]
TuserOn(test, beats)     == [test EXCEPT !.flagged = beats]

SentOn(packet, header, dest) == [out |-> <<From(packet, header)>>, dest |-> dest, drops |-> {}, error |-> FALSE]
Counted(counter)                == [out |-> << >>, drops |-> {counter}]
Routed(packet, dest)            == Hw(packet, SentOn(packet, IP_PAYLOAD_OFFSET, dest))
Ok(result)                      == [flags |-> {}] @@ result
Failed(flag)                    == [flags |-> {flag}]

------------------------------------------------------------------------------
(* eth_ip *)

udp_frame     == ScapyUdp(HOST_10, HOST_20, 4386, 13124, Text(11))
long_frame    == ScapyUdp(HOST_10, HOST_20, 4386, 13124, Text(120))
tcp_frame     == ScapyTcp(HOST_10, HOST_20, 4386, 13124, TCP_SEQ, Text(11))
non_ipv4_frame == MACS \o be(2054, 2) \o Text(64)
FirstPayloadBeat == (IP_PAYLOAD_OFFSET + 3) \div 4

EthIpFields ==
  [eth_ethertype |-> be(ETHERTYPE_IPV4, 2), ip_version_ihl |-> <<69>>, ip_total_length |-> be(39, 2),
   ip_flags_frag |-> DF, ip_protocol |-> <<IP_PROTO_UDP>>, ip_src |-> HOST_10, ip_dst |-> HOST_20]
Marked(test) == [test EXCEPT !.hw.error = TRUE]

EthIpParser ==
  <<Hw(udp_frame, [values |-> EthIpFields] @@ SentOn(udp_frame, IP_PAYLOAD_OFFSET, 0)),
    Hw(non_ipv4_frame, [values |-> [eth_ethertype |-> be(2054, 2)]]
                       @@ SentOn(non_ipv4_frame, IP_PAYLOAD_OFFSET, 0)),
    Marked(TuserOn(Routed(udp_frame, 0), {0})),
    Marked(TuserOn(Routed(udp_frame, 0), {FirstPayloadBeat + 1}))>>
EthIp24 ==
  <<Hw(udp_frame, [values |-> EthIpFields] @@ SentOn(udp_frame, IP_PAYLOAD_OFFSET, 0)), Routed(non_ipv4_frame, 0)>>

DroppedTcp == Hw(tcp_frame, [values |-> [ip_protocol |-> <<6>>]] @@ Counted("non_udp_drop_count"))
ForwardUdp8 ==
  <<Hw(udp_frame, [values |-> [ip_protocol |-> <<IP_PROTO_UDP>>]] @@ SentOn(udp_frame, IP_PAYLOAD_OFFSET, 0)),
    DroppedTcp>>
ForwardUdp512 == <<Routed(udp_frame, 0), Routed(long_frame, 0), DroppedTcp>>
ForwardUdpC ==
  <<C(udp_frame, <<Ok([values |-> [ip_protocol |-> <<IP_PROTO_UDP>>], out |-> <<From(udp_frame, IP_PAYLOAD_OFFSET)>>])>>),
    C(tcp_frame, <<[values |-> [ip_protocol |-> <<6>>], out |-> << << >> >>] @@ Failed("DROPPED")>>)>>

Transported(dst, proto) == IF proto = "udp" THEN ScapyUdp(TEN_1, dst, 1234, 5678, Text(11))
                                            ELSE ScapyTcp(TEN_1, dst, 1234, 5678, TCP_SEQ, Text(11))
RouteBroadcast32 ==
  <<Routed(Transported(HOST_20, "udp"), 1), Routed(Transported(TEN_2, "tcp"), 3),
    Routed(Transported(BROADCAST, "tcp"), 0), Routed(Transported(BROADCAST, "udp"), 0),
    Routed(Transported(TEN_1, "udp"), 1), Routed(Transported(TEN_1, "tcp"), 3)>>

------------------------------------------------------------------------------
(* udp *)

UDP_PAYLOAD == 42
to_port(dport) == ScapyUdp(TEN_1, TEN_2, 9999, dport, Text(11))
PortSent(dport, dest) == Hw(to_port(dport), [values |-> [udp_dport |-> be(dport, 2)]]
                                            @@ SentOn(to_port(dport), UDP_PAYLOAD, dest))
PortRouter8 ==
  <<PortSent(DEFAULT_DST_PORT, 0), PortSent(5678, 1),
    Configured(PortSent(5678, 0), [dst_port |-> 5678]),
    Configured(PortSent(DEFAULT_DST_PORT, 1), [dst_port |-> 5678])>>
PortRouterC ==
  <<C(to_port(DEFAULT_DST_PORT),
      <<Ok([values |-> [udp_dport |-> be(DEFAULT_DST_PORT, 2)], dest |-> <<Tdest(0)>>,
            out |-> <<From(to_port(DEFAULT_DST_PORT), UDP_PAYLOAD)>>])>>),
    C(to_port(5678), <<Ok([dest |-> <<Tdest(1)>>])>>),
    Configured(C(to_port(5678), <<Ok([dest |-> <<Tdest(0)>>])>>), [dst_port |-> 5678])>>

classified(sport, dport, dst) == ScapyUdp(TEN_1, dst, sport, dport, Text(16))
Class(dport)          == classified(1234, dport, ALLOWED_DST)
ZeroChecksum          == Patched(Patched(Class(80), 40, 0), 41, 0)
WrongIp               == classified(1234, 80, TEN_2)
Classes               == <<[port |-> 80, dest |-> 0], [port |-> 8080, dest |-> 1],
                           [port |-> 50000, dest |-> 2], [port |-> 0, dest |-> 3]>>
ClassRouted(class)    == Hw(Class(class.port), SentOn(Class(class.port), UDP_PAYLOAD, class.dest))
ClassifierRoutes      == [i \in DOMAIN Classes |-> ClassRouted(Classes[i])]
LowSport              == Hw(classified(80, 80, ALLOWED_DST), Counted("udp_sport_register_range_count"))
ForOtherIp            == Hw(WrongIp, Counted("ip_dst_register_mismatch_count"))
ClassifierDrops ==
  <<Hw(Patched(Class(80), 13, 6), Counted("non_ipv4_drop_count")),
    Hw(ScapyTcp(TEN_1, ALLOWED_DST, 1234, 80, <<171, 205, 239, 0>>, Text(16)), Counted("non_udp_drop_count")),
    ForOtherIp, LowSport, Hw(ZeroChecksum, Counted("udp_checksum_register_match_count"))>>
ClassifierSequences ==
  <<ClassRouted(Classes[1]), LowSport, ForOtherIp, ClassRouted(Classes[2]), ClassRouted(Classes[3]),
    Hw(Patched(Patched(Class(8080), 40, 0), 41, 0), Counted("udp_checksum_register_match_count"))>>
ClassifierC ==
  [i \in DOMAIN Classes |-> C(Class(Classes[i].port),
     <<Ok([dest |-> <<Tdest(Classes[i].dest)>>, out |-> <<From(Class(Classes[i].port), UDP_PAYLOAD)>>])>>)]
  \o <<C(ZeroChecksum, <<[out |-> << << >> >>] @@ Failed("DROPPED")>>), C(WrongIp, <<Failed("DROPPED")>>)>>

------------------------------------------------------------------------------
(* mold_udp *)

Bodies(lengths) == [i \in DOMAIN lengths |-> Text(lengths[i])]
MoldSplit(seq_num, lengths) ==
  Hw(make_mold_udp_payload(seq_num, Bodies(lengths)),
     [out |-> Bodies(lengths), malformed |-> 0, error |-> FALSE,
      values |-> [seq_num |-> be(seq_num, 8), msg_count |-> be(Len(lengths), 2)]])
ZeroLength(seq_num) == Hw(make_zero_length_payload(seq_num, Text(4)), [out |-> << >>, malformed |-> 1])
CutShort(seq_num)   == Hw(make_truncated_payload(seq_num, 8, Text(3)), [cut |-> Text(3), malformed |-> 1])

MoldUdp8 ==
  <<MoldSplit(1, <<3>>), MoldSplit(1, <<10>>), MoldSplit(10, <<5, 5>>), MoldSplit(42, <<1, 2, 3>>), MoldSplit(99, <<4>>),
    ZeroLength(55), MoldSplit(57, <<2>>), CutShort(56), MoldSplit(1, <<5>>), MoldSplit(2, <<6>>),
    MoldSplit(11, <<3, 3>>), MoldSplit(12, <<5, 4, 5>>)>>
MoldUdp32 ==
  <<MoldSplit(1, <<1>>), MoldSplit(1, <<2>>), MoldSplit(1, <<6>>), MoldSplit(5, <<16>>), MoldSplit(10, <<5, 5>>),
    MoldSplit(7, <<2, 8, 1>>), MoldSplit(123, <<4>>), ZeroLength(55), MoldSplit(57, <<2>>), CutShort(56),
    MoldSplit(1, <<9>>), MoldSplit(2, <<14>>), MoldSplit(11, <<3, 3>>), MoldSplit(12, <<5, 4, 5>>)>>
MoldUdpWide ==
  <<MoldSplit(100, <<1, 4, 16, 1>>), ZeroLength(155), MoldSplit(157, <<2>>), CutShort(156),
    MoldSplit(201, <<5, 14>>), MoldSplit(202, <<1, 2, 3>>), MoldSplit(203, <<16, 4>>)>>
MoldUdpC ==
  <<C(make_mold_udp_payload(10, Bodies(<<5, 5>>)),
      <<Ok([values |-> [session_id |-> SESSION_ID, seq_num |-> be(10, 8), msg_count |-> be(2, 2)],
            parsed |-> 2, out |-> Bodies(<<5, 5>>)])>>),
    C(make_truncated_payload(11, 8, Text(3)), <<[message_flags |-> <<{"TRUNCATED_MESSAGE"}>>] @@ Failed("TRUNCATED_MESSAGE")>>)>>

------------------------------------------------------------------------------
(* itch *)

Shown(packet, values) == Hw(packet, [published |-> <<values>>, malformed |-> 0])
SystemEventShown(code, locate) ==
  [message_type |-> <<83>>, stock_locate |-> be(locate, 2), tracking_number |-> be(100, 2),
   timestamp |-> TIMESTAMP, event_code |-> <<code>>]
OrderDeleteShown(order_ref) == [message_type |-> <<68>>, order_reference_number |-> order_ref]
AddOrderShown(order_ref, shares) ==
  [message_type |-> <<65>>, order_reference_number |-> order_ref, buy_sell_indicator |-> <<66>>,
   shares |-> be(shares, 4), order_stock |-> Text(8), price |-> be(1500000, 4)]
NoiiShown ==
  [message_type |-> <<73>>, paired_shares |-> be(500000, 8), imbalance_shares |-> be(100000, 8),
   imbalance_direction |-> <<66>>, noii_stock |-> Text(8), far_price |-> be(1500000, 4),
   near_price |-> be(1499000, 4), current_reference_price |-> be(1498000, 4), noii_cross_type |-> <<67>>,
   price_variation_indicator |-> <<49>>]

ItchMessages ==
  <<Shown(make_system_event(83, 42), SystemEventShown(83, 42)),
    Shown(make_order_delete(ORDER_1), OrderDeleteShown(ORDER_1)),
    Shown(make_add_order(Text(8), 1000, 1), AddOrderShown(Text(8), 1000)),
    Shown(make_noii(500000, 100000), NoiiShown)>>
ItchSequences ==
  <<Shown(make_system_event(79, 1), SystemEventShown(79, 1)), Shown(make_system_event(67, 1), SystemEventShown(67, 1)),
    Hw(make_system_event(79, 1) \o Zeros(39), [published |-> << >>]),
    Shown(make_add_order(ORDER_2, 500, 1), [event_code |-> <<202>>] @@ AddOrderShown(ORDER_2, 500))>>
ItchC ==
  <<C(make_system_event(83, 1), <<Ok([variant |-> 83, values |-> [message_type |-> <<83>>, event_code |-> <<83>>]])>>),
    C(make_add_order(Text(8), 1000, 1), <<Ok([values |-> AddOrderShown(Text(8), 1000)])>>),
    C(unknown_with_extra, <<[variant |-> 0] @@ Failed("UNKNOWN_VARIANT")>>)>>

------------------------------------------------------------------------------
(* all_in_one_hft *)

FEED_PORT == 4789
feed_frame(seq_num, messages)    == eth_ip_udp(FEED_PORT, make_mold_udp_payload(seq_num, messages))
other_feed(ethertype, proto, dport, messages) == FeedFrame(ethertype, proto, dport, make_mold_udp_payload(1, messages))
FeedHeader(seq_num, count) ==
  [eth_ethertype |-> be(ETHERTYPE_IPV4, 2), ip_protocol |-> <<IP_PROTO_UDP>>, udp_dst_port |-> be(FEED_PORT, 2),
   mold_session_id |-> SESSION_ID, mold_seq_num |-> be(seq_num, 8), mold_msg_count |-> be(count, 2)]
NotFed(packet, counter) == Hw(packet, [drops |-> {counter}, published |-> << >>, out |-> << >>])

AllInOne8 ==
  <<Hw(feed_frame(42, <<make_system_event(79, 7)>>),
       [values |-> FeedHeader(42, 1), published |-> <<SystemEventShown(79, 7)>>, malformed |-> 0]),
    Hw(feed_frame(1, <<make_add_order(ORDER_1, 100, 1)>>), [published |-> <<AddOrderShown(ORDER_1, 100)>>]),
    Hw(feed_frame(10, <<make_system_event(79, 1), make_system_event(67, 2)>>),
       [published |-> <<SystemEventShown(79, 1), SystemEventShown(67, 2)>>]),
    NotFed(other_feed(34525, IP_PROTO_UDP, FEED_PORT, <<make_system_event(79, 1)>>), "non_ipv4_drop_count"),
    NotFed(other_feed(ETHERTYPE_IPV4, IP_PROTO_UDP, 9999, <<make_system_event(79, 1)>>), "wrong_port_drop_count")>>
AllInOne64 ==
  [seq_num \in 1 .. 3 |-> Hw(feed_frame(seq_num, <<make_system_event(79, seq_num)>>),
                             [values |-> FeedHeader(seq_num, 1), published |-> <<SystemEventShown(79, seq_num)>>])]
Fed(seq_num) == feed_frame(seq_num, Bodies(<<5, 5>>))
AllInOneC ==
  <<C(Fed(42), <<Ok([values |-> FeedHeader(42, 2)])>>),
    C(Fed(1), <<Ok([parsed |-> 2, out |-> Bodies(<<5, 5>>)])>>),
    C(other_feed(34525, IP_PROTO_UDP, FEED_PORT, Bodies(<<4>>)), <<Failed("DROPPED")>>),
    C(other_feed(ETHERTYPE_IPV4, 6, FEED_PORT, Bodies(<<4>>)), <<Failed("DROPPED")>>),
    C(other_feed(ETHERTYPE_IPV4, IP_PROTO_UDP, 9999, Bodies(<<4>>)), <<Failed("DROPPED")>>),
    Configured(C(other_feed(ETHERTYPE_IPV4, IP_PROTO_UDP, 9999, Bodies(<<4>>)),
                 <<Ok([values |-> [udp_dst_port |-> be(9999, 2)]])>>), [expected_dst_port |-> 9999]),
    C(Zeros(30), <<Failed("SHORT_INPUT")>>)>>

(* eth_to_mold_dma *)

EthToMold64 ==
  <<Hw(feed_frame(42, Bodies(<<8, 15>>)),
       [out |-> Bodies(<<8, 15>>), error |-> FALSE, values |-> FeedHeader(42, 2)]),
    Hw(other_feed(ETHERTYPE_IPV4, IP_PROTO_UDP, 9999, Bodies(<<4>>)),
       [values |-> [udp_dst_port |-> be(9999, 2)]] @@ Counted("wrong_port_drop_count")),
    Configured(Hw(other_feed(ETHERTYPE_IPV4, IP_PROTO_UDP, 9999, Bodies(<<4>>)),
                  [drops |-> {}, out |-> Bodies(<<4>>)]), [expected_dst_port |-> 9999]),
    Hw(other_feed(ETHERTYPE_IPV4, 6, FEED_PORT, Bodies(<<4>>)), Counted("non_udp_drop_count")),
    Hw(other_feed(34525, IP_PROTO_UDP, FEED_PORT, Bodies(<<4>>)), Counted("non_ipv4_drop_count"))>>
------------------------------------------------------------------------------
(* hft_pipelined: what three modules, or three functions, make of a frame. *)

ITCH_UDP_PORT  == 12001
OTHER_UDP_PORT == 9999
ok_frame(seq_num, messages)             == eth_ip_udp(ITCH_UDP_PORT, make_mold_udp_payload(seq_num, messages))
count_overflow(seq_num, message, count) == eth_ip_udp(ITCH_UDP_PORT, mold_outer(seq_num, count) \o mold_submsg(message))
len_overflow(seq_num, body, declared)   == eth_ip_udp(ITCH_UDP_PORT, make_truncated_payload(seq_num, declared, body))
wrong_port_frame(seq_num, messages)     == eth_ip_udp(OTHER_UDP_PORT, make_mold_udp_payload(seq_num, messages))
tcp_to_other_port ==
  FeedFrame(ETHERTYPE_IPV4, 6, OTHER_UDP_PORT, << >>) \o Zeros(18)
SystemEvent == make_system_event(79, 1)

HftGood ==
  <<Hw(ok_frame(1, <<SystemEvent>>), [published |-> <<SystemEventShown(79, 1)>>, malformed |-> 0]),
    Hw(ok_frame(2, <<make_add_order(Text(8), 500, 2)>>), [published |-> <<AddOrderShown(Text(8), 500)>>, malformed |-> 0])>>
HftMultiMessage ==
  <<Hw(ok_frame(55, <<SystemEvent, make_order_delete(ORDER_1)>>),
       [published |-> <<SystemEventShown(79, 1), OrderDeleteShown(ORDER_1)>>, malformed |-> 0])>>
HftOverflow ==
  <<Hw(count_overflow(11, SystemEvent, 3), [malformed |-> 1]),
    Hw(len_overflow(21, Text(5), 200), [malformed |-> 1]), Hw(len_overflow(1, Zeros(8), 500), [malformed |-> 1])>>
HftUnread ==
  <<Hw(ok_frame(7, <<make_unknown_type_msg>>), [published |-> << >>, malformed |-> 1]),
    Hw(wrong_port_frame(42, <<SystemEvent>>), [published |-> << >>, malformed |-> 0]),
    Hw(tcp_to_other_port, [published |-> << >>, malformed |-> 0])>>

(* The k-th message of the stress bench. *)
Stressed(k)       == make_add_order(<<16>> \o be(k, 7), 100000 + k, 1000 + k)
StressedShown(k)  == [stock_locate |-> be(1000 + k, 2)] @@ AddOrderShown(<<16>> \o be(k, 7), 100000 + k)
Stress(messages)  == Hw(ok_frame(10000, [k \in 1 .. messages |-> Stressed(k)]),
                        [published |-> [k \in 1 .. messages |-> StressedShown(k)], malformed |-> 0])

(* The results of the calls: of the router, the splitter, the readers. *)
HftPort == [dst_port |-> ITCH_UDP_PORT]
HftC ==
  <<Configured(C(ok_frame(7, <<SystemEvent, make_add_order(Text(8), 500, 2)>>),
      <<Ok([dest |-> <<Tdest(0)>>]), Ok([parsed |-> 2, values |-> [seq_num |-> be(7, 8)]]),
        Ok([values |-> [message_type |-> <<83>>, event_code |-> <<79>>]]),
        Ok([values |-> AddOrderShown(Text(8), 500)])>>), HftPort),
    Configured(C(wrong_port_frame(8, <<SystemEvent>>),
      <<Ok([dest |-> <<Tdest(1)>>]), Ok([parsed |-> 1]), Ok([variant |-> 83])>>), HftPort),
    Configured(C(ok_frame(9, <<unknown_with_extra>>),
      <<Ok([dest |-> <<Tdest(0)>>]), Ok([parsed |-> 1]), Failed("UNKNOWN_VARIANT")>>), HftPort)>>
==============================================================================
