--------------------------- MODULE HftPipelineProofs ---------------------------
(***************************************************************************)
(* The pipeline: what is announced is a message of the frame whose header  *)
(* the other outputs show, and splitter and reader in series do to a       *)
(* frame's messages what MessageFeed says.                                 *)
(***************************************************************************)
EXTENDS HftPipeline, MultiMessageProofs

(* A counter is set back by one from where it was counted up to. *)
LEMMA CountBack ==
  \A c \in 0 .. COUNTER_MOD - 1 :
    /\ (c + 1) % COUNTER_MOD \in 0 .. COUNTER_MOD - 1
    /\ (((c + 1) % COUNTER_MOD) + COUNTER_MOD - 1) % COUNTER_MOD = c
    /\ (((c + COUNTER_MOD - 1) % COUNTER_MOD) + 1) % COUNTER_MOD = c
<1> SUFFICES ASSUME NEW c \in 0 .. COUNTER_MOD - 1
             PROVE  /\ (c + 1) % COUNTER_MOD \in 0 .. COUNTER_MOD - 1
                    /\ (((c + 1) % COUNTER_MOD) + COUNTER_MOD - 1) % COUNTER_MOD = c
                    /\ (((c + COUNTER_MOD - 1) % COUNTER_MOD) + 1) % COUNTER_MOD = c
  OBVIOUS
<1>1. PICK m \in Nat \ {0} : m = COUNTER_MOD
  BY CounterAssumption
<1>2. \A x \in 0 .. m - 1 : x % m = x /\ (x + m) % m = x
  BY Z3
<1>3. CASE c = m - 1
  <2>1. c + 1 = 0 + m /\ 0 \in 0 .. m - 1 /\ c \in 0 .. m - 1
    BY <1>1, <1>3
  <2>2. (c + 1) % m = 0
    BY <1>2, <2>1
  <2>3. (0 + m - 1) % m = c
    BY <1>2, <1>3, <2>1
  <2>4. c + m - 1 = (m - 2) + m
    BY <1>1, <1>3
  <2>5. CASE m = 1
    BY <1>1, <1>2, <1>3, <2>1, <2>2, <2>3, <2>5
  <2>6. CASE m # 1
    <3>1. m - 2 \in 0 .. m - 1
      BY <2>6
    <3>2. (c + m - 1) % m = m - 2
      BY <1>2, <2>4, <3>1
    <3>3. ((m - 2) + 1) % m = c
      BY <1>2, <1>3, <2>1
    <3> QED
      BY <1>1, <2>1, <2>2, <2>3, <3>2, <3>3
  <2> QED
    BY <2>5, <2>6
<1>4. CASE c # m - 1
  <2>1. c + 1 \in 0 .. m - 1 /\ c \in 0 .. m - 1 /\ (c + 1) + m - 1 = c + m
    BY <1>1, <1>4
  <2>2. (c + 1) % m = c + 1 /\ (c + m) % m = c
    BY <1>2, <2>1
  <2>3. CASE c = 0
    BY <1>1, <1>2, <2>1, <2>2, <2>3
  <2>4. CASE c # 0
    <3>1. c - 1 \in 0 .. m - 1 /\ c + m - 1 = (c - 1) + m
      BY <2>1, <2>4
    <3>2. (c + m - 1) % m = c - 1
      BY <1>2, <3>1
    <3>3. ((c - 1) + 1) % m = c
      BY <1>2, <2>1
    <3> QED
      BY <1>1, <2>1, <2>2, <3>2, <3>3
  <2> QED
    BY <2>3, <2>4
<1> QED
  BY <1>3, <1>4

------------------------------------------------------------------------------
(* The message on the bus. *)

(* No beat on m_axis is empty. *)
LEMMA SomeSent ==
  ASSUME HeadersInv, BodyOut
  PROVE  body_out_bytes # 0
<1>1. state = "ST_MSG_BODY" /\ m_axis_tvalid
  BY DEF BodyOut, BodyEdge
<1>2. /\ body_out_bytes \in {msg_bytes_remaining, Len(scratch), KEEP_WIDTH}
      /\ msg_bytes_remaining # 0 /\ ~Empty
  BY <1>1, OutBytes DEF m_axis_tvalid
<1>3. Len(scratch) # 0 /\ KEEP_WIDTH # 0
  BY <1>1, <1>2, Held, KeepWidthAssumption DEF InMessages
<1> QED
  BY <1>2, <1>3

(* With the beat on the bus it is a part of the body in hand, from its     *)
(* first byte.                                                             *)
LEMMA OnBus ==
  ASSUME FramesInv, BodyOut
  PROVE  LET n == Sent + body_out_bytes
         IN  /\ n \in Nat \ {0} /\ Walk!Body \in Nat
             /\ Message.len = n /\ \A p \in 0 .. n - 1 : Message.data[p] = cur.data[Walk!Body + p]
<1>1. /\ state = "ST_MSG_BODY" /\ Sent \in Nat /\ body_out_bytes \in Nat /\ Walk!Body + Sent = Consumed
      /\ received \o [i \in 1 .. keep_count(m_axis_tkeep) |-> m_axis_tdata[i - 1]]
           = Splitter!Slice(cur, Walk!Body, Sent + body_out_bytes)
  BY SentBytes
<1>2. HeadersInv
  BY DEF FramesInv, IInv
<1>3. Walk!Body \in Nat
  BY <1>1, <1>2, WalkBody
<1>4. body_out_bytes # 0
  BY <1>2, SomeSent
<1>5. PICK n \in Nat \ {0}, from \in Nat : n = Sent + body_out_bytes /\ from = Walk!Body
  BY <1>1, <1>3, <1>4
<1> DEFINE bytes == [i \in 1 .. n |-> cur.data[from + i - 1]]
<1>6. Message = [len |-> Len(bytes), end |-> Len(bytes), data |-> [p \in 0 .. Len(bytes) - 1 |-> bytes[p + 1]]]
  BY <1>1, <1>5 DEF Message, Splitter!Slice
<1>7. Len(bytes) = n
  OBVIOUS
<1>8. \A p \in 0 .. n - 1 : bytes[p + 1] = cur.data[from + p]
  <2>1. ASSUME NEW p \in 0 .. n - 1 PROVE bytes[p + 1] = cur.data[from + p]
    <3>1. p + 1 \in 1 .. n /\ from + (p + 1) - 1 = from + p
      OBVIOUS
    <3> QED
      BY <3>1
  <2> QED
    BY <2>1
<1> HIDE DEF bytes
<1>9. Message.len = n /\ \A p \in 0 .. n - 1 : Message.data[p] = cur.data[from + p]
  BY <1>6, <1>7, <1>8
<1> QED
  BY <1>3, <1>5, <1>9

(* Its bytes say the same there as where they are in the frame. *)
LEMMA SameMessage ==
  ASSUME FramesInv, BodyOut
  PROVE  LET n == Sent + body_out_bytes
         IN  /\ Message.len = n
             /\ Known(Message) <=> Itch!IsMessage(cur, Walk!Body, n)
             /\ Known(Message) => Itch!MessageAt(Message, 0) = Itch!MessageAt(cur, Walk!Body)
             /\ Known(Message) => n <= Itch!max_length
<1> DEFINE msg == Message
<1>0. PICK n \in Nat, from \in Nat :
        /\ n = Sent + body_out_bytes /\ from = Walk!Body
        /\ msg.len = n /\ \A p \in 0 .. n - 1 : msg.data[p] = cur.data[from + p]
  BY OnBus
<1> HIDE DEF msg
<1> DEFINE at == CommonFields[discriminator]
           key == Itch!KeyAt(cur, from)
<1>1. \A p \in 0 .. n - 1 : msg.data[0 + p] = cur.data[from + p]
  BY <1>0
<1>2. at.offset \in Nat /\ at.length \in Nat /\ Itch!Ends(at) = at.offset + at.length
  BY ReaderAssumption DEF Itch!Ends
<1>3. ASSUME n >= Itch!Ends(at)
      PROVE  Itch!KeyAt(msg, 0) = key
  <2>1. \A p \in at.offset .. Itch!Ends(at) - 1 : msg.data[0 + p] = cur.data[from + p]
    <3>1. \A p \in at.offset .. Itch!Ends(at) - 1 : p \in 0 .. n - 1
      BY <1>2, <1>3
    <3> QED
      BY <1>1, <3>1
  <2>2. [p \in at.offset .. Itch!Ends(at) - 1 |-> msg.data[0 + p]]
          = [p \in at.offset .. Itch!Ends(at) - 1 |-> cur.data[from + p]]
    BY <2>1
  <2> QED
    BY <2>2 DEF Itch!KeyAt
<1>5. Known(msg) <=> Itch!IsMessage(cur, from, n)
  BY <1>0, <1>3 DEF Known, Itch!IsMessage
<1>6. ASSUME Known(msg)
      PROVE  Itch!MessageAt(msg, 0) = Itch!MessageAt(cur, from) /\ n <= Itch!max_length
  <2>1. /\ n >= Itch!Ends(at) /\ key \in DOMAIN Variants /\ n = variant_length[key]
    BY <1>5, <1>6 DEF Itch!IsMessage
  <2>2. Itch!KeyAt(msg, 0) = key
    BY <1>3, <2>1
  <2>3. ASSUME NEW name \in Itch!MessageFields(key)
        PROVE  LET place == Itch!LocationIn(key, name)
               IN  [i \in 1 .. place.length |-> msg.data[0 + place.offset + i - 1]]
                     = [i \in 1 .. place.length |-> cur.data[from + place.offset + i - 1]]
    <3> DEFINE place == Itch!LocationIn(key, name)
    <3>1. place.offset \in Nat /\ place.length \in Nat /\ place.offset + place.length <= n
      BY <2>1, ReaderAssumption DEF Itch!Ends
    <3> HIDE DEF place
    <3>2. ASSUME NEW i \in 1 .. place.length
          PROVE  msg.data[0 + place.offset + i - 1] = cur.data[from + place.offset + i - 1]
      <4>1. PICK p \in 0 .. n - 1 : p = place.offset + i - 1
        BY <3>1
      <4>2. 0 + place.offset + i - 1 = 0 + p /\ from + place.offset + i - 1 = from + p
        BY <3>1, <4>1
      <4> QED
        BY <1>1, <4>2
    <3>3. [i \in 1 .. place.length |-> msg.data[0 + place.offset + i - 1]]
            = [i \in 1 .. place.length |-> cur.data[from + place.offset + i - 1]]
      BY <3>2
    <3> QED
      BY <3>3 DEF place
  <2>4. Itch!MessageAt(msg, 0) = Itch!MessageAt(cur, from)
    <3>1. [name \in Itch!MessageFields(key) |->
             LET place == Itch!LocationIn(key, name)
             IN  [i \in 1 .. place.length |-> msg.data[0 + place.offset + i - 1]]]
            = [name \in Itch!MessageFields(key) |->
                 LET place == Itch!LocationIn(key, name)
                 IN  [i \in 1 .. place.length |-> cur.data[from + place.offset + i - 1]]]
      BY <2>3, Zenon
    <3> DEFINE InMsg(k) == [key    |-> k,
                            fields |-> [name \in Itch!MessageFields(k) |->
                                          LET place == Itch!LocationIn(k, name)
                                          IN  [i \in 1 .. place.length |-> msg.data[0 + place.offset + i - 1]]]]
    <3>2. Itch!MessageAt(msg, 0) = InMsg(key)
      <4>1. Itch!MessageAt(msg, 0) = InMsg(Itch!KeyAt(msg, 0))
        BY DEF Itch!MessageAt
      <4> HIDE DEF InMsg, key
      <4> QED
        BY <2>2, <4>1
    <3>3. Itch!MessageAt(cur, from)
            = [key    |-> key,
               fields |-> [name \in Itch!MessageFields(key) |->
                             LET place == Itch!LocationIn(key, name)
                             IN  [i \in 1 .. place.length |-> cur.data[from + place.offset + i - 1]]]]
      BY DEF Itch!MessageAt
    <3> HIDE DEF key
    <3> QED
      BY <3>1, <3>2, <3>3, Zenon
  <2>5. n <= Itch!max_length
    BY <2>1, ReaderAssumption
  <2> QED
    BY <2>4, <2>5
<1> QED
  BY <1>0, <1>5, <1>6 DEF msg

(* No message is longer than the beats the reader reads of one. *)
LEMMA WithinLimit == Limit \in Nat /\ Itch!max_length <= Limit
<1>0. KEEP_WIDTH \in Nat \ {0} /\ Itch!max_length \in Nat
  BY KeepWidthAssumption, ReaderAssumption
<1> DEFINE m == Itch!max_length + KEEP_WIDTH - 1
           q == m \div KEEP_WIDTH
           r == m % KEEP_WIDTH
<1>1. m \in Nat
  BY <1>0
<1>2. m = Itch!max_length + KEEP_WIDTH - 1
  OBVIOUS
<1> HIDE DEF m
<1>3. q \in Nat /\ r \in 0 .. KEEP_WIDTH - 1 /\ m = q * KEEP_WIDTH + r
  BY <1>0, <1>1, Z3
<1>4. Limit = q * KEEP_WIDTH
  BY DEF Limit, Itch!PARSE_BEATS, q, m
<1> HIDE DEF q, r
<1>5. q * KEEP_WIDTH \in Nat
  BY <1>0, <1>3
<1> QED
  BY <1>0, <1>2, <1>3, <1>4, <1>5

------------------------------------------------------------------------------
(* The invariant. *)

(* What the reader makes of the beat that ends a message, and of another. *)
LEMMA ReaderBeat ==
  ASSUME FramesInv, ReaderInv, Output, ItchBeat
  PROVE  LET n == Sent + body_out_bytes
         IN  /\ n \in Nat \ {0} /\ Walk!Body \in Nat
             /\ itch_malformed_count' \in 0 .. COUNTER_MOD - 1 /\ counted' \in BOOLEAN
             /\ IF m_axis_tlast
                THEN /\ itch_state' = "ST_PARSE" /\ counted' = FALSE
                     /\ \/ /\ Itch!IsMessage(cur, Walk!Body, n)
                           /\ announced' = Itch!MessageAt(cur, Walk!Body)
                           /\ Refused' = Refused
                        \/ /\ ~Itch!IsMessage(cur, Walk!Body, n)
                           /\ announced' = Itch!NoMessage
                           /\ \/ m_axis_tuser /\ Refused' = Refused
                              \/ (~m_axis_tuser \/ n > Limit) /\ Refused' = (Refused + 1) % COUNTER_MOD
                ELSE /\ itch_state' \in {"ST_PARSE", "ST_DRAIN"}
                     /\ announced' = Itch!NoMessage
                     /\ Refused' = Refused
                     /\ counted' => itch_state' = "ST_DRAIN"
                     /\ itch_state' = "ST_DRAIN" => n >= Limit /\ (counted' \/ sticky_tuser)
<1> DEFINE n == Sent + body_out_bytes
<1>0. BodyOut /\ TypeOK /\ itch_malformed_count \in 0 .. COUNTER_MOD - 1
  BY DEF FramesInv, IInv, HeadersInv, TypeOK, ReaderInv, Output, BodyTruncated, BodyMore, LastMessage, ExtraBytes,
         MissingMessages, NextMessage, BodyComplete
<1>1. n \in Nat \ {0} /\ Walk!Body \in Nat
  BY <1>0, OnBus
<1>2. /\ Known(Message) <=> Itch!IsMessage(cur, Walk!Body, n)
      /\ Known(Message) => Itch!MessageAt(Message, 0) = Itch!MessageAt(cur, Walk!Body)
      /\ Known(Message) => n <= Itch!max_length
      /\ Message.len = n
  BY <1>0, SameMessage
<1>3. /\ Limit \in Nat /\ (Itch!IsMessage(cur, Walk!Body, n) => n <= Limit)
  BY <1>1, <1>2, WithinLimit, ReaderAssumption
<1>4. sticky_tuser \in BOOLEAN /\ m_axis_tuser \in BOOLEAN /\ (~m_axis_tlast => m_axis_tuser = sticky_tuser)
      /\ (sticky_tuser => m_axis_tuser)
  BY <1>0 DEF m_axis_tuser, m_axis_tlast, body_truncated, TypeOK, CommonTypeOK
<1> HIDE DEF n
<1>5. CASE ItchPublish(Message)
  <2>1. /\ itch_state = "ST_PARSE" /\ m_axis_tlast /\ Known(Message) /\ announced' = Itch!MessageAt(Message, 0)
        /\ UNCHANGED <<itch_state, itch_malformed_count, counted>>
    BY <1>5 DEF ItchPublish
  <2>2. counted = FALSE
    BY <2>1 DEF ReaderInv
  <2>3. Refused' = Refused
    BY <2>1 DEF Refused
  <2> QED
    BY <1>0, <1>1, <1>2, <2>1, <2>2, <2>3 DEF n
<1>6. CASE ItchRefuse(Message)
  <2>1. /\ itch_state = "ST_PARSE" /\ m_axis_tlast /\ ~Known(Message) /\ announced' = Itch!NoMessage
        /\ CountUnmarked /\ UNCHANGED <<itch_state, counted>>
    BY <1>6 DEF ItchRefuse, NotFresh
  <2>2. counted = FALSE /\ counted' = FALSE
    BY <2>1 DEF ReaderInv
  <2>3. Refused = itch_malformed_count /\ Refused' = itch_malformed_count'
    BY <2>2 DEF Refused
  <2>4. /\ itch_malformed_count' \in 0 .. COUNTER_MOD - 1
        /\ \/ m_axis_tuser /\ Refused' = Refused
           \/ ~m_axis_tuser /\ Refused' = (Refused + 1) % COUNTER_MOD
    BY <1>0, <1>4, <2>1, <2>3, CountBack DEF CountUnmarked
  <2> QED
    BY <1>0, <1>1, <1>2, <2>1, <2>2, <2>4 DEF n
<1>7. CASE ItchOverLong(Message)
  <2>1. /\ itch_state = "ST_PARSE" /\ ~m_axis_tlast /\ n = Limit /\ announced' = Itch!NoMessage
        /\ CountUnmarked /\ counted' = ~m_axis_tuser /\ itch_state' = "ST_DRAIN"
    BY <1>2, <1>7 DEF ItchOverLong, NotFresh
  <2>2. counted = FALSE
    BY <2>1 DEF ReaderInv
  <2>3. itch_malformed_count' \in 0 .. COUNTER_MOD - 1 /\ Refused' = Refused
    <3>1. CASE m_axis_tuser
      BY <1>0, <2>1, <2>2, <3>1 DEF CountUnmarked, Refused
    <3>2. CASE ~m_axis_tuser
      <4>1. itch_malformed_count' = (itch_malformed_count + 1) % COUNTER_MOD /\ counted' = TRUE
        BY <2>1, <3>2 DEF CountUnmarked
      <4>2. Refused' = (itch_malformed_count' + COUNTER_MOD - 1) % COUNTER_MOD /\ Refused = itch_malformed_count
        BY <2>2, <4>1 DEF Refused
      <4> QED
        BY <1>0, <4>1, <4>2, CountBack
    <3> QED
      BY <3>1, <3>2
  <2>4. counted' \in BOOLEAN /\ (counted' \/ sticky_tuser) /\ n >= Limit
    <3>1. n >= Limit
      BY <1>1, <2>1
    <3>2. counted' \in BOOLEAN /\ (counted' \/ sticky_tuser)
      BY <1>4, <2>1, Zenon
    <3> QED
      BY <3>1, <3>2
  <2> QED
    BY <1>1, <2>1, <2>3, <2>4 DEF n
<1>8. CASE ItchMore(Message)
  <2>1. /\ itch_state = "ST_PARSE" /\ ~m_axis_tlast /\ announced' = Itch!NoMessage
        /\ UNCHANGED <<itch_state, itch_malformed_count, counted>>
    BY <1>8 DEF ItchMore, NotFresh
  <2>2. counted = FALSE /\ Refused' = Refused
    BY <2>1 DEF ReaderInv, Refused
  <2> QED
    BY <1>0, <1>1, <2>1, <2>2 DEF n
<1>9. CASE ItchDrain
  <2>1. /\ itch_state = "ST_DRAIN" /\ announced' = Itch!NoMessage
        /\ itch_malformed_count' = itch_malformed_count
        /\ IF m_axis_tlast THEN itch_state' = "ST_PARSE" /\ counted' = FALSE
                           ELSE UNCHANGED <<itch_state, counted>>
    BY <1>9 DEF ItchDrain, NotFresh
  <2>2. n > Limit /\ counted \in BOOLEAN /\ (counted \/ sticky_tuser)
    <3>1. Sent \in Nat /\ body_out_bytes \in Nat \ {0} /\ Sent >= Limit
      <4>1. Sent \in Nat /\ body_out_bytes \in Nat /\ Sent >= Limit
        BY <1>0, <2>1, SentBytes DEF ReaderInv
      <4>2. body_out_bytes # 0
        BY <1>0, SomeSent DEF FramesInv, IInv
      <4> QED
        BY <4>1, <4>2
    <3> QED
      BY <1>3, <2>1, <3>1 DEF ReaderInv, n
  <2>3. CASE m_axis_tlast
    <3>1. ~Itch!IsMessage(cur, Walk!Body, n)
      BY <1>1, <1>3, <2>2
    <3>2. Refused' = itch_malformed_count
      BY <2>1, <2>3 DEF Refused
    <3>3. counted => Refused' = (Refused + 1) % COUNTER_MOD
      BY <1>0, <3>2, CountBack DEF Refused
    <3>4. ~counted => m_axis_tuser /\ Refused' = Refused
      BY <1>4, <2>2, <3>2 DEF Refused
    <3> QED
      BY <1>0, <1>1, <2>1, <2>2, <2>3, <3>1, <3>3, <3>4 DEF n
  <2>4. CASE ~m_axis_tlast
    <3>1. Refused' = Refused
      BY <2>1, <2>4 DEF Refused
    <3> QED
      BY <1>0, <1>1, <1>3, <2>1, <2>2, <2>4, <3>1 DEF n
  <2> QED
    BY <2>3, <2>4
<1> QED
  BY <1>5, <1>6, <1>7, <1>8, <1>9 DEF ItchBeat

(* A step of the pipeline is one of the splitter and its sink. *)
LEMMA SplitterOnly == [PipelineNext]_pipelineVars => [FramesNext]_framesVars
BY DEF PipelineNext, Enter, Within, Leave, PipelineReset, FramesNext, pipelineVars

(* At an edge without a beat the reader stays where it is, and so does the *)
(* body it is at, if it has begun.                                         *)
LEMMA ReaderWaits ==
  ASSUME NoneLeftOpen, FramesInv, ReaderInv,
         \/ (Present \/ Consume \/ IdleEdge) /\ UNCHANGED sink
         \/ UNCHANGED framesVars,
         UNCHANGED <<itch_state, itch_malformed_count, counted>>
  PROVE  ReaderInv' /\ Refused' = Refused
<1>0. HeadersInv /\ sticky_tuser \in BOOLEAN
  BY DEF FramesInv, IInv, HeadersInv, CommonTypeOK
<1>1. SUFFICES ASSUME itch_state = "ST_DRAIN"
               PROVE  state' = "ST_MSG_BODY" /\ Sent' = Sent /\ (sticky_tuser => sticky_tuser')
  BY DEF ReaderInv, Refused, Limit
<1>2. state = "ST_MSG_BODY" /\ Sent # 0
  BY <1>1 DEF ReaderInv
<1>3. CASE ((Present \/ IdleEdge) /\ UNCHANGED sink) \/ UNCHANGED framesVars
  <2>1. UNCHANGED <<state, messages, scratches, pos, cur, sticky_tuser>>
    BY <1>3 DEF Present, IdleEdge, Offer, CommonIdle, Later, framesVars, vars, common, source, sink
  <2>2. Sent' = Sent
    BY <2>1 DEF Sent, BodyOf, MessageFrom, BodyEnd, Consumed, Accepted, messages, scratches
  <2> QED
    BY <1>2, <2>1, <2>2
<1>4. CASE Headers
  BY <1>2, <1>4 DEF Headers, ParseEdge, ParseMore, ParseShort, FinalShort, FinalDrop, FinalAccept, HeaderComplete,
         FinalBeat, ParseBeat, Terminator, SubHeaderMore, SubHeaderShort, ZeroLength, BeginBody, SubHeaderComplete,
         SubHeaderByte, Drain
<1>5. CASE Load
  <2>1. ~NoInput
    BY <1>2, <1>5, NothingSent
  <2>2. /\ state' = "ST_MSG_BODY" /\ cur' = cur /\ MessageFrom' = MessageFrom /\ Consumed' = Consumed
    BY <1>0, <1>5, <2>1, SameBody
  <2>3. BodyOf(cur, MessageFrom)' = BodyOf(cur, MessageFrom)
    BY <2>2 DEF BodyOf
  <2>4. Sent' = Sent
    BY <2>2, <2>3 DEF Sent
  <2>5. sticky_tuser => sticky_tuser'
    BY <1>5, <2>1 DEF Load, Mark
  <2> QED
    BY <2>2, <2>4, <2>5
<1> QED
  BY <1>3, <1>4, <1>5 DEF Consume

(* With a beat it stays in the body, or is done with it. *)
LEMMA ReaderTakes ==
  ASSUME FramesInv, ReaderInv, Output, ItchBeat
  PROVE  ReaderInv'
<1>1. /\ itch_malformed_count' \in 0 .. COUNTER_MOD - 1 /\ counted' \in BOOLEAN
  BY ReaderBeat
<1>2. CASE BodyMore
  <2>1. state' = "ST_MSG_BODY" /\ ~m_axis_tlast /\ Sent' = Sent + body_out_bytes
    BY <1>2, SentMore
  <2>2. /\ Sent + body_out_bytes \in Nat \ {0}
        /\ itch_state' \in {"ST_PARSE", "ST_DRAIN"} /\ (counted' => itch_state' = "ST_DRAIN")
        /\ itch_state' = "ST_DRAIN" => Sent + body_out_bytes >= Limit /\ (counted' \/ sticky_tuser)
    BY <2>1, ReaderBeat
  <2>3. sticky_tuser' = sticky_tuser
    BY <1>2 DEF BodyMore
  <2> QED
    BY <1>1, <2>1, <2>2, <2>3 DEF ReaderInv, Limit
<1>3. CASE ~BodyMore
  <2>1. itch_state' = "ST_PARSE" /\ counted' = FALSE
    BY <1>3, SentMore, ReaderBeat
  <2> QED
    BY <1>1, <2>1 DEF ReaderInv
<1> QED
  BY <1>2, <1>3

(* What is announced is the message that has just left the splitter, and   *)
(* the splitter's registers still hold the header of the frame it is in.   *)
LEMMA AnnouncedInStep ==
  ASSUME FramesInv, ReaderInv, Output, ItchBeat
  PROVE  SeqNumCoherent'
<1>0. HeadersInv /\ BodyOut
  BY DEF FramesInv, IInv, Output, BodyTruncated, BodyMore, LastMessage, ExtraBytes, MissingMessages, NextMessage,
         BodyComplete
<1>1. /\ state = "ST_MSG_BODY" /\ cur' = cur /\ field_reg' = field_reg
  BY <1>0, Sending DEF Later, outer
<1>2. \A p \in HeaderBytes : field_reg[p] = cur.data[p]
  BY <1>0, <1>1 DEF HeadersInv, FieldsCoherent, fields_valid
<1>3. SUFFICES ASSUME announced' # Itch!NoMessage
               PROVE  \E at \in TOTAL_LENGTH + SUB_HEADER_BYTES .. cur.len - 1 :
                        announced' = Itch!MessageAt(cur, at) /\ Itch!KeyAt(cur, at) = announced'.key
  BY <1>1, <1>2 DEF SeqNumCoherent, itch_fields_fresh
<1>4. announced' = Itch!MessageAt(cur, Walk!Body)
  BY <1>3, ReaderBeat
<1>5. Itch!KeyAt(cur, Walk!Body) = announced'.key
  BY <1>4 DEF Itch!MessageAt
<1>6. Walk!Body \in TOTAL_LENGTH + SUB_HEADER_BYTES .. cur.len - 1
  <2>1. /\ Start \in TOTAL_LENGTH .. cur.len /\ Start \in Nat /\ SUB_HEADER_BYTES \in Nat
        /\ Walk!Body = Start + SUB_HEADER_BYTES /\ Walk!Body <= Consumed
    BY <1>0, <1>1, InBody, WalkBody
  <2>2. /\ Consumed \in Nat /\ cur.len \in Nat /\ Consumed < cur.len
    <3>1. /\ Accepted = Consumed + Len(scratch) /\ Accepted <= cur.len /\ Consumed \in Nat /\ Len(scratch) \in Nat
          /\ cur.len \in Nat /\ (Empty <=> Len(scratch) = 0)
      BY <1>0, <1>1, Held DEF InMessages
    <3>2. ~Empty
      BY <1>0 DEF BodyOut, m_axis_tvalid
    <3> QED
      BY <3>1, <3>2
  <2>3. TOTAL_LENGTH \in Nat
    BY PlanAssumption
  <2> QED
    BY <2>1, <2>2, <2>3
<1> QED
  BY <1>4, <1>5, <1>6

(* A reader that has seen nothing of a message. *)
LEMMA ReaderStarts ==
  /\ itch_state = "ST_PARSE" /\ itch_malformed_count = 0 /\ counted = FALSE => ReaderInv
  /\ itch_state' = "ST_PARSE" /\ itch_malformed_count' = 0 /\ counted' = FALSE => ReaderInv'
<1>1. 0 \in 0 .. COUNTER_MOD - 1
  BY CounterAssumption
<1>2. "ST_PARSE" # "ST_DRAIN"
  OBVIOUS
<1> QED
  BY <1>1, <1>2, Zenon DEF ReaderInv

LEMMA PipelineInitInv == PipelineInit => PipelineInv
<1> SUFFICES ASSUME PipelineInit PROVE PipelineInv
  OBVIOUS
<1>1. FramesInv
  BY FramesInitInv DEF PipelineInit, FramesInit
<1>2. ReaderInv
  BY ReaderStarts DEF PipelineInit, ItchInit
<1>3. SeqNumCoherent
  BY DEF PipelineInit, ItchInit, SeqNumCoherent, itch_fields_fresh
<1> QED
  BY <1>1, <1>2, <1>3 DEF PipelineInv

LEMMA PipelineStepInv ==
  ASSUME FramesEnd, NoneLeftOpen, PipelineInv, [PipelineNext]_pipelineVars
  PROVE  PipelineInv'
<1>0. FramesInv /\ ReaderInv /\ SeqNumCoherent
  BY DEF PipelineInv
<1>1. FramesInv'
  BY <1>0, SplitterOnly, FramesStepInv
<1>2. CASE Enter \/ UNCHANGED pipelineVars
  <2>1. ReaderInv'
    BY <1>0, <1>2, ReaderWaits DEF Enter, pipelineVars, itch
  <2>2. UNCHANGED <<announced, field_reg, cur>>
    BY <1>2 DEF Enter, Present, Offer, pipelineVars, itch, framesVars, vars, common, outer
  <2>3. SeqNumCoherent'
    BY <1>0, <2>2 DEF SeqNumCoherent, itch_fields_fresh
  <2> QED
    BY <1>1, <2>1, <2>3 DEF PipelineInv
<1>3. CASE Within
  <2>1. ReaderInv'
    BY <1>0, <1>3, ReaderWaits DEF Within, ItchIdle
  <2>2. SeqNumCoherent'
    BY <1>3 DEF Within, ItchIdle, NotFresh, SeqNumCoherent, itch_fields_fresh
  <2> QED
    BY <1>1, <2>1, <2>2 DEF PipelineInv
<1>4. CASE Leave
  BY <1>0, <1>1, <1>4, ReaderTakes, AnnouncedInStep DEF Leave, PipelineInv
<1>5. CASE PipelineReset
  <2>1. ReaderInv'
    BY <1>5, ReaderStarts DEF PipelineReset, ItchReset
  <2>2. SeqNumCoherent'
    BY <1>5 DEF PipelineReset, ItchReset, SeqNumCoherent, itch_fields_fresh
  <2> QED
    BY <1>1, <2>1, <2>2 DEF PipelineInv
<1> QED
  BY <1>2, <1>3, <1>4, <1>5 DEF PipelineNext

(***************************************************************************)
(* The reader is done with a message when the splitter is, and one too     *)
(* long for any variant was counted or is marked, for every bus, protocol  *)
(* and set of frames of which none ends unnoticed or leaves a body open.   *)
(***************************************************************************)
THEOREM PipelineInvariance == FramesEnd /\ NoneLeftOpen => (PipelineSpec => []PipelineInv)
<1> SUFFICES ASSUME FramesEnd, NoneLeftOpen PROVE PipelineSpec => []PipelineInv
  OBVIOUS
<1>1. PipelineInit => PipelineInv
  BY PipelineInitInv
<1>2. PipelineInv /\ [PipelineNext]_pipelineVars => PipelineInv'
  BY PipelineStepInv
<1> QED
  BY <1>1, <1>2, PTL DEF PipelineSpec

(* The sequence number shown beside a message's fields is that of the      *)
(* frame the message came in.                                              *)
THEOREM SeqNumInStep == FramesEnd /\ NoneLeftOpen => (PipelineSpec => []SeqNumCoherent)
<1> SUFFICES ASSUME FramesEnd, NoneLeftOpen PROVE PipelineSpec => []SeqNumCoherent
  OBVIOUS
<1>1. PipelineInv => SeqNumCoherent
  BY DEF PipelineInv
<1>2. PipelineSpec => []PipelineInv
  BY PipelineInvariance
<1> QED
  BY <1>1, <1>2, PTL

------------------------------------------------------------------------------
(* The messages of a frame, and MessageFeed.                               *)

(* The walk of the instance is the walk of the headers. *)
LEMMA FeedReads ==
  /\ \A hdr, cfg : Feed!DropsOf(hdr, cfg) = Walk!DropsOf(hdr, cfg)
  /\ \A hdr : Feed!MsgCount(hdr) = Walk!MsgCount(hdr)
  /\ \A f : Feed!Header(f) = Walk!Header(f)
  /\ Feed!Body = Walk!Body /\ Feed!Length = Walk!Length /\ Feed!BodyEnd = Walk!BodyEnd
<1>1. \A x, y : Feed!BitAnd(x, y) = Walk!BitAnd(x, y)
  BY DEF Walk!BitAnd, Feed!BitAnd
<1>2. \A hdr, f : Feed!BigEndian(hdr, f) = Walk!BigEndian(hdr, f)
  BY DEF Walk!BigEndian, Feed!BigEndian
<1>3. \A hdr, f : Feed!FieldValue(hdr, f) = Walk!FieldValue(hdr, f)
  BY <1>2 DEF Walk!FieldValue, Feed!FieldValue
<1>4. \A hdr, cfg : Feed!DropsOf(hdr, cfg) = Walk!DropsOf(hdr, cfg)
  BY <1>1, <1>3 DEF Walk!DropsOf, Feed!DropsOf, Walk!drop_expression, Feed!drop_expression
<1>5. \A hdr : Feed!MsgCount(hdr) = Walk!MsgCount(hdr)
  BY <1>3 DEF Walk!MsgCount, Feed!MsgCount
<1>6. \A f : Feed!Header(f) = Walk!Header(f)
  BY DEF Walk!Header, Feed!Header, Walk!HeaderBytes, Feed!HeaderBytes,
         Walk!FieldBytes, Feed!FieldBytes
<1>7. Feed!Body = Walk!Body
  BY DEF Walk!Body, Feed!Body
<1>8. Feed!Length = Walk!Length
  BY <1>2 DEF Walk!Length, Feed!Length, Walk!MsgLen, Feed!MsgLen, Walk!SubHeader, Feed!SubHeader,
              Walk!SubBytes, Feed!SubBytes
<1>9. Feed!BodyEnd = Walk!BodyEnd
  BY <1>7, <1>8 DEF Walk!BodyEnd, Feed!BodyEnd
<1> QED
  BY <1>4, <1>5, <1>6, <1>7, <1>8, <1>9

LEMMA FeedWalks ==
  /\ Walk!WalkInit => Feed!WalkInit
  /\ Walk!Elsewhere => Feed!Elsewhere
  /\ Walk!Discard => Feed!Discard
  /\ Walk!NoHeader \/ Walk!ZeroLength => Feed!Refuse
  /\ Walk!WalkReset => Feed!WalkReset
  /\ UNCHANGED Walk!walk => UNCHANGED Feed!walk
  /\ Walk!Finish => Feed!Finish
  /\ Walk!Configure => Feed!Configure
<1>1. Walk!WalkInit => Feed!WalkInit
  BY DEF Walk!WalkInit, Feed!WalkInit, Walk!IntakeInit, Feed!IntakeInit
<1>2. \A f : Walk!Candidate(f) => Feed!Candidate(f)
  BY DEF Walk!Candidate, Feed!Candidate, Walk!Configure, Feed!Configure
<1>3. Walk!Elsewhere => Feed!Elsewhere
  <2>1. \A f : /\ Walk!Begin(f) => Feed!Begin(f)
               /\ Walk!Reject(f) => Feed!Reject(f)
    BY <1>2, FeedReads DEF Walk!Begin, Feed!Begin, Walk!Reject, Feed!Reject
  <2>2. \A f : Walk!Short(f) => Feed!Short(f)
    BY <1>2 DEF Walk!Short, Feed!Short, Walk!TooShort, Feed!TooShort,
                Walk!CountMalformed, Feed!CountMalformed
  <2>3. \A f : Walk!Pass(f) => Feed!Pass(f)
    BY <1>2, FeedReads DEF Walk!Pass, Feed!Pass
  <2>4. \A f : /\ Walk!NoMessages(f) => Feed!NoMessages(f)
               /\ Walk!Admit(f) => Feed!Admit(f)
    BY <2>3, FeedReads DEF Walk!NoMessages, Feed!NoMessages, Walk!Admit, Feed!Admit
  <2>5. Walk!Reconfigure => Feed!Reconfigure
    BY DEF Walk!Reconfigure, Feed!Reconfigure, Walk!Configure, Feed!Configure
  <2> QED
    BY <2>1, <2>2, <2>4, <2>5 DEF Walk!Elsewhere, Feed!Elsewhere
<1>4. Walk!Discard => Feed!Discard
  BY DEF Walk!Discard, Feed!Discard, Walk!Discarded, Feed!Discarded, Walk!Configure, Feed!Configure
<1>5. Walk!NoHeader \/ Walk!ZeroLength => Feed!Refuse
  BY FeedReads DEF Walk!NoHeader, Feed!NoHeader, Walk!ZeroLength, Feed!ZeroLength,
     Feed!Refuse, Walk!InMessage, Feed!InMessage, Walk!Finish, Feed!Finish,
     Walk!Configure, Feed!Configure, Walk!CountMalformed, Feed!CountMalformed
<1>6. Walk!WalkReset => Feed!WalkReset
  BY DEF Walk!WalkReset, Feed!WalkReset, Walk!IntakeReset, Feed!IntakeReset
<1>7. UNCHANGED Walk!walk => UNCHANGED Feed!walk
  BY DEF Walk!walk, Feed!walk, Walk!intake, Feed!intake
<1>8. Walk!Finish => Feed!Finish
  BY DEF Walk!Finish, Feed!Finish
<1>9. Walk!Configure => Feed!Configure
  BY DEF Walk!Configure, Feed!Configure
<1> QED
  BY <1>1, <1>3, <1>4, <1>5, <1>6, <1>7, <1>8, <1>9

LEMMA FeedMessages ==
  /\ Walk!InMessage => Feed!InMessage
  /\ Walk!Lost => Feed!Lost
  /\ Walk!Whole => Feed!Whole
  /\ Walk!More => Feed!More
  /\ Walk!Last => Feed!Last
  /\ Walk!AsAnnounced <=> Feed!AsAnnounced
<1>1. Walk!InMessage => Feed!InMessage
  BY DEF Walk!InMessage, Feed!InMessage, Walk!Configure, Feed!Configure
<1>2. Walk!Whole => Feed!Whole
  BY FeedReads DEF Walk!Whole, Feed!Whole
<1>3. Walk!More => Feed!More
  BY <1>1, <1>2, FeedReads DEF Walk!More, Feed!More, Walk!Padded, Feed!Padded
<1>4. Walk!Last => Feed!Last
  BY <1>1, <1>2, FeedReads DEF Walk!Last, Feed!Last, Walk!Padded, Feed!Padded,
     Walk!Finish, Feed!Finish
<1>5. Walk!AsAnnounced <=> Feed!AsAnnounced
  BY FeedReads DEF Walk!AsAnnounced, Feed!AsAnnounced, Walk!Padded, Feed!Padded
<1>6. Walk!Lost => Feed!Lost
  BY <1>1, FeedWalks, FeedReads DEF Walk!Lost, Feed!Lost, Walk!Padded, Feed!Padded,
     Walk!CountMalformed, Feed!CountMalformed
<1> QED
  BY <1>1, <1>2, <1>3, <1>4, <1>5, <1>6

(* What the instance says of a message is what the reader's plan says.     *)
LEMMA FeedJudges ==
  /\ Feed!NoMessage = Itch!NoMessage
  /\ Feed!Limit = Limit
  /\ \A f, from : Feed!MessageAt(f, from) = Itch!MessageAt(f, from)
  /\ \A f, from, len : Feed!IsMessage(f, from, len) = Itch!IsMessage(f, from, len)
<1>1. \A hdr, f : Feed!BigEndian(hdr, f) = Itch!BigEndian(hdr, f)
  BY DEF Feed!BigEndian, Itch!BigEndian
<1>2. \A S : Feed!Max(S) = Itch!Max(S)
  BY DEF Feed!Max, Itch!Max
<1>3. \A at : Feed!Ends(at) = Itch!Ends(at)
  BY DEF Feed!Ends, Itch!Ends
<1>4. \A f, from : Feed!KeyAt(f, from) = Itch!KeyAt(f, from)
  BY <1>1, <1>3, Zenon DEF Feed!KeyAt, Itch!KeyAt
<1>5. \A k : Feed!MessageFields(k) = Itch!MessageFields(k)
  BY DEF Feed!MessageFields, Itch!MessageFields
<1>6. \A k, f : Feed!LocationIn(k, f) = Itch!LocationIn(k, f)
  BY DEF Feed!LocationIn, Itch!LocationIn
<1>7. \A f, from : Feed!MessageAt(f, from) = Itch!MessageAt(f, from)
  BY <1>4, <1>5, <1>6, Zenon DEF Feed!MessageAt, Itch!MessageAt
<1>8. \A f, from, len : Feed!IsMessage(f, from, len) = Itch!IsMessage(f, from, len)
  BY <1>3, <1>4, Zenon DEF Feed!IsMessage, Itch!IsMessage
<1>9. Feed!Limit = Limit
  BY <1>2, Zenon DEF Feed!Limit, Limit, Itch!PARSE_BEATS, Feed!max_length, Itch!max_length
<1>10. Feed!NoMessage = Itch!NoMessage
  BY DEF Feed!NoMessage, Itch!NoMessage
<1> QED
  BY <1>7, <1>8, <1>9, <1>10

(* At an edge without a beat the reader judges nothing. *)
LEMMA FeedQuiet ==
  ASSUME NoneLeftOpen, FramesInv, ReaderInv,
         Enter \/ Within \/ UNCHANGED pipelineVars
  PROVE  Feed!Quiet
<1>1. CASE Enter \/ UNCHANGED pipelineVars
  <2>1. announced' = announced
    BY <1>1 DEF Enter, pipelineVars, itch
  <2>2. Refused' = Refused
    BY <1>1 DEF Enter, pipelineVars, itch, Refused
  <2> QED
    BY <2>1, <2>2 DEF Feed!Quiet
<1>2. CASE Within
  <2>1. announced' = Feed!NoMessage
    BY <1>2, FeedJudges DEF Within, ItchIdle, NotFresh
  <2>2. Refused' = Refused
    BY <1>2, ReaderWaits DEF Within, ItchIdle
  <2> QED
    BY <2>1, <2>2 DEF Feed!Quiet
<1> QED
  BY <1>1, <1>2

(* With the beat that ends a message it judges what was sent of it. *)
LEMMA FeedJudgement ==
  ASSUME FramesInv, ReaderInv, Output, ItchBeat, m_axis_tlast
  PROVE  Feed!Judge(Sent + body_out_bytes, m_axis_tuser)
<1> DEFINE n == Sent + body_out_bytes
<1>1. \/ /\ Itch!IsMessage(cur, Walk!Body, n)
         /\ announced' = Itch!MessageAt(cur, Walk!Body)
         /\ Refused' = Refused
      \/ /\ ~Itch!IsMessage(cur, Walk!Body, n)
         /\ announced' = Itch!NoMessage
         /\ \/ m_axis_tuser /\ Refused' = Refused
            \/ (~m_axis_tuser \/ n > Limit) /\ Refused' = (Refused + 1) % COUNTER_MOD
  BY ReaderBeat
<1> HIDE DEF n
<1>2. Feed!Judge(n, m_axis_tuser)
  BY <1>1, FeedJudges, FeedReads, Zenon DEF Feed!Judge, Feed!CountRefused
<1> QED
  BY <1>2 DEF n

(* Every step of the pipeline is one the feed may take. *)
LEMMA FeedStep ==
  ASSUME NoneLeftOpen, FramesInv, ReaderInv, [PipelineNext]_pipelineVars
  PROVE  [Feed!Next]_(Feed!vars)
<1>0. HeadersInv
  BY DEF FramesInv, IInv
<1>1. CASE Enter \/ (Within /\ IdleEdge) \/ UNCHANGED pipelineVars
  <2>1. Walk!Elsewhere \/ UNCHANGED Walk!walk
    BY <1>1, WalkWaiting DEF Enter, Present, IdleEdge, pipelineVars, framesVars, vars
  <2> QED
    BY <1>1, <2>1, FeedQuiet, FeedWalks DEF Feed!Next
<1>2. CASE Within /\ Headers
  <2>1. Walk!Elsewhere \/ Walk!Discard \/ Walk!NoHeader \/ Walk!ZeroLength
    BY <1>0, <1>2, WalkParse, WalkNoHeader, WalkZeroLength, WalkSubHeader, WalkDrain DEF Headers
  <2> QED
    BY <1>2, <2>1, FeedQuiet, FeedWalks DEF Feed!Next, Feed!Read
<1>3. CASE Within /\ Load
  <2>1. CASE NoInput
    BY <1>3, <2>1, BodyGone, FeedQuiet, FeedMessages DEF Feed!Next, Feed!Read
  <2>2. CASE ~NoInput
    <3>1. /\ state = "ST_MSG_BODY" /\ state' = "ST_MSG_BODY" /\ Later /\ cur' = cur
          /\ UNCHANGED <<msg_remaining, malformed_count>> /\ MessageFrom' = MessageFrom
      BY <1>0, <1>3, <2>2, SameBody
    <3>2. UNCHANGED <<Phase, WalkStart, WalkLeft, drop_count>>
      BY <3>1 DEF Phase, WalkStart, WalkLeft, InMessages, Start, Later, outer
    <3>3. Feed!Reconfigure
      BY <3>1, <3>2 DEF Feed!Reconfigure, Feed!Configure, Later, ConfigEdge
    <3>4. Feed!Elsewhere
      BY <3>1, <3>2, <3>3 DEF Feed!Elsewhere
    <3> QED
      BY <1>3, <3>4, FeedQuiet DEF Feed!Next
  <2> QED
    BY <2>1, <2>2
<1>4. CASE Leave /\ BodyMore
  <2>1. /\ state = "ST_MSG_BODY" /\ state' = "ST_MSG_BODY" /\ Later /\ cur' = cur
        /\ UNCHANGED <<msg_remaining, malformed_count>> /\ MessageFrom' = MessageFrom
    BY <1>0, <1>4, SameBody
  <2>2. UNCHANGED <<Phase, WalkStart, WalkLeft, drop_count>>
    BY <2>1 DEF Phase, WalkStart, WalkLeft, InMessages, Start, Later, outer
  <2>3. Feed!Reconfigure
    BY <2>1, <2>2 DEF Feed!Reconfigure, Feed!Configure, Later, ConfigEdge
  <2>4. Feed!Elsewhere
    BY <2>1, <2>2, <2>3 DEF Feed!Elsewhere
  <2>5. ~m_axis_tlast
    BY <1>4, SentMore DEF Leave
  <2>6. announced' = Feed!NoMessage /\ Refused' = Refused
    BY <1>4, <2>5, ReaderBeat, FeedJudges DEF Leave
  <2>7. Feed!Quiet
    BY <2>6 DEF Feed!Quiet
  <2> QED
    BY <2>4, <2>7 DEF Feed!Next
<1>5. CASE Leave /\ BodyTruncated
  <2> DEFINE n == Sent + body_out_bytes
  <2>1. /\ Walk!InMessage /\ Walk!Finish /\ Walk!CountMalformed
        /\ Walk!Body < cur.len /\ Walk!BodyEnd > cur.len
        /\ n \in 1 .. cur.len - Walk!Body /\ n > cur.len - Walk!Body - KEEP_WIDTH
        /\ m_axis_tlast /\ m_axis_tuser = TRUE
    BY <1>5, BodyCut
  <2>2. Feed!Judge(n, TRUE)
    BY <1>5, <2>1, FeedJudgement DEF Leave
  <2> HIDE DEF n
  <2>3. Feed!InMessage /\ Feed!Finish /\ Feed!CountMalformed
    BY <2>1, FeedWalks, FeedMessages DEF Walk!CountMalformed, Feed!CountMalformed
  <2>4. Feed!Cut
    BY <2>1, <2>2, <2>3, FeedReads DEF Feed!Cut
  <2> QED
    BY <2>4 DEF Feed!Next, Feed!Read
<1>6. CASE Leave /\ BodyComplete
  <2>1. /\ m_axis_tlast /\ m_axis_tuser = (\E q \in cur.user : q < Walk!BodyEnd)
        /\ Sent + body_out_bytes = Walk!Length
    BY <1>6, BodyWhole
  <2>2. Feed!Judge(Sent + body_out_bytes, m_axis_tuser)
    BY <1>6, <2>1, FeedJudgement DEF Leave
  <2>3. Feed!Judge(Feed!Length, \E q \in cur.user : q < Feed!BodyEnd)
    BY <2>1, <2>2, FeedReads, Zenon
  <2>4. CASE NextMessage
    <3>1. Walk!More /\ UNCHANGED malformed_count
      BY <2>4, BodyNext
    <3>2. Feed!Whole /\ Feed!More
      BY <3>1, FeedMessages DEF Walk!More
    <3>3. Feed!Deliver
      BY <2>3, <3>1, <3>2 DEF Feed!Deliver
    <3> QED
      BY <3>3 DEF Feed!Next, Feed!Read
  <2>5. CASE LastMessage \/ ExtraBytes \/ MissingMessages
    <3>1. /\ Walk!Last
          /\ IF Walk!AsAnnounced THEN UNCHANGED malformed_count ELSE Walk!CountMalformed
      BY <2>5, BodyLast
    <3>2. /\ Feed!Whole /\ Feed!Last
          /\ IF Feed!AsAnnounced THEN UNCHANGED malformed_count ELSE Feed!CountMalformed
      BY <3>1, FeedMessages DEF Walk!Last, Walk!CountMalformed, Feed!CountMalformed
    <3>3. Feed!Deliver
      BY <2>3, <3>2 DEF Feed!Deliver
    <3> QED
      BY <3>3 DEF Feed!Next, Feed!Read
  <2> QED
    BY <1>6, <2>4, <2>5 DEF Leave, Output, BodyComplete, BodyTruncated, BodyMore
<1>7. CASE PipelineReset
  <2>1. Walk!WalkReset
    BY <1>7, WalkResets DEF PipelineReset, Reset
  <2>2. announced' = Feed!NoMessage /\ Refused' = 0
    BY <1>7, FeedJudges DEF PipelineReset, ItchReset, Refused
  <2> QED
    BY <2>1, <2>2, FeedWalks DEF Feed!Next
<1> QED
  BY <1>1, <1>2, <1>3, <1>4, <1>5, <1>6, <1>7
     DEF PipelineNext, Within, Leave, Consume, Output, BodyComplete, NextMessage, LastMessage, ExtraBytes,
         MissingMessages

(***************************************************************************)
(* Splitter and reader in series publish, refuse and count what            *)
(* MessageFeed says, for every bus, protocol and set of frames of which    *)
(* none ends unnoticed or leaves a body open.                              *)
(***************************************************************************)
THEOREM FeedsMessages == FramesEnd /\ NoneLeftOpen => (PipelineSpec => ImplementsFeed)
<1> SUFFICES ASSUME FramesEnd, NoneLeftOpen PROVE PipelineSpec => Feed!Spec
  BY DEF ImplementsFeed
<1>1. PipelineInit => Feed!Init
  <2> SUFFICES ASSUME PipelineInit PROVE Feed!Init
    OBVIOUS
  <2>1. Feed!WalkInit
    BY WalkBegins, FeedWalks DEF PipelineInit, Init
  <2>2. announced = Feed!NoMessage /\ Refused = 0
    BY FeedJudges DEF PipelineInit, ItchInit, Refused
  <2> QED
    BY <2>1, <2>2 DEF Feed!Init
<1>2. PipelineInv /\ [PipelineNext]_pipelineVars => [Feed!Next]_(Feed!vars)
  BY FeedStep DEF PipelineInv
<1>3. PipelineSpec => []PipelineInv
  BY PipelineInvariance
<1> QED
  BY <1>1, <1>2, <1>3, PTL DEF PipelineSpec, Feed!Spec
==============================================================================
