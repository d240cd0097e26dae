-------------------------------- MODULE Icmp --------------------------------
(***************************************************************************)
(* The ICMP pinger (icmp.c) byte by byte: how an echo request is laid out  *)
(* in the reused send buffer, which datagrams the socket filter lets       *)
(* through, and how a datagram is parsed as the reply to a request.  An    *)
(* array of bytes is a function on 0..n-1, as in C.                        *)
(***************************************************************************)
EXTENDS MonitorState, Sequences

CONSTANTS
    Families,       \* the address families tried, of "inet" and "inet6"
    ByteOrders,     \* the byte orders of the host, of "little" and "big"
    Identifier,     \* cached_pid
    Foreign,        \* datagrams made by others, that may reach the socket
    EchoWords,      \* the IP headers replies come with, in 32-bit words
    PACKET_SIZE,    \* OPENUPS_PACKET_SIZE
    RECV_SIZE,      \* sizeof(recv_buf)
    Horizons        \* bounds: how many probes are sent and datagrams arrive

ICMP_HEADER == 8        \* sizeof(struct icmphdr), sizeof(struct icmp6_hdr)
IP_HEADER == 20         \* sizeof(struct ip)
IPPROTO_ICMP == 1
IPOPT_NOP == 1
EchoRequest(family) == IF family = "inet6" THEN 128 ELSE 8
EchoReply(family) == IF family = "inet6" THEN 129 ELSE 0

\* A datagram is a record of its family, source, length and bytes, and of the
\* request it answers, which the pinger does not see; NoRequest if it answers none.
NoRequest == -1

VARIABLES
    stage,      \* how far the pinger has come
    pinger,     \* sockfd, family and sequence
    filtered,   \* the socket filter is attached
    order,      \* the byte order of the host
    horizon,    \* the bounds of this behaviour
    send_buf,   \* the part of the buffer that is sent
    expected,   \* the sequence number of the outstanding request, or 0
    wire,       \* the last packet that left
    queue,      \* the receive queue of the socket
    dropped,    \* the last datagram that the filter dropped
    verdict,    \* the last datagram that was read, and what came of it
    sends, arrivals

vars == <<stage, pinger, filtered, order, horizon, send_buf, expected,
          wire, queue, dropped, verdict, sends, arrivals>>
setup == <<filtered, order, horizon>>

-----------------------------------------------------------------------------
(* Bytes and words.                                                        *)

\* The bytes of one array written over another from an offset on.
Overwrite(array, at, bytes) ==
    [i \in DOMAIN array |-> IF (i - at) \in DOMAIN bytes THEN bytes[i - at] ELSE array[i]]

\* ntohs of the two bytes at an offset, and the bytes htons leaves in memory.
ntohs(array, at) == array[at] * 256 + array[at + 1]
htons(word) == [i \in 0..1 |-> IF i = 0 THEN word \div 256 ELSE word % 256]

\* A uint16_t in memory, in the byte order of the host.
Native(array, at) ==
    IF order = "big" THEN ntohs(array, at) ELSE array[at] + array[at + 1] * 256
NativeBytes(word) ==
    [i \in 0..1 |-> IF (i = 0) = (order = "big") THEN word \div 256 ELSE word % 256]

\* while (sum >> 16) sum = (sum & 0xFFFF) + (sum >> 16)
folded[sum \in Nat] ==
    IF sum < 65536 THEN sum ELSE folded[(sum % 65536) + (sum \div 65536)]

\* sum += word, from the first word on: the sum of the first n words.
SumOfFirst(words) ==
    LET sum[n \in Nat] == IF n = 0 THEN 0 ELSE sum[n - 1] + words[n - 1] IN sum

calculate_checksum(array, len) ==
    LET words == [i \in 0..(len \div 2 - 1) |-> Native(array, 2 * i)]
        last == IF len % 2 = 1 THEN array[len - 1] ELSE 0
    IN  65535 - folded[SumOfFirst(words)[len \div 2] + last]

-----------------------------------------------------------------------------
(* The datagrams others make.                                              *)

HeaderWords == 5..15    \* the lengths of an IP header, in 32-bit words

\* Where the ICMP message of a datagram can begin.
HeaderEnds(family) == IF family = "inet6" THEN {0} ELSE {4 * w : w \in HeaderWords}

\* An echo reply with our identifier, by its bytes.
IsReply(datagram, at) ==
    /\ at + ICMP_HEADER <= datagram.length
    /\ datagram.family = "inet" => /\ (datagram.bytes[0] % 16) * 4 = at
                                   /\ datagram.bytes[9] = IPPROTO_ICMP
    /\ datagram.bytes[at] = EchoReply(datagram.family)
    /\ ntohs(datagram.bytes, at + 4) = Identifier

\* A datagram answers what its bytes say.
Honest(datagram) ==
    \/ /\ datagram.answers = NoRequest
       /\ \A at \in HeaderEnds(datagram.family) : ~IsReply(datagram, at)
    \/ /\ datagram.answers \in Nat
       /\ \E at \in HeaderEnds(datagram.family) :
             IsReply(datagram, at) /\ datagram.answers = ntohs(datagram.bytes, at + 6)

ASSUME SizeAssumption ==
    /\ PACKET_SIZE \in Nat /\ PACKET_SIZE >= ICMP_HEADER
    /\ RECV_SIZE \in Nat /\ RECV_SIZE >= 60 + ICMP_HEADER
    /\ Families \subseteq {"inet", "inet6"} /\ ByteOrders \subseteq {"little", "big"}
    /\ Identifier \in Nat
    /\ EchoWords \subseteq HeaderWords

ASSUME ForeignAssumption ==
    \A datagram \in Foreign :
        /\ datagram.source \in {"target", "other"} /\ datagram.length \in Nat
        /\ \A i \in 0..(datagram.length - 1) : datagram.bytes[i] \in Nat
        /\ Honest(datagram)

-----------------------------------------------------------------------------
(* icmp_pinger_init, monitor_prepare_packet, icmp_pinger_send_echo.         *)

Init ==
    /\ stage = "start"
    /\ pinger \in [sockfd : {"none"}, family : Families, sequence : {0}]
    /\ filtered = FALSE /\ order \in ByteOrders /\ horizon \in Horizons
    /\ send_buf = [i \in 0..(PACKET_SIZE - 1) |-> 0]
    /\ expected = 0 /\ wire = <<>> /\ queue = <<>> /\ dropped = {}
    /\ verdict = [status |-> "none", source |-> "target", answers |-> NoRequest, expected |-> 0]
    /\ sends = 0 /\ arrivals = 0

\* The socket may be refused; a filter that cannot be attached is done without.
icmp_pinger_init ==
    /\ stage = "start"
    /\ \/ /\ stage' = "open" /\ pinger' = [pinger EXCEPT !.sockfd = "open"]
          /\ filtered' \in BOOLEAN
       \/ stage' = "closed" /\ UNCHANGED <<pinger, filtered>>
    /\ UNCHANGED <<order, horizon, send_buf, expected, wire, queue,
                   dropped, verdict, sends, arrivals>>

monitor_prepare_packet ==
    /\ stage = "open" /\ stage' = "running"
    /\ send_buf' = [i \in DOMAIN send_buf |->
                        IF i < ICMP_HEADER THEN send_buf[i] ELSE (i - ICMP_HEADER) % 256]
    /\ UNCHANGED <<pinger, setup, expected, wire, queue, dropped, verdict,
                   sends, arrivals>>

\* Seeded fault: the old checksum is still in the header when the sum is made.
ChecksumNotCleared(type, sequence) ==
    [i \in 0..(ICMP_HEADER - 1) |->
        IF i = 0 THEN type ELSE IF i < 4 THEN send_buf[i]
        ELSE IF i < 6 THEN htons(Identifier)[i - 4] ELSE htons(sequence)[i - 6]]

\* The header memset to 0, with type, identifier and sequence in their places.
EchoHeader(type, sequence) ==
    Overwrite(Overwrite([i \in 0..(ICMP_HEADER - 1) |-> IF i = 0 THEN type ELSE 0],
                        4, htons(Identifier)), 6, htons(sequence))

\* The kernel makes the checksum of an ICMPv6 packet.
EchoPacket(sequence) ==
    LET packet == Overwrite(send_buf, 0, EchoHeader(EchoRequest(pinger.family), sequence))
    IN  IF pinger.family = "inet6" THEN packet
        ELSE Overwrite(packet, 2, NativeBytes(calculate_checksum(packet, PACKET_SIZE)))

\* Sequence number and buffer have changed even if sendto fails or is short.
icmp_pinger_send_echo ==
    /\ stage = "running" /\ sends < horizon.sends /\ sends' = sends + 1
    /\ LET sequence == next_sequence(pinger.sequence)
           packet == EchoPacket(sequence)
       IN  /\ pinger' = [pinger EXCEPT !.sequence = sequence]
           /\ send_buf' = packet
           /\ \/ wire' = packet /\ expected' = sequence /\ UNCHANGED stage
              \/ stage' = "failed" /\ UNCHANGED <<wire, expected>>
    /\ UNCHANGED <<setup, queue, dropped, verdict, arrivals>>

\* The reply deadline passes: monitor_ping_clear.
ProbeMissed ==
    /\ stage = "running" /\ expected # 0 /\ expected' = 0
    /\ UNCHANGED <<stage, pinger, setup, send_buf, wire, queue, dropped,
                   verdict, sends, arrivals>>

icmp_pinger_destroy ==
    /\ stage \in {"running", "failed"} /\ stage' = "closed"
    /\ pinger' = [pinger EXCEPT !.sockfd = "none"] /\ queue' = <<>>
    /\ UNCHANGED <<setup, send_buf, expected, wire, dropped, verdict, sends, arrivals>>

-----------------------------------------------------------------------------
(* The socket: what reaches it, and the filter icmp_pinger_init attaches.  *)

\* The one's-complement sum over a packet that carries its own checksum.
ChecksumValid(packet) == calculate_checksum(packet, PACKET_SIZE) = 0

\* The target answers a sound request with its own bytes, as another type; an
\* IPv4 reply comes behind an IP header of some 32-bit words, options included.
EchoOf(packet, words) ==
    LET header == IF pinger.family = "inet6" THEN 0 ELSE 4 * words
        bytes == [i \in 0..(header + PACKET_SIZE - 1) |->
                     IF i = header THEN EchoReply(pinger.family)
                     ELSE IF i > header THEN packet[i - header]
                     ELSE CASE i = 0 -> 64 + words [] i = 9 -> IPPROTO_ICMP
                            [] i >= IP_HEADER -> IPOPT_NOP [] OTHER -> 0]
    IN  [family |-> pinger.family, source |-> "target", length |-> header + PACKET_SIZE,
         bytes |-> bytes, answers |-> ntohs(packet, 6)]

Echoes == IF wire = <<>> THEN {} ELSE {EchoOf(wire, words) : words \in EchoWords}

\* Seeded fault: the type is looked for behind an IP header without options.
FixedHeaderFilter(datagram) ==
    LET at == IF pinger.family = "inet6" THEN 0 ELSE IP_HEADER
    IN  at < datagram.length /\ datagram.bytes[at] = EchoReply(pinger.family)

\* A load beyond the datagram rejects it.
FilterPasses(datagram) ==
    /\ datagram.length > 0
    /\ LET at == IF pinger.family = "inet6" THEN 0 ELSE (datagram.bytes[0] % 16) * 4
       IN  at < datagram.length /\ datagram.bytes[at] = EchoReply(pinger.family)

Arrive(datagram) ==
    /\ pinger.sockfd = "open" /\ datagram.family = pinger.family
    /\ arrivals < horizon.datagrams /\ arrivals' = arrivals + 1
    /\ IF filtered /\ ~FilterPasses(datagram)
       THEN dropped' = {datagram} /\ UNCHANGED queue
       ELSE queue' = Append(queue, datagram) /\ UNCHANGED dropped
    /\ UNCHANGED <<stage, pinger, setup, send_buf, expected, wire, verdict, sends>>

-----------------------------------------------------------------------------
(* icmp_pinger_receive_reply.                                              *)

\* Seeded fault: the datagram is not known to reach to the end of the header.
ShortReplyParsed(array, received) ==
    /\ received >= IP_HEADER /\ array[9] = IPPROTO_ICMP
    /\ LET at == (array[0] % 16) * 4
       IN  /\ at >= IP_HEADER /\ at <= received
           /\ array[at] = EchoReply("inet")
           /\ ntohs(array, at + 4) = Identifier /\ ntohs(array, at + 6) = expected

parse_ipv4_reply(array, received) ==
    /\ received >= IP_HEADER /\ array[9] = IPPROTO_ICMP
    /\ LET at == (array[0] % 16) * 4
       IN  /\ at >= IP_HEADER /\ at + ICMP_HEADER <= received
           /\ array[at] = EchoReply("inet")
           /\ ntohs(array, at + 4) = Identifier /\ ntohs(array, at + 6) = expected

parse_ipv6_reply(array, received) ==
    /\ received >= ICMP_HEADER
    /\ array[0] = EchoReply("inet6")
    /\ ntohs(array, 4) = Identifier /\ ntohs(array, 6) = expected

\* recv_buf is on the stack: behind what was received it holds any old bytes.
Received(datagram, old) ==
    [i \in 0..(RECV_SIZE - 1) |->
        IF i < datagram.length THEN datagram.bytes[i]
        ELSE IF i < old.length THEN old.bytes[i] ELSE 0]

Matches(datagram, old) ==
    LET received == IF datagram.length < RECV_SIZE THEN datagram.length ELSE RECV_SIZE
        recv_buf == Received(datagram, old)
    IN  /\ received > 0 /\ datagram.source = "target"
        /\ IF pinger.family = "inet6" THEN parse_ipv6_reply(recv_buf, received)
           ELSE parse_ipv4_reply(recv_buf, received)

\* A match counts only while a request is outstanding, and ends it.
icmp_pinger_receive_reply ==
    /\ stage = "running" /\ queue # <<>> /\ queue' = Tail(queue)
    /\ \E old \in Foreign \cup Echoes :
          LET matched == Matches(Head(queue), old)
          IN  /\ verdict' = [status |-> IF matched THEN "matched" ELSE "ignored",
                             source |-> Head(queue).source, answers |-> Head(queue).answers,
                             expected |-> expected]
              /\ expected' = IF matched THEN 0 ELSE expected
    /\ UNCHANGED <<stage, pinger, setup, send_buf, wire, dropped, sends, arrivals>>

\* recvfrom fails, and the caller gives up.
ReceiveFailed ==
    /\ stage = "running" /\ stage' = "failed" /\ expected' = 0
    /\ UNCHANGED <<pinger, setup, send_buf, wire, queue, dropped, verdict,
                   sends, arrivals>>

Next ==
    \/ icmp_pinger_init \/ monitor_prepare_packet
    \/ icmp_pinger_send_echo \/ ProbeMissed \/ icmp_pinger_destroy
    \/ \E datagram \in Foreign \cup Echoes : Arrive(datagram)
    \/ icmp_pinger_receive_reply \/ ReceiveFailed

Spec == Init /\ [][Next]_vars

-----------------------------------------------------------------------------
(* Properties.                                                             *)

\* What leaves is an echo request the target will answer, whatever the reused
\* buffer held before: the outstanding request can be told from an idle pinger,
\* and an IPv4 packet carries a right checksum.
RequestsAreSound ==
    wire # <<>> =>
        /\ wire[0] = EchoRequest(pinger.family) /\ wire[1] = 0
        /\ ntohs(wire, 4) = Identifier /\ ntohs(wire, 6) \in 1..SEQ_MAX
        /\ expected # 0 => ntohs(wire, 6) = expected
        /\ \A i \in ICMP_HEADER..(PACKET_SIZE - 1) : wire[i] = (i - ICMP_HEADER) % 256
        /\ pinger.family = "inet" => ChecksumValid(wire)

\* No request carries the number of the one before it, also when the numbers wrap,
\* so that a late or duplicated reply to that one is not taken for its own.
RequestsDiffer ==
    [][sends' # sends /\ wire # <<>> /\ stage' = "running" =>
           ntohs(wire', 6) # ntohs(wire, 6)]_vars

\* A datagram matches exactly if the target made it as a reply to the request with
\* the expected number: whatever header it has, wherever it is cut off, and
\* whatever the stack holds behind it.  With nothing outstanding that is number 0,
\* which no request carries; icmp_pinger_receive_reply leaves it to its caller,
\* which tests ping.waiting, to do nothing then.
JudgedRightly ==
    verdict.status # "none" =>
        (verdict.status = "matched" <=>
            verdict.source = "target" /\ verdict.answers = verdict.expected)

\* The socket filter, an optimisation, drops nothing that answers a request.
FilterIsTransparent == \A datagram \in dropped : datagram.answers = NoRequest

=============================================================================
