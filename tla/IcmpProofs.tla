----------------------------- MODULE IcmpProofs -----------------------------
(***************************************************************************)
(* Whatever datagrams others make, the pinger takes one for the reply to   *)
(* its request exactly if it is one, and the socket filter drops no reply. *)
(* Whatever the reused buffer held, each request that leaves is sound, its *)
(* checksum included: the recursive functions that compute it are shown to *)
(* be defined, and to be what they should, by least counterexamples.       *)
(***************************************************************************)
EXTENDS Icmp, WellFoundedInduction, TLAPS

\* A datagram that may be in the socket: honest, and of the socket's family.
Sound(datagram) ==
    /\ datagram.family = pinger.family
    /\ datagram.length \in Nat
    /\ datagram.length > 0 => datagram.bytes[0] \in Nat
    /\ Honest(datagram)

PingerInv ==
    /\ pinger \in [sockfd : {"none", "open"}, family : {"inet", "inet6"}, sequence : 0..SEQ_MAX]
    /\ expected \in 0..SEQ_MAX

\* The part of a request that a reply repeats.
WireInv ==
    wire # <<>> =>
        ntohs(wire, 4) = Identifier /\ ntohs(wire, 6) \in 1..SEQ_MAX

\* The buffer keeps its size; what it holds does not matter.
BufferInv == DOMAIN send_buf = 0..(PACKET_SIZE - 1)

SocketInv ==
    /\ \E sound : queue \in Seq(sound) /\ \A datagram \in sound : Sound(datagram)
    /\ \A datagram \in dropped : Sound(datagram) /\ ~FilterPasses(datagram)

\* The inductive invariant.
IcmpInv == PingerInv /\ BufferInv /\ WireInv /\ SocketInv /\ JudgedRightly

-----------------------------------------------------------------------------
(* Lemmas about the bytes.                                                 *)

\* The bytes received are the datagram's, as far as it and the buffer reach.
LEMMA ReceivedBytes ==
    ASSUME NEW datagram, NEW old, datagram.length \in Nat,
           NEW i \in 0..(RECV_SIZE - 1), i < datagram.length
    PROVE  Received(datagram, old)[i] = datagram.bytes[i]
BY DEF Received

\* What an honest datagram answers, when a message can begin in one place only.
LEMMA AnswerIsRead ==
    ASSUME NEW datagram, Honest(datagram), NEW at, NEW sequence, sequence # NoRequest,
           \A end \in HeaderEnds(datagram.family) : IsReply(datagram, end) => end = at
    PROVE  datagram.answers = sequence <=>
               /\ at \in HeaderEnds(datagram.family) /\ IsReply(datagram, at)
               /\ ntohs(datagram.bytes, at + 6) = sequence
<1>1. CASE /\ datagram.answers = NoRequest
           /\ \A end \in HeaderEnds(datagram.family) : ~IsReply(datagram, end)
  BY <1>1
<1>2. CASE \E end \in HeaderEnds(datagram.family) :
              IsReply(datagram, end) /\ datagram.answers = ntohs(datagram.bytes, end + 6)
  <2>1. PICK end \in HeaderEnds(datagram.family) :
              IsReply(datagram, end) /\ datagram.answers = ntohs(datagram.bytes, end + 6)
    BY <1>2
  <2>2. end = at
    BY <2>1
  <2> QED BY <2>1, <2>2
<1> QED BY <1>1, <1>2 DEF Honest

\* The parsers accept a sound datagram exactly if it answers the request, for
\* any old bytes in the receive buffer.
LEMMA MatchesIsReply ==
    ASSUME PingerInv, NEW datagram, NEW old, Sound(datagram)
    PROVE  Matches(datagram, old) <=>
               datagram.source = "target" /\ datagram.answers = expected
<1> DEFINE received == IF datagram.length < RECV_SIZE THEN datagram.length ELSE RECV_SIZE
           recv_buf == Received(datagram, old)
<1>1. /\ received \in Nat /\ received <= datagram.length /\ datagram.length \in Nat
      /\ \A n \in 0..68 : n <= datagram.length => n <= received
      /\ \A i \in 0..67 : i < datagram.length => recv_buf[i] = datagram.bytes[i]
  <2>1. datagram.length \in Nat /\ RECV_SIZE \in Nat /\ RECV_SIZE >= 68
    BY SizeAssumption DEF Sound, ICMP_HEADER
  <2>2. \A i \in 0..67 : i < datagram.length => recv_buf[i] = datagram.bytes[i]
    <3> SUFFICES ASSUME NEW i \in 0..67, i < datagram.length
                 PROVE  recv_buf[i] = datagram.bytes[i]
      OBVIOUS
    <3>1. i \in 0..(RECV_SIZE - 1)
      BY <2>1
    <3> QED BY <2>1, <3>1, ReceivedBytes
  <2> HIDE DEF recv_buf
  <2> QED BY <2>1, <2>2
<1>2. expected # NoRequest /\ expected \in Nat
  BY WidthAssumption DEF PingerInv, NoRequest
<1>3. CASE pinger.family = "inet6"
  <2>1. IsReply(datagram, 0) <=>
            /\ 8 <= datagram.length /\ datagram.bytes[0] = 129
            /\ datagram.bytes[4] * 256 + datagram.bytes[5] = Identifier
    BY <1>3 DEF IsReply, Sound, ntohs, ICMP_HEADER, EchoReply
  <2>2. 8 <= received <=> 8 <= datagram.length
    BY <1>1
  <2>3. 8 <= datagram.length =>
            /\ recv_buf[0] = datagram.bytes[0]
            /\ recv_buf[4] = datagram.bytes[4] /\ recv_buf[5] = datagram.bytes[5]
            /\ recv_buf[6] = datagram.bytes[6] /\ recv_buf[7] = datagram.bytes[7]
    BY <1>1
  <2> HIDE DEF recv_buf, received
  <2>4. parse_ipv6_reply(recv_buf, received) <=>
            /\ 8 <= received /\ recv_buf[0] = 129
            /\ recv_buf[4] * 256 + recv_buf[5] = Identifier
            /\ recv_buf[6] * 256 + recv_buf[7] = expected
    BY <1>1 DEF parse_ipv6_reply, ntohs, ICMP_HEADER, EchoReply
  <2>5. ntohs(datagram.bytes, 6) = datagram.bytes[6] * 256 + datagram.bytes[7]
    BY DEF ntohs
  <2>6. parse_ipv6_reply(recv_buf, received) <=>
            IsReply(datagram, 0) /\ ntohs(datagram.bytes, 6) = expected
    BY <2>1, <2>2, <2>3, <2>4, <2>5
  <2>7. HeaderEnds(datagram.family) = {0}
    BY <1>3 DEF HeaderEnds, Sound
  <2>8. datagram.answers = expected <=>
            IsReply(datagram, 0) /\ ntohs(datagram.bytes, 6) = expected
    <3>1. ntohs(datagram.bytes, 0 + 6) = ntohs(datagram.bytes, 6)
      OBVIOUS
    <3>2. \A end \in HeaderEnds(datagram.family) : IsReply(datagram, end) => end = 0
      BY <2>7
    <3>3. datagram.answers = expected <=>
              /\ 0 \in HeaderEnds(datagram.family) /\ IsReply(datagram, 0)
              /\ ntohs(datagram.bytes, 0 + 6) = expected
      BY <1>2, <3>2, AnswerIsRead DEF Sound
    <3> QED BY <2>7, <3>1, <3>3
  <2>9. IsReply(datagram, 0) => received > 0
    BY <1>1, <2>1, <2>2
  <2>10. Matches(datagram, old) <=>
            received > 0 /\ datagram.source = "target" /\ parse_ipv6_reply(recv_buf, received)
    BY <1>3 DEF Matches, recv_buf, received
  <2> QED BY <2>6, <2>8, <2>9, <2>10
<1>4. CASE pinger.family = "inet"
  <2> DEFINE at == (datagram.bytes[0] % 16) * 4
  <2>1. datagram.length > 0 => at \in {4 * w : w \in 0..15}
    BY <1>1 DEF Sound
  <2>2. \A a \in {4 * w : w \in 0..15} : a >= 20 <=> a \in HeaderEnds("inet")
    BY DEF HeaderEnds, HeaderWords
  <2> HIDE DEF at
  <2>3. ASSUME at \in HeaderEnds("inet"), at + 8 <= datagram.length
        PROVE  /\ recv_buf[9] = datagram.bytes[9] /\ recv_buf[at] = datagram.bytes[at]
               /\ ntohs(recv_buf, at + 4) = ntohs(datagram.bytes, at + 4)
               /\ ntohs(recv_buf, at + 6) = ntohs(datagram.bytes, at + 6)
               /\ at + 8 <= received
    <3>1. at \in 20..60
      BY <2>3 DEF HeaderEnds, HeaderWords
    <3>2. /\ at + 4 + 1 = at + 5 /\ at + 6 + 1 = at + 7
          /\ {9, at, at + 4, at + 5, at + 6, at + 7} \subseteq 0..67
      BY <3>1
    <3>3. /\ 9 < datagram.length /\ at < datagram.length /\ at + 4 < datagram.length
          /\ at + 5 < datagram.length /\ at + 6 < datagram.length /\ at + 7 < datagram.length
      BY <1>1, <2>3, <3>1
    <3>4. at + 8 <= received
      BY <1>1, <2>3, <3>1
    <3> HIDE DEF recv_buf
    <3>5. /\ recv_buf[9] = datagram.bytes[9] /\ recv_buf[at] = datagram.bytes[at]
          /\ recv_buf[at + 4] = datagram.bytes[at + 4] /\ recv_buf[at + 5] = datagram.bytes[at + 5]
          /\ recv_buf[at + 6] = datagram.bytes[at + 6] /\ recv_buf[at + 7] = datagram.bytes[at + 7]
      BY <1>1, <3>2, <3>3
    <3> QED BY <3>2, <3>4, <3>5 DEF ntohs
  <2>4. datagram.length > 0 => recv_buf[0] = datagram.bytes[0]
    BY <1>1
  <2> HIDE DEF recv_buf, received
  <2>5. parse_ipv4_reply(recv_buf, received) <=>
            /\ received >= 20 /\ recv_buf[9] = 1
            /\ (recv_buf[0] % 16) * 4 >= 20 /\ (recv_buf[0] % 16) * 4 + 8 <= received
            /\ recv_buf[(recv_buf[0] % 16) * 4] = 0
            /\ ntohs(recv_buf, (recv_buf[0] % 16) * 4 + 4) = Identifier
            /\ ntohs(recv_buf, (recv_buf[0] % 16) * 4 + 6) = expected
    BY DEF parse_ipv4_reply, IP_HEADER, ICMP_HEADER, IPPROTO_ICMP, EchoReply
  <2>6. IsReply(datagram, at) <=>
            /\ at + 8 <= datagram.length /\ datagram.bytes[9] = 1
            /\ datagram.bytes[at] = 0 /\ ntohs(datagram.bytes, at + 4) = Identifier
    BY <1>4 DEF IsReply, Sound, at, ICMP_HEADER, IPPROTO_ICMP, EchoReply
  <2>7. at \in HeaderEnds("inet") => at \in 20..60
    BY DEF HeaderEnds, HeaderWords
  <2>8. parse_ipv4_reply(recv_buf, received) =>
            /\ at \in HeaderEnds("inet") /\ at + 8 <= datagram.length
    <3> SUFFICES ASSUME parse_ipv4_reply(recv_buf, received)
                 PROVE  at \in HeaderEnds("inet") /\ at + 8 <= datagram.length
      OBVIOUS
    <3>1. datagram.length > 0
      BY <1>1, <2>5
    <3>2. at = (recv_buf[0] % 16) * 4
      BY <2>4, <3>1 DEF at
    <3>3. at \in HeaderEnds("inet")
      BY <2>1, <2>2, <2>5, <3>1, <3>2
    <3> QED BY <1>1, <2>5, <2>7, <3>2, <3>3
  <2>9. at \in HeaderEnds("inet") /\ at + 8 <= datagram.length =>
            (parse_ipv4_reply(recv_buf, received) <=>
                IsReply(datagram, at) /\ ntohs(datagram.bytes, at + 6) = expected)
    <3> SUFFICES ASSUME at \in HeaderEnds("inet"), at + 8 <= datagram.length
                 PROVE  parse_ipv4_reply(recv_buf, received) <=>
                            IsReply(datagram, at) /\ ntohs(datagram.bytes, at + 6) = expected
      OBVIOUS
    <3>1. datagram.length > 0 /\ received >= 20 /\ at >= 20
      BY <1>1, <2>3, <2>7
    <3>2. at = (recv_buf[0] % 16) * 4
      BY <2>4, <3>1 DEF at
    <3> QED BY <2>3, <2>5, <2>6, <3>1, <3>2
  <2>10. datagram.answers = expected <=>
            /\ at \in HeaderEnds("inet")
            /\ IsReply(datagram, at) /\ ntohs(datagram.bytes, at + 6) = expected
    <3>1. \A end \in HeaderEnds("inet") : IsReply(datagram, end) => end = at
      BY <1>4 DEF IsReply, Sound, at
    <3>2. datagram.family = "inet"
      BY <1>4 DEF Sound
    <3> QED BY <1>2, <3>1, <3>2, AnswerIsRead DEF Sound
  <2>11. Matches(datagram, old) <=>
            received > 0 /\ datagram.source = "target" /\ parse_ipv4_reply(recv_buf, received)
    BY <1>4 DEF Matches, recv_buf, received
  <2>12. parse_ipv4_reply(recv_buf, received) => received > 0
    BY <1>1, <2>5
  <2> QED BY <2>6, <2>8, <2>9, <2>10, <2>11, <2>12
<1> QED BY <1>3, <1>4 DEF PingerInv

\* The socket filter passes every reply.
LEMMA FilterPassesReplies ==
    ASSUME PingerInv, NEW datagram, Sound(datagram), datagram.answers # NoRequest
    PROVE  FilterPasses(datagram)
<1>1. PICK at \in HeaderEnds(datagram.family) : IsReply(datagram, at)
  BY DEF Sound, Honest
<1>2. /\ datagram.length \in Nat /\ at \in Nat /\ at + 8 <= datagram.length
      /\ datagram.bytes[at] = EchoReply(pinger.family)
  BY <1>1 DEF Sound, IsReply, HeaderEnds, HeaderWords, ICMP_HEADER
<1>3. CASE pinger.family = "inet6"
  <2>1. at = 0
    BY <1>3 DEF Sound, HeaderEnds
  <2> QED BY <1>2, <1>3, <2>1 DEF FilterPasses
<1>4. CASE pinger.family = "inet"
  <2>1. (datagram.bytes[0] % 16) * 4 = at
    BY <1>1, <1>4 DEF Sound, IsReply
  <2> QED BY <1>2, <1>4, <2>1 DEF FilterPasses
<1> QED BY <1>3, <1>4 DEF PingerInv

\* A reply of the target is sound, whatever the length of its IP header.
LEMMA EchoIsSound ==
    ASSUME PingerInv, WireInv, wire # <<>>, NEW words \in HeaderWords
    PROVE  Sound(EchoOf(wire, words))
<1> DEFINE echo == EchoOf(wire, words)
           at == IF pinger.family = "inet6" THEN 0 ELSE 4 * words
<1>1. /\ at \in Nat /\ PACKET_SIZE \in Nat /\ PACKET_SIZE >= 8
      /\ at \in HeaderEnds(pinger.family)
      /\ pinger.family = "inet" => at \in 20..60
  BY SizeAssumption DEF HeaderWords, HeaderEnds, ICMP_HEADER, PingerInv
<1>2. /\ echo.family = pinger.family /\ echo.length = at + PACKET_SIZE
      /\ echo.answers = ntohs(wire, 6)
  BY DEF EchoOf
<1> DEFINE packet == [i \in 0..(at + PACKET_SIZE - 1) |->
                     IF i = at THEN EchoReply(pinger.family)
                     ELSE IF i > at THEN wire[i - at]
                     ELSE CASE i = 0 -> 64 + words [] i = 9 -> IPPROTO_ICMP
                            [] i >= IP_HEADER -> IPOPT_NOP [] OTHER -> 0]
<1>9. echo.bytes = packet
  BY DEF EchoOf
<1> HIDE DEF echo, packet, at
<1>3. /\ echo.bytes[at] = EchoReply(pinger.family)
      /\ echo.bytes[at + 4] = wire[4] /\ echo.bytes[at + 5] = wire[5]
      /\ echo.bytes[at + 6] = wire[6] /\ echo.bytes[at + 7] = wire[7]
  <2>1. \A k \in 1..7 : packet[at + k] = wire[k]
    <3> TAKE k \in 1..7
    <3>1. at + k \in 0..(at + PACKET_SIZE - 1) /\ at + k > at /\ (at + k) - at = k
      BY <1>1
    <3> QED BY <3>1 DEF packet
  <2>2. packet[at] = EchoReply(pinger.family)
    BY <1>1 DEF packet
  <2> QED BY <1>9, <2>1, <2>2
<1>4. /\ at + 4 + 1 = at + 5 /\ at + 6 + 1 = at + 7
      /\ ntohs(echo.bytes, at + 4) = ntohs(wire, 4)
      /\ ntohs(echo.bytes, at + 6) = ntohs(wire, 6)
  BY <1>1, <1>3 DEF ntohs
<1>5. pinger.family = "inet" =>
        /\ echo.bytes[0] = 64 + words /\ echo.bytes[9] = IPPROTO_ICMP
        /\ (echo.bytes[0] % 16) * 4 = at
  <2> SUFFICES ASSUME pinger.family = "inet"
               PROVE  /\ echo.bytes[0] = 64 + words /\ echo.bytes[9] = IPPROTO_ICMP
                      /\ (echo.bytes[0] % 16) * 4 = at
    OBVIOUS
  <2>1. packet[0] = 64 + words /\ packet[9] = IPPROTO_ICMP
    <3>1. /\ 0 \in 0..(at + PACKET_SIZE - 1) /\ 0 # at /\ ~(0 > at)
          /\ 9 \in 0..(at + PACKET_SIZE - 1) /\ 9 # at /\ ~(9 > at) /\ ~(9 >= 20)
      BY <1>1
    <3> QED BY <3>1 DEF packet, IP_HEADER
  <2>2. (64 + words) % 16 = words
    BY DEF HeaderWords
  <2>3. at = 4 * words /\ words \in Int
    BY DEF at, HeaderWords
  <2> QED BY <1>9, <2>1, <2>2, <2>3
<1>6. IsReply(echo, at) /\ echo.answers = ntohs(echo.bytes, at + 6)
  <2>1. at + ICMP_HEADER <= echo.length
    BY <1>1, <1>2 DEF ICMP_HEADER
  <2> QED BY <1>2, <1>3, <1>4, <1>5, <2>1 DEF IsReply, WireInv
<1>7. echo.answers \in Nat
  <2>1. ntohs(wire, 6) \in 1..SEQ_MAX
    BY DEF WireInv
  <2> QED BY <1>2, <2>1, WidthAssumption
<1>8. echo.length > 0 => echo.bytes[0] \in Nat
  <2>1. CASE pinger.family = "inet6"
    BY <1>3, <2>1 DEF at, EchoReply
  <2>2. CASE pinger.family = "inet"
    BY <1>5, <2>2 DEF HeaderWords
  <2> QED BY <2>1, <2>2 DEF PingerInv
<1>10. echo.length \in Nat
  BY <1>1, <1>2
<1> QED BY <1>1, <1>2, <1>6, <1>7, <1>8, <1>10 DEF Sound, Honest, echo

-----------------------------------------------------------------------------
(* Recursive functions of the naturals: that they exist, by the least      *)
(* number for which they would not.                                        *)

\* A set of naturals that is not empty has a least member.
LEMMA LeastMember ==
    ASSUME NEW T, T \subseteq Nat, T # {}
    PROVE  \E m \in T : \A k \in T : m <= k
<1> DEFINE R == {pair \in Nat \X Nat : pair[1] < pair[2]}
<1>1. IsWellFoundedOn(R, Nat)
  BY NatLessThanWellFounded DEF OpToRel
<1>2. PICK m \in T : \A k \in T : <<k, m>> \notin R
  <2> HIDE DEF R
  <2> QED BY <1>1, WFMin
<1>3. \A k \in T : ~(k < m)
  <2> TAKE k \in T
  <2>1. <<k, m>>[1] = k /\ <<k, m>>[2] = m /\ <<k, m>> \in Nat \X Nat
    OBVIOUS
  <2> QED BY <1>2, <2>1
<1> QED BY <1>3

\* A function of the naturals that adds to its value at a smaller number.
Recurs(g, D, base, less, add) ==
    g = [i \in D |-> IF less[i] = i THEN base[i] ELSE g[less[i]] + add[i]]

\* Two such functions agree as far as both reach.
LEMMA RecursionUnique ==
    ASSUME NEW base, NEW less, NEW add, \A i \in Nat : less[i] \in 0..i,
           NEW n \in Nat, NEW m \in Nat, NEW g, NEW h,
           Recurs(g, 0..n, base, less, add), Recurs(h, 0..m, base, less, add),
           NEW i \in Nat, i <= n, i <= m
    PROVE  g[i] = h[i]
<1> DEFINE T == {k \in Nat : k <= n /\ k <= m /\ g[k] # h[k]}
<1>1. SUFFICES ASSUME T # {} PROVE FALSE
  OBVIOUS
<1>2. PICK k \in T : \A j \in T : k <= j
  <2> HIDE DEF T
  <2>1. T \subseteq Nat
    BY DEF T
  <2> QED BY <1>1, <2>1, LeastMember
<1>3. k \in 0..n /\ k \in 0..m /\ g[k] # h[k] /\ less[k] \in 0..k
  OBVIOUS
<1>4. /\ g[k] = IF less[k] = k THEN base[k] ELSE g[less[k]] + add[k]
      /\ h[k] = IF less[k] = k THEN base[k] ELSE h[less[k]] + add[k]
  BY <1>3 DEF Recurs
<1>5. CASE less[k] = k
  BY <1>3, <1>4, <1>5
<1>6. CASE less[k] # k
  <2>1. less[k] \in Nat /\ less[k] < k
    BY <1>3, <1>6
  <2>2. g[less[k]] = h[less[k]]
    BY <1>2, <1>3, <2>1
  <2> QED BY <1>3, <1>4, <1>6, <2>2
<1> QED BY <1>5, <1>6

\* There is one up to every number.
LEMMA RecursionBounded ==
    ASSUME NEW base, NEW less, NEW add, \A i \in Nat : less[i] \in 0..i, NEW n \in Nat
    PROVE  \E g : Recurs(g, 0..n, base, less, add)
<1> DEFINE T == {k \in Nat : ~ \E g : Recurs(g, 0..k, base, less, add)}
<1>1. SUFFICES ASSUME T # {} PROVE FALSE
  OBVIOUS
<1>2. PICK k \in T : \A j \in T : k <= j
  <2> HIDE DEF T
  <2>1. T \subseteq Nat
    BY DEF T
  <2> QED BY <1>1, <2>1, LeastMember
<1>3. k \in Nat /\ ~ \E g : Recurs(g, 0..k, base, less, add)
  OBVIOUS
<1>4. ASSUME NEW g, \A i \in 0..(k - 1) :
                        g[i] = IF less[i] = i THEN base[i] ELSE g[less[i]] + add[i]
      PROVE  FALSE
  <2> DEFINE more == [i \in 0..k |-> IF i < k THEN g[i]
                          ELSE IF less[k] = k THEN base[k] ELSE g[less[k]] + add[k]]
  <2>1. \A i \in 0..k : more[i] = IF less[i] = i THEN base[i] ELSE more[less[i]] + add[i]
    <3> TAKE i \in 0..k
    <3>1. less[i] \in 0..i /\ less[i] \in 0..k /\ i \in Nat /\ k \in Nat
      BY <1>3
    <3>2. CASE i < k
      <4>1. more[i] = g[i] /\ more[less[i]] = g[less[i]] /\ i \in 0..(k - 1)
        BY <3>1, <3>2
      <4> QED BY <1>4, <4>1
    <3>3. CASE i = k
      BY <3>1, <3>3
    <3> QED BY <3>1, <3>2, <3>3
  <2>2. Recurs(more, 0..k, base, less, add)
    <3>1. more = [i \in 0..k |-> more[i]]
      OBVIOUS
    <3> HIDE DEF more
    <3> QED BY <2>1, <3>1 DEF Recurs
  <2> QED BY <1>3, <2>2
<1>5. CASE k = 0
  <2>1. \A i \in 0..(k - 1) : FALSE
    BY <1>5
  <2> QED BY <1>4, <2>1
<1>6. CASE k > 0
  <2>1. k - 1 \in Nat /\ k - 1 \notin T
    BY <1>2, <1>3, <1>6
  <2>2. PICK g : Recurs(g, 0..(k - 1), base, less, add)
    BY <2>1
  <2>3. \A i \in 0..(k - 1) : g[i] = IF less[i] = i THEN base[i] ELSE g[less[i]] + add[i]
    BY <2>2 DEF Recurs
  <2> QED BY <1>4, <2>3
<1> QED BY <1>3, <1>5, <1>6

\* There is one on all of Nat.
LEMMA RecursionDefined ==
    ASSUME NEW base, NEW less, NEW add, \A i \in Nat : less[i] \in 0..i
    PROVE  \E g : Recurs(g, Nat, base, less, add)
<1> DEFINE G(n) == CHOOSE g : Recurs(g, 0..n, base, less, add)
           F == [n \in Nat |-> G(n)[n]]
<1>1. \A n \in Nat : Recurs(G(n), 0..n, base, less, add)
  BY RecursionBounded
<1> HIDE DEF G
<1>2. ASSUME NEW n \in Nat
      PROVE  F[n] = IF less[n] = n THEN base[n] ELSE F[less[n]] + add[n]
  <2>1. F[n] = IF less[n] = n THEN base[n] ELSE G(n)[less[n]] + add[n]
    <3>1. n \in 0..n
      OBVIOUS
    <3> QED BY <1>1, <3>1 DEF Recurs
  <2>2. less[n] \in Nat /\ less[n] <= n
    OBVIOUS
  <2>3. G(n)[less[n]] = G(less[n])[less[n]]
    BY <1>1, <2>2, RecursionUnique
  <2> QED BY <2>1, <2>2, <2>3
<1>3. F = [n \in Nat |-> F[n]]
  OBVIOUS
<1> HIDE DEF F
<1> QED BY <1>2, <1>3 DEF Recurs
-----------------------------------------------------------------------------
(* The sum of the words and its folding.                                   *)

\* The sum obeys its recursion.
LEMMA SumDefined ==
    ASSUME NEW words
    PROVE  \A n \in Nat : SumOfFirst(words)[n] =
               IF n = 0 THEN 0 ELSE SumOfFirst(words)[n - 1] + words[n - 1]
<1> DEFINE base == [n \in Nat |-> 0]
           less == [n \in Nat |-> IF n = 0 THEN 0 ELSE n - 1]
           add == [n \in Nat |-> words[n - 1]]
<1>1. PICK g : Recurs(g, Nat, base, less, add)
  <2>1. \A n \in Nat : less[n] \in 0..n
    OBVIOUS
  <2> HIDE DEF base, less, add
  <2> QED BY <2>1, RecursionDefined
<1>2. \A n \in Nat : less[n] = n <=> n = 0
  OBVIOUS
<1>3. g = [n \in Nat |-> IF n = 0 THEN 0 ELSE g[n - 1] + words[n - 1]]
  BY <1>1, <1>2 DEF Recurs
<1>4. SumOfFirst(words) =
        [n \in Nat |-> IF n = 0 THEN 0 ELSE SumOfFirst(words)[n - 1] + words[n - 1]]
  BY <1>3 DEF SumOfFirst
<1> QED BY <1>4

\* The sum of naturals is a natural.
LEMMA SumIsNatural ==
    ASSUME NEW words, NEW len \in Nat, \A i \in 0..(len - 1) : words[i] \in Nat
    PROVE  SumOfFirst(words)[len] \in Nat
<1> DEFINE sum == SumOfFirst(words)
           T == {n \in 0..len : sum[n] \notin Nat}
<1>0. \A n \in Nat : sum[n] = IF n = 0 THEN 0 ELSE sum[n - 1] + words[n - 1]
  BY SumDefined
<1> HIDE DEF sum
<1>1. SUFFICES ASSUME T # {} PROVE FALSE
  BY DEF sum
<1>2. PICK k \in T : \A j \in T : k <= j
  <2>1. T \subseteq Nat
    OBVIOUS
  <2> HIDE DEF T
  <2> QED BY <1>1, <2>1, LeastMember
<1>3. k # 0 /\ k \in 0..len /\ sum[k] \notin Nat
  BY <1>0
<1>4. k - 1 \in 0..(len - 1) /\ k - 1 \in 0..len /\ k - 1 \notin T
  BY <1>2, <1>3
<1>5. sum[k - 1] \in Nat /\ words[k - 1] \in Nat
  BY <1>4
<1> QED BY <1>0, <1>3, <1>5

\* Filling in the one word that was 0 adds it to the sum.
LEMMA SumFilled ==
    ASSUME NEW words, NEW filled, NEW len \in Nat, len >= 2,
           \A i \in 0..(len - 1) : words[i] \in Nat /\ (i # 1 => filled[i] = words[i]),
           words[1] = 0, filled[1] \in Nat
    PROVE  SumOfFirst(filled)[len] = SumOfFirst(words)[len] + filled[1]
<1> DEFINE sum == SumOfFirst(words)
           more == SumOfFirst(filled)
           Right(n) == more[n] = IF n < 2 THEN sum[n] ELSE sum[n] + filled[1]
           T == {n \in 0..len : ~Right(n)}
<1>1. \A n \in Nat : /\ sum[n] = IF n = 0 THEN 0 ELSE sum[n - 1] + words[n - 1]
                     /\ more[n] = IF n = 0 THEN 0 ELSE more[n - 1] + filled[n - 1]
  BY SumDefined
<1>2. \A n \in 0..len : sum[n] \in Nat
  <2> TAKE n \in 0..len
  <2>1. n \in Nat /\ \A i \in 0..(n - 1) : i \in 0..(len - 1)
    OBVIOUS
  <2> QED BY <2>1, SumIsNatural
<1> HIDE DEF sum, more
<1>3. SUFFICES ASSUME T # {} PROVE FALSE
  <2>1. T = {} => Right(len)
    OBVIOUS
  <2> QED BY <2>1 DEF sum, more
<1>4. PICK k \in T : \A j \in T : k <= j
  <2>1. T \subseteq Nat
    OBVIOUS
  <2> HIDE DEF T
  <2> QED BY <1>3, <2>1, LeastMember
<1>5. k # 0 /\ k \in 0..len /\ ~Right(k)
  BY <1>1
<1>6. k - 1 \in 0..(len - 1) /\ k - 1 \in 0..len /\ k - 1 \notin T
  BY <1>4, <1>5
<1>7. Right(k - 1) /\ sum[k - 1] \in Nat /\ words[k - 1] \in Nat
  BY <1>2, <1>6
<1>8. CASE k = 2
  BY <1>1, <1>5, <1>7, <1>8
<1>9. CASE k # 2
  <2>1. filled[k - 1] = words[k - 1]
    BY <1>6, <1>9
  <2>2. k < 2 <=> k - 1 < 2
    BY <1>5, <1>9
  <2> QED BY <1>1, <1>5, <1>7, <2>1, <2>2
<1> QED BY <1>8, <1>9

\* Folding makes a sum of 17 bits or more smaller, by a multiple of 65535.
LEMMA FoldingShrinks ==
    ASSUME NEW n \in Nat, n >= 65536
    PROVE  /\ (n % 65536) + (n \div 65536) \in Nat
           /\ (n % 65536) + (n \div 65536) < n
           /\ (n % 65536) + (n \div 65536) > 0
           /\ n \div 65536 \in Nat
           /\ n = ((n % 65536) + (n \div 65536)) + 65535 * (n \div 65536)
OBVIOUS

\* The loop ends: folded obeys its recursion.
LEMMA FoldedDefined ==
    \A n \in Nat : folded[n] =
        IF n < 65536 THEN n ELSE folded[(n % 65536) + (n \div 65536)]
<1> DEFINE base == [n \in Nat |-> n]
           less == [n \in Nat |-> IF n < 65536 THEN n ELSE (n % 65536) + (n \div 65536)]
           add == [n \in Nat |-> 0]
<1>1. \A n \in Nat : less[n] \in 0..n /\ (less[n] = n <=> n < 65536)
  BY FoldingShrinks
<1>2. PICK g : Recurs(g, Nat, base, less, add)
  <2> HIDE DEF base, less, add
  <2> QED BY <1>1, RecursionDefined
<1>3. \A n \in Nat : g[n] = IF n < 65536 THEN n ELSE g[less[n]] + 0
  BY <1>1, <1>2 DEF Recurs
<1>4. \A n \in Nat : g[n] \in Nat
  <2> DEFINE T == {n \in Nat : g[n] \notin Nat}
  <2> HIDE DEF less
  <2>1. SUFFICES ASSUME T # {} PROVE FALSE
    OBVIOUS
  <2>2. PICK k \in T : \A j \in T : k <= j
    <3>1. T \subseteq Nat
      OBVIOUS
    <3> HIDE DEF T
    <3> QED BY <2>1, <3>1, LeastMember
  <2>3. k \in Nat /\ g[k] \notin Nat /\ ~(k < 65536)
    BY <1>3
  <2>4. less[k] \in Nat /\ less[k] < k
    BY <1>1, <2>3
  <2>5. g[less[k]] \in Nat
    BY <2>2, <2>4
  <2> QED BY <1>3, <2>3, <2>5
<1>5. \A n \in Nat : g[n] = IF n < 65536 THEN n ELSE g[(n % 65536) + (n \div 65536)]
  <2> TAKE n \in Nat
  <2>1. CASE n < 65536
    BY <1>3, <2>1
  <2>2. CASE n >= 65536
    <3>1. less[n] = (n % 65536) + (n \div 65536) /\ less[n] \in Nat
      BY <2>2, FoldingShrinks
    <3>2. g[less[n]] \in Nat
      BY <1>4, <3>1
    <3> QED BY <1>3, <2>2, <3>1, <3>2
  <2> QED BY <2>1, <2>2
<1>6. g = [n \in Nat |-> IF n < 65536 THEN n ELSE g[(n % 65536) + (n \div 65536)]]
  <2> DEFINE value(n) == IF n < 65536 THEN n ELSE g[(n % 65536) + (n \div 65536)]
  <2>1. \A n \in Nat : g[n] = value(n)
    BY <1>5
  <2>2. g = [n \in Nat |-> g[n]]
    BY <1>2 DEF Recurs
  <2> HIDE DEF value
  <2>3. g = [n \in Nat |-> value(n)]
    BY <2>1, <2>2
  <2> QED BY <2>3 DEF value
<1>7. folded =
        [n \in Nat |-> IF n < 65536 THEN n ELSE folded[(n % 65536) + (n \div 65536)]]
  BY <1>6 DEF folded
<1> QED BY <1>7

\* A number is a multiple of 65535 below another.
Multiple(low, high) == \E k \in Nat : low + 65535 * k = high

\* A folded sum has 16 bits, differs from the sum by a multiple of 65535 and is
\* 0 only for 0.
LEMMA FoldedIs ==
    ASSUME NEW n \in Nat
    PROVE  /\ folded[n] \in Nat /\ folded[n] <= 65535
           /\ n > 0 => folded[n] > 0
           /\ Multiple(folded[n], n)
<1> DEFINE Right(m) ==
             /\ folded[m] \in Nat /\ folded[m] <= 65535
             /\ m > 0 => folded[m] > 0
             /\ Multiple(folded[m], m)
           T == {m \in Nat : ~Right(m)}
<1>1. SUFFICES ASSUME T # {} PROVE FALSE
  OBVIOUS
<1>2. PICK m \in T : \A j \in T : m <= j
  <2>1. T \subseteq Nat
    OBVIOUS
  <2> HIDE DEF T
  <2> QED BY <1>1, <2>1, LeastMember
<1>3. m \in Nat /\ ~Right(m)
  OBVIOUS
<1>4. CASE m < 65536
  <2>1. folded[m] = m
    BY <1>3, <1>4, FoldedDefined
  <2>2. Multiple(folded[m], m)
    <3>1. folded[m] + 65535 * 0 = m
      BY <1>3, <2>1
    <3> QED BY <3>1 DEF Multiple
  <2> QED BY <1>3, <1>4, <2>1, <2>2
<1>5. CASE m >= 65536
  <2> DEFINE next == (m % 65536) + (m \div 65536)
             quotient == m \div 65536
  <2>1. /\ next \in Nat /\ next < m /\ next > 0 /\ quotient \in Nat
        /\ m = next + 65535 * quotient
    BY <1>3, <1>5, FoldingShrinks
  <2>2. folded[m] = folded[next]
    BY <1>3, <1>5, FoldedDefined
  <2> HIDE DEF next, quotient
  <2>3. Right(next)
    BY <1>2, <1>3, <2>1
  <2>4. PICK k \in Nat : folded[next] + 65535 * k = next
    BY <2>3 DEF Multiple
  <2>5. Multiple(folded[m], m)
    <3>1. k + quotient \in Nat /\ folded[m] + 65535 * (k + quotient) = m
      BY <2>1, <2>2, <2>3, <2>4
    <3> QED BY <3>1 DEF Multiple
  <2>6. folded[m] \in Nat /\ folded[m] <= 65535 /\ folded[m] > 0
    BY <2>1, <2>2, <2>3
  <2> QED BY <1>3, <2>5, <2>6
<1> QED BY <1>3, <1>4, <1>5

\* Adding the complement of its folded sum to a sum makes it fold to all ones.
LEMMA ComplementFolds ==
    ASSUME NEW n \in Nat
    PROVE  folded[n + (65535 - folded[n])] = 65535
<1> DEFINE whole == n + (65535 - folded[n])
<1>1. folded[n] \in Nat /\ folded[n] <= 65535
  BY FoldedIs
<1>2. PICK k \in Nat : folded[n] + 65535 * k = n
  <2>1. Multiple(folded[n], n)
    BY FoldedIs
  <2> QED BY <2>1 DEF Multiple
<1>3. whole = 65535 * (k + 1) /\ whole \in Nat /\ whole > 0
  BY <1>1, <1>2
<1> HIDE DEF whole
<1>4. folded[whole] \in Nat /\ folded[whole] <= 65535 /\ folded[whole] > 0
  BY <1>3, FoldedIs
<1>5. PICK m \in Nat : folded[whole] + 65535 * m = whole
  <2>1. Multiple(folded[whole], whole)
    BY <1>3, FoldedIs
  <2> QED BY <2>1 DEF Multiple
<1>6. ASSUME NEW f \in Nat, f <= 65535, f > 0, 65535 * (k + 1) = f + 65535 * m
      PROVE  f = 65535
  BY <1>6
<1> QED BY <1>3, <1>4, <1>5, <1>6 DEF whole

\* What htons or a native store leaves in memory is read back as it was.
LEMMA NativeStored ==
    ASSUME NEW word \in Nat, word <= 65535, NEW array, NEW at \in Nat,
           array[at] = NativeBytes(word)[0], array[at + 1] = NativeBytes(word)[1]
    PROVE  Native(array, at) = word
<1>1. word = (word \div 256) * 256 + (word % 256)
  OBVIOUS
<1>2. word \div 256 \in Nat /\ word % 256 \in Nat
  OBVIOUS
<1>3. CASE order = "big"
  <2>1. array[at] = word \div 256 /\ array[at + 1] = word % 256
    BY <1>3 DEF NativeBytes
  <2> QED BY <1>1, <1>3, <2>1 DEF Native, ntohs
<1>4. CASE order # "big"
  <2>1. array[at] = word % 256 /\ array[at + 1] = word \div 256
    BY <1>4 DEF NativeBytes
  <2> QED BY <1>1, <1>2, <1>4, <2>1 DEF Native
<1> QED BY <1>3, <1>4

\* Two bytes that are naturals make a word that is one.
LEMMA NativeIsNatural ==
    ASSUME NEW array, NEW at, array[at] \in Nat, array[at + 1] \in Nat
    PROVE  Native(array, at) \in Nat
BY DEF Native, ntohs

\* The words of an array are those of any other with the same bytes there.
LEMMA NativeSame ==
    ASSUME NEW array, NEW other, NEW at, array[at] = other[at], array[at + 1] = other[at + 1]
    PROVE  Native(array, at) = Native(other, at)
BY DEF Native, ntohs

\* The checksum of any array of bytes, odd or even, in either byte order: 16
\* bits, and once it is stored where there was 0 the array has checksum 0.
LEMMA ChecksumVerifies ==
    ASSUME NEW array, NEW len \in Nat, len >= 4, DOMAIN array = 0..(len - 1),
           \A i \in 0..(len - 1) : array[i] \in Nat, array[2] = 0, array[3] = 0
    PROVE  /\ calculate_checksum(array, len) \in Nat
           /\ calculate_checksum(array, len) <= 65535
           /\ calculate_checksum(
                  Overwrite(array, 2, NativeBytes(calculate_checksum(array, len))), len) = 0
<1> DEFINE checksum == calculate_checksum(array, len)
           filled == Overwrite(array, 2, NativeBytes(checksum))
           half == len \div 2
           words == [i \in 0..(half - 1) |-> Native(array, 2 * i)]
           more == [i \in 0..(half - 1) |-> Native(filled, 2 * i)]
           last == IF len % 2 = 1 THEN array[len - 1] ELSE 0
           total == SumOfFirst(words)[half] + last
<1>1. half \in Nat /\ half >= 2 /\ 2 * half <= len /\ last \in Nat
  OBVIOUS
<1>2. \A i \in 0..(half - 1) : words[i] \in Nat
  <2> TAKE i \in 0..(half - 1)
  <2>1. 2 * i \in 0..(len - 1) /\ (2 * i) + 1 \in 0..(len - 1)
    BY <1>1
  <2> QED BY <2>1, NativeIsNatural
<1>3. total \in Nat
  <2> HIDE DEF words, half, last
  <2>1. SumOfFirst(words)[half] \in Nat
    BY <1>1, <1>2, SumIsNatural
  <2> QED BY <1>1, <2>1
<1>4. checksum = 65535 - folded[total]
  BY DEF calculate_checksum
<1> HIDE DEF checksum, total
<1>5. checksum \in Nat /\ checksum <= 65535
  BY <1>3, <1>4, FoldedIs
<1>6. /\ DOMAIN filled = 0..(len - 1)
      /\ filled[2] = NativeBytes(checksum)[0] /\ filled[3] = NativeBytes(checksum)[1]
      /\ \A i \in 0..(len - 1) : i # 2 /\ i # 3 => filled[i] = array[i]
  <2>1. DOMAIN NativeBytes(checksum) = 0..1
    BY DEF NativeBytes
  <2>2. \A i \in 0..(len - 1) : filled[i] =
            IF i - 2 \in 0..1 THEN NativeBytes(checksum)[i - 2] ELSE array[i]
    BY <2>1 DEF Overwrite
  <2>3. 2 \in 0..(len - 1) /\ 3 \in 0..(len - 1) /\ 2 - 2 = 0 /\ 3 - 2 = 1
    OBVIOUS
  <2>4. \A i \in 0..(len - 1) : i # 2 /\ i # 3 => i - 2 \notin 0..1
    OBVIOUS
  <2>5. DOMAIN filled = 0..(len - 1)
    BY DEF Overwrite
  <2> HIDE DEF filled
  <2>6. filled[2] = NativeBytes(checksum)[0] /\ filled[3] = NativeBytes(checksum)[1]
    BY <2>2, <2>3
  <2> QED BY <2>2, <2>4, <2>5, <2>6
<1> HIDE DEF filled
<1>7. words[1] = 0 /\ more[1] = checksum
  <2>1. 1 \in 0..(half - 1) /\ 2 * 1 = 2 /\ 2 + 1 = 3
    BY <1>1
  <2>2. Native(array, 2) = 0
    BY <2>1 DEF Native, ntohs
  <2>3. Native(filled, 2) = checksum
    BY <1>5, <1>6, <2>1, NativeStored
  <2> QED BY <2>1, <2>2, <2>3
<1>8. \A i \in 0..(half - 1) : i # 1 => more[i] = words[i]
  <2> TAKE i \in 0..(half - 1)
  <2> HAVE i # 1
  <2>1. /\ 2 * i \in 0..(len - 1) /\ (2 * i) + 1 \in 0..(len - 1)
        /\ 2 * i # 2 /\ 2 * i # 3 /\ (2 * i) + 1 # 2 /\ (2 * i) + 1 # 3
    BY <1>1
  <2>2. filled[2 * i] = array[2 * i] /\ filled[(2 * i) + 1] = array[(2 * i) + 1]
    BY <1>6, <2>1
  <2> QED BY <2>2, NativeSame
<1>9. (IF len % 2 = 1 THEN filled[len - 1] ELSE 0) = last
  <2>1. CASE len % 2 = 1
    <3>1. len - 1 \in 0..(len - 1) /\ len - 1 # 2 /\ len - 1 # 3
      BY <2>1
    <3> QED BY <1>6, <2>1, <3>1
  <2>2. CASE len % 2 # 1
    BY <2>2
  <2> QED BY <2>1, <2>2
<1>10. calculate_checksum(filled, len) = 65535 - folded[SumOfFirst(more)[half] + last]
  BY <1>9 DEF calculate_checksum
<1> HIDE DEF words, more, half, last
<1>11. SumOfFirst(more)[half] = SumOfFirst(words)[half] + checksum
  <2>1. more[1] \in Nat /\ words[1] = 0
    BY <1>5, <1>7
  <2>2. \A i \in 0..(half - 1) : words[i] \in Nat /\ (i # 1 => more[i] = words[i])
    BY <1>2, <1>8
  <2>3. SumOfFirst(more)[half] = SumOfFirst(words)[half] + more[1]
    BY <1>1, <2>1, <2>2, SumFilled
  <2> QED BY <1>7, <2>3
<1>12. SumOfFirst(words)[half] \in Nat
  BY <1>1, <1>2, SumIsNatural
<1>13. SumOfFirst(more)[half] + last = total + (65535 - folded[total])
  BY <1>1, <1>4, <1>5, <1>11, <1>12 DEF total
<1>14. calculate_checksum(filled, len) = 0
  BY <1>3, <1>10, <1>13, ComplementFolds
<1> QED BY <1>5, <1>14 DEF filled, checksum

-----------------------------------------------------------------------------
(* The invariant.                                                          *)

LEMMA IcmpInvInit == Init => IcmpInv
<1> SUFFICES ASSUME Init PROVE IcmpInv
  OBVIOUS
<1>1. PingerInv
  <2>1. \A f \in Families : f \in {"inet", "inet6"}
    BY SizeAssumption
  <2>2. pinger \in [sockfd : {"none"}, family : Families, sequence : {0}] /\ expected = 0
    BY DEF Init
  <2>3. 0 \in 0..SEQ_MAX
    BY WidthAssumption
  <2> QED BY <2>1, <2>2, <2>3 DEF PingerInv
<1>2. BufferInv /\ WireInv /\ JudgedRightly
  BY DEF Init, BufferInv, WireInv, JudgedRightly
<1>3. SocketInv
  <2>1. queue \in Seq({})
    BY DEF Init
  <2>2. dropped = {}
    BY DEF Init
  <2> QED BY <2>1, <2>2 DEF SocketInv
<1> QED BY <1>1, <1>2, <1>3 DEF IcmpInv

\* A step that leaves the queue and the family alone keeps the socket's part.
LEMMA SocketKept ==
    ASSUME SocketInv, pinger'.family = pinger.family, UNCHANGED <<queue, dropped>>
    PROVE  SocketInv'
BY DEF SocketInv, Sound, FilterPasses, Honest, IsReply

\* A request that has been built holds identifier and sequence number.
LEMMA PacketHolds ==
    ASSUME BufferInv, NEW sequence \in 1..SEQ_MAX
    PROVE  /\ DOMAIN EchoPacket(sequence) = 0..(PACKET_SIZE - 1)
           /\ EchoPacket(sequence) # <<>>
           /\ ntohs(EchoPacket(sequence), 4) = Identifier
           /\ ntohs(EchoPacket(sequence), 6) = sequence
<1> DEFINE header == EchoHeader(EchoRequest(pinger.family), sequence)
           packet == Overwrite(send_buf, 0, header)
           checksum == NativeBytes(calculate_checksum(packet, PACKET_SIZE))
<1>1. PACKET_SIZE \in Nat /\ PACKET_SIZE >= 8 /\ Identifier \in Nat
  BY SizeAssumption DEF ICMP_HEADER
<1>2. /\ DOMAIN header = 0..7
      /\ header[4] = Identifier \div 256 /\ header[5] = Identifier % 256
      /\ header[6] = sequence \div 256 /\ header[7] = sequence % 256
  BY DEF EchoHeader, Overwrite, htons, ICMP_HEADER
<1> HIDE DEF header
<1>3. /\ DOMAIN packet = 0..(PACKET_SIZE - 1)
      /\ \A i \in 4..7 : packet[i] = header[i]
  BY <1>1, <1>2 DEF Overwrite, BufferInv
<1> HIDE DEF packet
<1>4. /\ DOMAIN Overwrite(packet, 2, checksum) = 0..(PACKET_SIZE - 1)
      /\ \A i \in 4..7 : Overwrite(packet, 2, checksum)[i] = packet[i]
  BY <1>1, <1>3 DEF Overwrite, NativeBytes
<1> HIDE DEF checksum
<1>5. EchoPacket(sequence) = packet \/ EchoPacket(sequence) = Overwrite(packet, 2, checksum)
  BY DEF EchoPacket, packet, checksum, header
<1>6. /\ DOMAIN EchoPacket(sequence) = 0..(PACKET_SIZE - 1)
      /\ \A i \in 4..7 : EchoPacket(sequence)[i] = header[i]
  BY <1>3, <1>4, <1>5
<1>7. ntohs(EchoPacket(sequence), 4) = Identifier
  <2>1. ntohs(EchoPacket(sequence), 4) = (Identifier \div 256) * 256 + (Identifier % 256)
    BY <1>2, <1>6 DEF ntohs
  <2> QED BY <1>1, <2>1
<1>8. ntohs(EchoPacket(sequence), 6) = sequence
  <2>1. ntohs(EchoPacket(sequence), 6) = (sequence \div 256) * 256 + (sequence % 256)
    BY <1>2, <1>6 DEF ntohs
  <2> QED BY <2>1, WidthAssumption
<1>9. EchoPacket(sequence) # <<>>
  BY <1>1, <1>6
<1> QED BY <1>6, <1>7, <1>8, <1>9

LEMMA IcmpInvStep == IcmpInv /\ [Next]_vars => IcmpInv'
<1> SUFFICES ASSUME IcmpInv, [Next]_vars PROVE IcmpInv'
  OBVIOUS
<1> USE DEF setup
<1>1. CASE icmp_pinger_init
  <2>1. PingerInv' /\ pinger'.family = pinger.family
    BY <1>1 DEF icmp_pinger_init, IcmpInv, PingerInv
  <2>2. SocketInv'
    BY <1>1, <2>1, SocketKept DEF icmp_pinger_init, IcmpInv
  <2>3. BufferInv' /\ WireInv' /\ JudgedRightly'
    BY <1>1 DEF icmp_pinger_init, IcmpInv, BufferInv, WireInv, ntohs, JudgedRightly
  <2> QED BY <2>1, <2>2, <2>3 DEF IcmpInv
<1>2. CASE monitor_prepare_packet
  <2>1. SocketInv'
    BY <1>2, SocketKept DEF monitor_prepare_packet, IcmpInv
  <2>2. BufferInv'
    BY <1>2 DEF monitor_prepare_packet, IcmpInv, BufferInv
  <2>3. PingerInv' /\ WireInv' /\ JudgedRightly'
    BY <1>2 DEF monitor_prepare_packet, IcmpInv, PingerInv, WireInv, ntohs, JudgedRightly
  <2> QED BY <2>1, <2>2, <2>3 DEF IcmpInv
<1>3. CASE icmp_pinger_send_echo
  <2> DEFINE sequence == next_sequence(pinger.sequence)
             packet == EchoPacket(sequence)
  <2>1. sequence \in 1..SEQ_MAX
    BY WidthAssumption DEF next_sequence, IcmpInv, PingerInv
  <2>2. /\ DOMAIN packet = 0..(PACKET_SIZE - 1)
        /\ ntohs(packet, 4) = Identifier /\ ntohs(packet, 6) = sequence
    BY <2>1, PacketHolds DEF IcmpInv
  <2> HIDE DEF sequence, packet
  <2>3. /\ pinger' = [pinger EXCEPT !.sequence = sequence] /\ send_buf' = packet
        /\ (wire' = packet /\ expected' = sequence) \/ UNCHANGED <<wire, expected>>
        /\ UNCHANGED <<queue, dropped, verdict>>
    BY <1>3 DEF icmp_pinger_send_echo, sequence, packet
  <2>4. PingerInv' /\ pinger'.family = pinger.family
    BY <2>1, <2>3 DEF IcmpInv, PingerInv
  <2>5. BufferInv' /\ JudgedRightly'
    BY <2>2, <2>3 DEF IcmpInv, BufferInv, JudgedRightly
  <2>6. WireInv'
    BY <2>1, <2>2, <2>3 DEF IcmpInv, WireInv, ntohs
  <2>7. SocketInv'
    BY <2>3, <2>4, SocketKept DEF IcmpInv
  <2> QED BY <2>4, <2>5, <2>6, <2>7 DEF IcmpInv
<1>4. CASE ProbeMissed \/ ReceiveFailed
  <2>1. expected' = 0 /\ UNCHANGED <<pinger, send_buf, wire, queue, dropped, verdict>>
    BY <1>4 DEF ProbeMissed, ReceiveFailed
  <2>2. SocketInv'
    BY <2>1, SocketKept DEF IcmpInv
  <2>3. PingerInv' /\ BufferInv' /\ WireInv' /\ JudgedRightly'
    BY <2>1, WidthAssumption DEF IcmpInv, PingerInv, BufferInv, WireInv, ntohs, JudgedRightly
  <2> QED BY <2>2, <2>3 DEF IcmpInv
<1>5. CASE icmp_pinger_destroy
  <2>1. PingerInv' /\ pinger'.family = pinger.family
    BY <1>5 DEF icmp_pinger_destroy, IcmpInv, PingerInv
  <2>2. BufferInv' /\ WireInv' /\ JudgedRightly'
    BY <1>5 DEF icmp_pinger_destroy, IcmpInv, BufferInv, WireInv, ntohs, JudgedRightly
  <2>3. queue' \in Seq({})
    BY <1>5 DEF icmp_pinger_destroy
  <2>4. \A datagram \in dropped' : Sound(datagram)' /\ ~FilterPasses(datagram)'
    BY <1>5, <2>1 DEF icmp_pinger_destroy, IcmpInv, SocketInv, Sound, FilterPasses
  <2>5. SocketInv'
    BY <2>3, <2>4 DEF SocketInv
  <2> QED BY <2>1, <2>2, <2>5 DEF IcmpInv
<1>6. ASSUME NEW datagram \in Foreign \cup Echoes, Arrive(datagram) PROVE IcmpInv'
  <2>1. Sound(datagram)
    <3>1. CASE datagram \in Foreign
      <4>1. datagram.length \in Nat /\ Honest(datagram)
        BY <3>1, ForeignAssumption
      <4>2. datagram.length > 0 => datagram.bytes[0] \in Nat
        BY <3>1, <4>1, ForeignAssumption
      <4> QED BY <1>6, <4>1, <4>2 DEF Arrive, Sound
    <3>2. CASE datagram \in Echoes
      BY <3>2, SizeAssumption, EchoIsSound DEF Echoes, IcmpInv
    <3> QED BY <1>6, <3>1, <3>2
  <2>2. UNCHANGED <<pinger, send_buf, expected, wire, verdict>>
    BY <1>6 DEF Arrive
  <2>3. PICK sound : queue \in Seq(sound) /\ \A d \in sound : Sound(d)
    BY DEF IcmpInv, SocketInv
  <2>4. PICK more : queue' \in Seq(more) /\ \A d \in more : Sound(d)
    <3>1. queue \in Seq(sound \cup {datagram}) /\ \A d \in sound \cup {datagram} : Sound(d)
      BY <2>1, <2>3
    <3>2. queue' \in Seq(sound \cup {datagram})
      BY <1>6, <3>1 DEF Arrive
    <3> QED BY <3>1, <3>2
  <2>5. \A d \in dropped' : Sound(d) /\ ~FilterPasses(d)
    BY <1>6, <2>1 DEF Arrive, IcmpInv, SocketInv
  <2>6. \A d : (Sound(d) <=> Sound(d)') /\ (FilterPasses(d) <=> FilterPasses(d)')
    BY <2>2 DEF Sound, FilterPasses
  <2>7. SocketInv'
    BY <2>4, <2>5, <2>6 DEF SocketInv
  <2>8. PingerInv' /\ BufferInv' /\ WireInv' /\ JudgedRightly'
    BY <2>2 DEF IcmpInv, PingerInv, BufferInv, WireInv, ntohs, JudgedRightly
  <2> QED BY <2>7, <2>8 DEF IcmpInv
<1>7. CASE icmp_pinger_receive_reply
  <2>1. PICK sound : queue \in Seq(sound) /\ \A d \in sound : Sound(d)
    BY DEF IcmpInv, SocketInv
  <2>2. /\ queue # <<>> /\ queue' = Tail(queue)
        /\ UNCHANGED <<pinger, send_buf, wire, dropped>>
    BY <1>7 DEF icmp_pinger_receive_reply
  <2>3. Sound(Head(queue)) /\ queue' \in Seq(sound)
    BY <2>1, <2>2
  <2>4. PICK old \in Foreign \cup Echoes :
          /\ verdict' = [status |-> IF Matches(Head(queue), old) THEN "matched" ELSE "ignored",
                         source |-> Head(queue).source, answers |-> Head(queue).answers,
                         expected |-> expected]
          /\ expected' = IF Matches(Head(queue), old) THEN 0 ELSE expected
    BY <1>7 DEF icmp_pinger_receive_reply
  <2>5. Matches(Head(queue), old) <=>
            Head(queue).source = "target" /\ Head(queue).answers = expected
    BY <2>3, MatchesIsReply DEF IcmpInv
  <2>6. JudgedRightly'
    BY <2>4, <2>5 DEF JudgedRightly
  <2>7. PingerInv' /\ BufferInv' /\ WireInv'
    BY <2>2, <2>4, WidthAssumption DEF IcmpInv, PingerInv, BufferInv, WireInv, ntohs
  <2>8. \A d : (Sound(d) <=> Sound(d)') /\ (FilterPasses(d) <=> FilterPasses(d)')
    BY <2>2 DEF Sound, FilterPasses
  <2>9. SocketInv'
    BY <2>1, <2>2, <2>3, <2>8 DEF IcmpInv, SocketInv
  <2> QED BY <2>6, <2>7, <2>9 DEF IcmpInv
<1>8. CASE UNCHANGED vars
  <2>1. SocketInv'
    BY <1>8, SocketKept DEF vars, IcmpInv
  <2> QED BY <1>8, <2>1 DEF vars, IcmpInv, PingerInv, BufferInv, WireInv, ntohs, JudgedRightly
<1> QED BY <1>1, <1>2, <1>3, <1>4, <1>5, <1>6, <1>7, <1>8 DEF Next

\* For every set of datagrams that others may make, every identifier and every
\* byte order: a datagram is taken for the reply to the outstanding request
\* exactly if the target made it as one.
THEOREM RepliesJudged == Spec => []JudgedRightly
<1>1. IcmpInv => JudgedRightly
  BY DEF IcmpInv
<1> QED BY <1>1, IcmpInvInit, IcmpInvStep, PTL DEF Spec

\* Under the same assumptions the socket filter drops no reply to a request.
THEOREM FilterTransparent == Spec => []FilterIsTransparent
<1>1. IcmpInv => FilterIsTransparent
  BY FilterPassesReplies DEF IcmpInv, SocketInv, FilterIsTransparent
<1> QED BY <1>1, IcmpInvInit, IcmpInvStep, PTL DEF Spec

-----------------------------------------------------------------------------
(* The requests: what is in the reused buffer whenever one is built.       *)

BytesInv == \A i \in 0..(PACKET_SIZE - 1) : send_buf[i] \in Nat

\* The pattern, once it has been written, stays.
PayloadInv ==
    stage = "running" =>
        \A i \in ICMP_HEADER..(PACKET_SIZE - 1) : send_buf[i] = (i - ICMP_HEADER) % 256

\* The inductive invariant of the requests.
SoundInv == BytesInv /\ PayloadInv /\ RequestsAreSound

\* The header cleared and written over whatever the buffer held: type, code and
\* checksum at their places, nothing else disturbed.
LEMMA HeaderWritten ==
    ASSUME BufferInv, BytesInv, NEW type \in Nat, NEW sequence \in Nat
    PROVE  LET packet == Overwrite(send_buf, 0, EchoHeader(type, sequence))
           IN  /\ DOMAIN packet = 0..(PACKET_SIZE - 1)
               /\ packet[0] = type /\ packet[1] = 0 /\ packet[2] = 0 /\ packet[3] = 0
               /\ \A i \in 0..(PACKET_SIZE - 1) : packet[i] \in Nat
               /\ \A i \in 8..(PACKET_SIZE - 1) : packet[i] = send_buf[i]
<1> DEFINE header == EchoHeader(type, sequence)
           packet == Overwrite(send_buf, 0, header)
<1>1. PACKET_SIZE \in Nat /\ PACKET_SIZE >= 8 /\ Identifier \in Nat
  BY SizeAssumption DEF ICMP_HEADER
<1>2. /\ DOMAIN header = 0..7
      /\ header[0] = type /\ header[1] = 0 /\ header[2] = 0 /\ header[3] = 0
      /\ header[4] = Identifier \div 256 /\ header[5] = Identifier % 256
      /\ header[6] = sequence \div 256 /\ header[7] = sequence % 256
  BY DEF EchoHeader, Overwrite, htons, ICMP_HEADER
<1>3. \A i \in 0..7 : header[i] \in Nat
  <2>1. \A w \in Nat : w \div 256 \in Nat /\ w % 256 \in Nat
    OBVIOUS
  <2>2. \A i \in 0..7 : i = 0 \/ i = 1 \/ i = 2 \/ i = 3 \/ i = 4 \/ i = 5 \/ i = 6 \/ i = 7
    OBVIOUS
  <2> HIDE DEF header
  <2> QED BY <1>1, <1>2, <2>1, <2>2
<1> HIDE DEF header
<1>4. /\ DOMAIN packet = 0..(PACKET_SIZE - 1)
      /\ \A i \in 0..(PACKET_SIZE - 1) :
            packet[i] = IF i \in 0..7 THEN header[i] ELSE send_buf[i]
  <2>1. \A i \in 0..(PACKET_SIZE - 1) : i - 0 = i
    OBVIOUS
  <2> QED BY <1>2, <2>1 DEF Overwrite, BufferInv
<1> HIDE DEF packet
<1>5. /\ 0 \in 0..(PACKET_SIZE - 1) /\ 1 \in 0..(PACKET_SIZE - 1)
      /\ 2 \in 0..(PACKET_SIZE - 1) /\ 3 \in 0..(PACKET_SIZE - 1)
      /\ \A i \in 8..(PACKET_SIZE - 1) : i \in 0..(PACKET_SIZE - 1) /\ i \notin 0..7
  BY <1>1
<1>6. packet[0] = type /\ packet[1] = 0 /\ packet[2] = 0 /\ packet[3] = 0
  BY <1>2, <1>4, <1>5
<1>7. \A i \in 0..(PACKET_SIZE - 1) : packet[i] \in Nat
  BY <1>3, <1>4 DEF BytesInv
<1>8. \A i \in 8..(PACKET_SIZE - 1) : packet[i] = send_buf[i]
  BY <1>4, <1>5
<1> QED BY <1>4, <1>6, <1>7, <1>8 DEF packet, header

\* A request that has been built is sound, and leaves bytes in the buffer.
LEMMA PacketIsSound ==
    ASSUME PingerInv, BufferInv, BytesInv, PayloadInv, stage = "running",
           NEW sequence \in 1..SEQ_MAX
    PROVE  LET packet == EchoPacket(sequence)
           IN  /\ packet[0] = EchoRequest(pinger.family) /\ packet[1] = 0
               /\ \A i \in 0..(PACKET_SIZE - 1) : packet[i] \in Nat
               /\ \A i \in ICMP_HEADER..(PACKET_SIZE - 1) :
                     packet[i] = (i - ICMP_HEADER) % 256
               /\ pinger.family = "inet" => ChecksumValid(packet)
<1> DEFINE type == EchoRequest(pinger.family)
           plain == Overwrite(send_buf, 0, EchoHeader(type, sequence))
           checksum == calculate_checksum(plain, PACKET_SIZE)
           filled == Overwrite(plain, 2, NativeBytes(checksum))
           packet == EchoPacket(sequence)
<1>1. PACKET_SIZE \in Nat /\ PACKET_SIZE >= 8 /\ sequence \in Nat /\ type \in Nat
  BY SizeAssumption, WidthAssumption DEF ICMP_HEADER, EchoRequest
<1>2. packet = IF pinger.family = "inet6" THEN plain ELSE filled
  BY DEF EchoPacket
<1> HIDE DEF type, packet
<1>3. /\ DOMAIN plain = 0..(PACKET_SIZE - 1)
      /\ plain[0] = type /\ plain[1] = 0 /\ plain[2] = 0 /\ plain[3] = 0
      /\ \A i \in 0..(PACKET_SIZE - 1) : plain[i] \in Nat
      /\ \A i \in 8..(PACKET_SIZE - 1) : plain[i] = send_buf[i]
  BY <1>1, HeaderWritten
<1> HIDE DEF plain
<1>4. /\ checksum \in Nat /\ checksum <= 65535
      /\ calculate_checksum(filled, PACKET_SIZE) = 0
  BY <1>1, <1>3, ChecksumVerifies
<1> HIDE DEF checksum
<1>5. /\ filled[0] = plain[0] /\ filled[1] = plain[1]
      /\ \A i \in 8..(PACKET_SIZE - 1) : filled[i] = plain[i]
      /\ \A i \in 0..(PACKET_SIZE - 1) : filled[i] \in Nat
  <2>1. /\ DOMAIN NativeBytes(checksum) = 0..1
        /\ \A i \in 0..1 : NativeBytes(checksum)[i] \in Nat
    <3>1. checksum \div 256 \in Nat /\ checksum % 256 \in Nat
      BY <1>4
    <3> QED BY <3>1 DEF NativeBytes
  <2>2. \A i \in 0..(PACKET_SIZE - 1) : filled[i] =
            IF i - 2 \in 0..1 THEN NativeBytes(checksum)[i - 2] ELSE plain[i]
    BY <1>3, <2>1 DEF Overwrite
  <2>3. /\ 0 \in 0..(PACKET_SIZE - 1) /\ 0 - 2 \notin 0..1
        /\ 1 \in 0..(PACKET_SIZE - 1) /\ 1 - 2 \notin 0..1
        /\ \A i \in 8..(PACKET_SIZE - 1) :
              i \in 0..(PACKET_SIZE - 1) /\ i - 2 \notin 0..1
    BY <1>1
  <2> HIDE DEF filled
  <2> QED BY <1>3, <2>1, <2>2, <2>3
<1>6. \A i \in 8..(PACKET_SIZE - 1) : send_buf[i] = (i - 8) % 256
  BY DEF PayloadInv, ICMP_HEADER
<1> HIDE DEF filled
<1>7. packet[0] = type /\ packet[1] = 0 /\ \A i \in 0..(PACKET_SIZE - 1) : packet[i] \in Nat
  BY <1>2, <1>3, <1>5
<1>8. \A i \in 8..(PACKET_SIZE - 1) : packet[i] = (i - 8) % 256
  BY <1>2, <1>3, <1>5, <1>6
<1>9. pinger.family = "inet" => ChecksumValid(packet)
  BY <1>2, <1>4 DEF ChecksumValid
<1> QED BY <1>7, <1>8, <1>9 DEF ICMP_HEADER, packet, type

\* What makes a request sound, apart from the sequence number it waits with, is
\* a matter of the wire, the family and the byte order.
LEMMA SoundKept ==
    ASSUME RequestsAreSound, pinger'.family = pinger.family, UNCHANGED <<wire, order>>,
           expected' = expected \/ expected' = 0
    PROVE  RequestsAreSound'
BY DEF RequestsAreSound, ChecksumValid, calculate_checksum, Native, ntohs

\* Every step keeps the requests sound.
LEMMA SoundStep ==
    ASSUME IcmpInv, SoundInv, [Next]_vars
    PROVE  SoundInv'
<1> USE DEF setup
<1>1. CASE icmp_pinger_send_echo
  <2> DEFINE sequence == next_sequence(pinger.sequence)
             packet == EchoPacket(sequence)
  <2>1. sequence \in 1..SEQ_MAX
    BY WidthAssumption DEF next_sequence, IcmpInv, PingerInv
  <2>2. /\ ntohs(packet, 4) = Identifier /\ ntohs(packet, 6) = sequence
        /\ packet[0] = EchoRequest(pinger.family) /\ packet[1] = 0
        /\ \A i \in 0..(PACKET_SIZE - 1) : packet[i] \in Nat
        /\ \A i \in ICMP_HEADER..(PACKET_SIZE - 1) : packet[i] = (i - ICMP_HEADER) % 256
        /\ pinger.family = "inet" => ChecksumValid(packet)
    BY <1>1, <2>1, PacketHolds, PacketIsSound
    DEF icmp_pinger_send_echo, IcmpInv, SoundInv
  <2> HIDE DEF sequence, packet
  <2>3. /\ pinger'.family = pinger.family /\ order' = order /\ send_buf' = packet
        /\ (wire' = packet /\ expected' = sequence) \/ UNCHANGED <<wire, expected>>
        /\ stage' \in {"running", "failed"}
    BY <1>1 DEF icmp_pinger_send_echo, sequence, packet, IcmpInv, PingerInv
  <2>4. BytesInv' /\ PayloadInv'
    BY <2>2, <2>3 DEF BytesInv, PayloadInv
  <2>5. CASE wire' = packet /\ expected' = sequence
    <3>1. ntohs(wire', 4) = ntohs(packet, 4) /\ ntohs(wire', 6) = ntohs(packet, 6)
      BY <2>5
    <3>2. ChecksumValid(wire)' <=> ChecksumValid(packet)
      BY <2>3, <2>5 DEF ChecksumValid, calculate_checksum, Native, ntohs
    <3>3. RequestsAreSound'
      BY <2>1, <2>2, <2>3, <2>5, <3>1, <3>2 DEF RequestsAreSound, ntohs
    <3> QED BY <2>4, <3>3 DEF SoundInv
  <2>6. CASE UNCHANGED <<wire, expected>>
    BY <2>3, <2>4, <2>6, SoundKept DEF SoundInv
  <2> QED BY <2>3, <2>5, <2>6
<1>2. CASE monitor_prepare_packet
  <2>1. BytesInv' /\ PayloadInv'
    <3>1. \A i \in 0..(PACKET_SIZE - 1) : send_buf'[i] =
              IF i < 8 THEN send_buf[i] ELSE (i - 8) % 256
      BY <1>2 DEF monitor_prepare_packet, IcmpInv, BufferInv, ICMP_HEADER
    <3>2. \A i \in 0..(PACKET_SIZE - 1) : ~(i < 8) => (i - 8) % 256 \in Nat
      BY SizeAssumption
    <3>3. \A i \in 8..(PACKET_SIZE - 1) : i \in 0..(PACKET_SIZE - 1) /\ ~(i < 8)
      BY SizeAssumption
    <3>4. BytesInv'
      BY <3>1, <3>2 DEF SoundInv, BytesInv
    <3>5. PayloadInv'
      BY <3>1, <3>3 DEF PayloadInv, ICMP_HEADER
    <3> QED BY <3>4, <3>5
  <2>2. RequestsAreSound'
    BY <1>2, SoundKept DEF monitor_prepare_packet, SoundInv
  <2> QED BY <2>1, <2>2 DEF SoundInv
<1>3. ASSUME UNCHANGED <<send_buf, wire, order>>, pinger'.family = pinger.family,
             expected' = expected \/ expected' = 0, stage' = "running" => stage = "running"
      PROVE  SoundInv'
  <2>1. BytesInv' /\ PayloadInv'
    BY <1>3 DEF SoundInv, BytesInv, PayloadInv
  <2>2. RequestsAreSound'
    BY <1>3, SoundKept DEF SoundInv
  <2> QED BY <2>1, <2>2 DEF SoundInv
<1>4. CASE icmp_pinger_init \/ icmp_pinger_destroy
  <2>1. pinger'.family = pinger.family
    BY <1>4 DEF icmp_pinger_init, icmp_pinger_destroy, IcmpInv, PingerInv
  <2> QED BY <1>3, <1>4, <2>1 DEF icmp_pinger_init, icmp_pinger_destroy
<1>5. CASE ProbeMissed \/ ReceiveFailed
  BY <1>3, <1>5 DEF ProbeMissed, ReceiveFailed
<1>6. ASSUME NEW datagram \in Foreign \cup Echoes, Arrive(datagram) PROVE SoundInv'
  BY <1>3, <1>6 DEF Arrive
<1>7. CASE icmp_pinger_receive_reply
  BY <1>3, <1>7 DEF icmp_pinger_receive_reply
<1>8. CASE UNCHANGED vars
  BY <1>3, <1>8 DEF vars
<1> QED BY <1>1, <1>2, <1>4, <1>5, <1>6, <1>7, <1>8 DEF Next

\* For every packet size, identifier, family and byte order, and although each
\* request is written over the last one: what leaves is an echo request whose
\* sequence number is that of the outstanding request, with the pattern in its
\* payload and, for IPv4, a checksum that verifies.
THEOREM SoundRequests == Spec => []RequestsAreSound
<1>1. Init => SoundInv
  BY DEF Init, SoundInv, BytesInv, PayloadInv, RequestsAreSound
<1>2. SoundInv => RequestsAreSound
  BY DEF SoundInv
<1> QED BY <1>1, <1>2, IcmpInvInit, IcmpInvStep, SoundStep, PTL DEF Spec

-----------------------------------------------------------------------------
(* One request after the other.                                            *)

\* Until the pinger runs no request has left, and while it runs the last one carries
\* its sequence number.
NumberInv ==
    /\ stage \in {"start", "open"} => wire = <<>>
    /\ wire # <<>> /\ stage = "running" => ntohs(wire, 6) = pinger.sequence

\* Every step keeps the number, and every send that succeeds changes it.
LEMMA NumberStep ==
    ASSUME SEQ_MAX > 1, IcmpInv, NumberInv, [Next]_vars
    PROVE  /\ NumberInv'
           /\ sends' # sends /\ wire # <<>> /\ stage' = "running" =>
                  ntohs(wire', 6) # ntohs(wire, 6)
<1>1. CASE icmp_pinger_send_echo
  <2> DEFINE sequence == next_sequence(pinger.sequence)
             packet == EchoPacket(sequence)
  <2>1. pinger.sequence \in 0..SEQ_MAX
    BY DEF IcmpInv, PingerInv
  <2>2. sequence \in 1..SEQ_MAX /\ sequence # pinger.sequence
    BY <2>1, WidthAssumption DEF next_sequence
  <2>3. ntohs(packet, 6) = sequence
    BY <2>2, PacketHolds DEF IcmpInv
  <2> HIDE DEF sequence, packet
  <2>4. /\ pinger'.sequence = sequence /\ stage = "running"
        /\ stage' \in {"running", "failed"}
        /\ stage' = "running" => wire' = packet
    BY <1>1 DEF icmp_pinger_send_echo, sequence, packet, IcmpInv, PingerInv
  <2>5. stage' = "running" => ntohs(wire', 6) = sequence
    BY <2>3, <2>4
  <2>6. NumberInv'
    <3>1. ntohs(wire, 6)' = ntohs(wire', 6)
      BY DEF ntohs
    <3> QED BY <2>4, <2>5, <3>1 DEF NumberInv
  <2>7. wire # <<>> => ntohs(wire, 6) = pinger.sequence
    BY <2>4 DEF NumberInv
  <2> QED BY <2>2, <2>5, <2>6, <2>7
<1>2. ASSUME UNCHANGED <<pinger, wire, sends>>,
             stage' = stage \/ (stage = "running" /\ stage' = "failed")
      PROVE  NumberInv' /\ sends' = sends
  <2>1. ntohs(wire', 6) = ntohs(wire, 6) /\ pinger'.sequence = pinger.sequence
    BY <1>2 DEF ntohs
  <2> QED BY <1>2, <2>1 DEF NumberInv
<1>3. CASE icmp_pinger_init \/ icmp_pinger_destroy
  BY <1>3 DEF icmp_pinger_init, icmp_pinger_destroy, NumberInv
<1>4. CASE monitor_prepare_packet
  <2>1. stage = "open" /\ wire' = wire /\ sends' = sends /\ stage' = "running"
    BY <1>4 DEF monitor_prepare_packet
  <2> QED BY <2>1 DEF NumberInv
<1>5. CASE ProbeMissed \/ ReceiveFailed \/ icmp_pinger_receive_reply
  BY <1>2, <1>5 DEF ProbeMissed, ReceiveFailed, icmp_pinger_receive_reply
<1>6. ASSUME NEW datagram \in Foreign \cup Echoes, Arrive(datagram)
      PROVE  NumberInv' /\ sends' = sends
  BY <1>2, <1>6 DEF Arrive
<1>7. CASE UNCHANGED vars
  BY <1>2, <1>7 DEF vars
<1> QED BY <1>1, <1>3, <1>4, <1>5, <1>6, <1>7 DEF Next

\* For every packet size, identifier, family and byte order, and any range of sequence
\* numbers with at least two: no request carries the number of the one before it.
THEOREM DifferentRequests == ASSUME SEQ_MAX > 1 PROVE Spec => RequestsDiffer
<1>1. Init => NumberInv
  BY DEF Init, NumberInv
<1> DEFINE different == sends' # sends /\ wire # <<>> /\ stage' = "running" =>
                            ntohs(wire', 6) # ntohs(wire, 6)
<1>2. IcmpInv /\ NumberInv /\ [Next]_vars => NumberInv' /\ [different]_vars
  BY NumberStep
<1>3. RequestsDiffer <=> [][different]_vars
  BY DEF RequestsDiffer
<1> HIDE DEF different
<1> QED BY <1>1, <1>2, <1>3, IcmpInvInit, IcmpInvStep, PTL DEF Spec

=============================================================================
