------------------------------- MODULE MCIcmp -------------------------------
(* Instances of the ICMP pinger for TLC: datagrams made by others, built    *)
(* from the fields a real one has, well formed or wrong in one of them.     *)
EXTENDS Icmp

\* The bytes of an ICMP message behind an IP header of words 32-bit words
\* (none for IPv6), cut off at a length.
Message(words, protocol, type, id, sequence, length) ==
    LET at == 4 * words
        whole == [i \in 0..(at + ICMP_HEADER - 1) |->
                     CASE i = 0 /\ words > 0 -> 64 + words
                       [] i = 9 /\ words > 0 -> protocol
                       [] i = at -> type
                       [] i \in {at + 4, at + 5} -> htons(id)[i - at - 4]
                       [] i \in {at + 6, at + 7} -> htons(sequence)[i - at - 6]
                       [] OTHER -> 0]
    IN  [i \in 0..(length - 1) |-> whole[i]]

\* The request a message answers, by its fields.
Answers(family, words, protocol, type, id, sequence, length) ==
    IF /\ type = EchoReply(family) /\ id = Identifier /\ length = 4 * words + ICMP_HEADER
       /\ family = "inet" => words >= 5 /\ protocol = IPPROTO_ICMP
    THEN sequence ELSE NoRequest

Datagram(family, source, words, protocol, type, id, sequence, length) ==
    [family |-> family, source |-> source, length |-> length,
     bytes |-> Message(words, protocol, type, id, sequence, length),
     answers |-> Answers(family, words, protocol, type, id, sequence, length)]

\* Whole messages with one field wrong, also with the two bytes of the
\* identifier swapped; and a right one cut off at every place that matters.
ForeignInet ==
    {Datagram("inet", source, words, 1, type, id, 1, 4 * words + 8) :
        source \in {"target", "other"}, words \in {5, 6}, type \in {0, 8},
        id \in {4660, 13330}} \cup
    {Datagram("inet", "target", 5, protocol, 0, 4660, sequence, 28) :
        protocol \in {1, 17}, sequence \in {0, 2, 256}} \cup
    {Datagram("inet", "target", 5, 1, 0, 4660, 1, length) :
        length \in {0, 1, 19, 20, 21, 24, 26, 27}} \cup
    {Datagram("inet", "target", 6, 1, 0, 4660, 1, length) : length \in {20, 24, 25, 28, 31}} \cup
    {Datagram("inet", "target", words, 1, 0, 4660, 1, 4 * words + 8) : words \in {3, 4, 15}}

ForeignInet6 ==
    {Datagram("inet6", source, 0, 0, type, id, sequence, 8) :
        source \in {"target", "other"}, type \in {0, 128, 129}, id \in {4660, 13330},
        sequence \in {0, 1, 2, 256}} \cup
    {Datagram("inet6", "target", 0, 0, 129, 4660, 1, length) : length \in {0, 1, 5, 7}}

\* A few requests amid datagrams, and more than there are sequence numbers.
TwoHorizons == {[sends |-> 2, datagrams |-> 2], [sends |-> 1002, datagrams |-> 0]}

SmallForeign == ForeignInet \cup ForeignInet6

=============================================================================
