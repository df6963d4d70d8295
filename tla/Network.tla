------------------------------- MODULE Network -------------------------------
(***************************************************************************)
(* The RTL8139 driver of src/net.c: the receive ring it shares with the    *)
(* card, its answers to ARP and ICMP echo requests, and the four transmit  *)
(* descriptors it uses in turn.  The card works while net_poll runs, so a  *)
(* poll is three steps: test for a packet, handle it, give its room back.  *)
(*                                                                         *)
(* The card is external: with the WRAP bit left out of the receive         *)
(* configuration, as net_init leaves it, it continues a packet that does   *)
(* not fit before the end of the ring at the ring's start.  It transmits   *)
(* while the driver writes the descriptor, as the emulated card does.      *)
(*                                                                         *)
(* Memory is counted in words of 4 bytes; a word of a stored frame holds   *)
(* the number of the frame and its own place in it, 0 for the header the   *)
(* card puts in front.  Addresses, checksums and payloads are left out.    *)
(* Of a frame the driver reads no more than what it tests (an ARP header,  *)
(* the type of an ICMP message) and, for an answer, what it copies: always *)
(* 98 bytes of an echo request, however long that is.                      *)
(***************************************************************************)
EXTENDS Integers, SequencesExt, FiniteSets

CONSTANTS RingSize,      \* bytes of the receive ring, 8192
          Slack,         \* bytes of rx_buffer behind the ring, 2048
          RegisterSize,  \* of the 16-bit read pointer register, 2^16
          Lengths,       \* of frames, in bytes, 4 of checksum included
          Tested,        \* kind -> bytes that tell it: arp 42, echo 35, other 42
          Copied,        \* request -> bytes its answer is made of: arp 42, echo 98
          MaxFrames,     \* bound on the frames received
          MaxQueries     \* bound on the pings and DNS queries of the shell

Requests == {"arp", "echo"}
Kinds    == Requests \union {"other"}
Descriptors == 4

ASSUME NetworkAssumption ==
  /\ RingSize \in Nat \ {0} /\ RingSize % 4 = 0 /\ Slack \in Nat /\ Slack % 4 = 0
  /\ RegisterSize \in Nat /\ RegisterSize % RingSize = 0 /\ RegisterSize >= 16
  /\ \A l \in Lengths : l \in Nat \ {0} /\ l + 8 <= RingSize
  /\ \A k \in Kinds : Tested[k] \in Nat \ {0} /\ Tested[k] <= Slack
  /\ \A k \in Requests : Copied[k] \in Nat /\ Tested[k] <= Copied[k] /\ Copied[k] <= Slack
  /\ MaxFrames \in Nat /\ MaxQueries \in Nat

VARIABLES memory,         \* rx_buffer, word by word
          received,       \* frames the card stored: kind, length and place
          card_pos,       \* where the card stores the next one
          capr,           \* the card's read pointer register
          card_descriptor,\* the descriptor the card transmits next
          rx_offset, rx_count, tx_buffer_num,
          pc,             \* where net_poll is
          sent,           \* frames the card transmitted: the request answered, Query, Garbled
          queries
card == <<received, card_pos, card_descriptor, queries>>
vars == <<memory, received, card_pos, capr, card_descriptor, rx_offset, rx_count,
          tx_buffer_num, pc, sent, queries>>

Query   == 0
Garbled == -1      \* an answer made of bytes that are not the request's

Words == 0 .. (RingSize + Slack) \div 4 - 1
Stale == <<0, 0>>
InWords(bytes) == (bytes + 3) \div 4
CardReadPos == (capr + 16) % RingSize

(* After the reset: an empty ring, CAPR at its initial value. *)
Init ==
  /\ memory = [w \in Words |-> Stale]
  /\ received = <<>> /\ card_pos = 0 /\ capr = RegisterSize - 16 /\ card_descriptor = 0
  /\ rx_offset = 0 /\ rx_count = 0 /\ tx_buffer_num = 0
  /\ pc = "idle" /\ sent = <<>> /\ queries = 0

-----------------------------------------------------------------------------
(* The card stores a frame, if there is room: header and body, then the    *)
(* position moves to the next multiple of 4.  It never fills the ring      *)
(* completely, which would look empty.                                     *)
Receive(kind, length) ==
  LET n    == Len(received) + 1
      size == InWords(length + 4)
      free == (CardReadPos - card_pos) % RingSize
  IN  /\ n <= MaxFrames
      /\ free = 0 \/ length + 8 < free
      /\ memory' = [w \in Words |->
           LET i == (w - card_pos \div 4) % (RingSize \div 4)
           IN  IF w < RingSize \div 4 /\ i < size THEN <<n, i>> ELSE memory[w]]
      /\ received' = Append(received, [kind |-> kind, length |-> length, at |-> card_pos])
      /\ card_pos' = (card_pos + 4 * size) % RingSize
      /\ UNCHANGED <<capr, card_descriptor, rx_offset, rx_count, tx_buffer_num, pc, sent, queries>>

-----------------------------------------------------------------------------
(* net_send_packet: the card transmits what is in its own next descriptor. *)
SendInThree(frame) ==
  /\ sent' = IF card_descriptor = tx_buffer_num THEN Append(sent, frame) ELSE sent
  /\ card_descriptor' = IF card_descriptor = tx_buffer_num
                        THEN (card_descriptor + 1) % Descriptors ELSE card_descriptor
  /\ tx_buffer_num' = (tx_buffer_num + 1) % (Descriptors - 1)

Send(frame) ==
  /\ sent' = IF card_descriptor = tx_buffer_num THEN Append(sent, frame) ELSE sent
  /\ card_descriptor' = IF card_descriptor = tx_buffer_num
                        THEN (card_descriptor + 1) % Descriptors ELSE card_descriptor
  /\ tx_buffer_num' = (tx_buffer_num + 1) % Descriptors

(* A ping or a DNS query from the shell. *)
SendQuery ==
  /\ pc = "idle" /\ queries < MaxQueries
  /\ Send(Query) /\ queries' = queries + 1
  /\ UNCHANGED <<memory, received, card_pos, capr, rx_offset, rx_count, pc>>

-----------------------------------------------------------------------------
(* What the driver finds at rx_offset: the number of a frame when a header *)
(* is there, else 0.                                                       *)
FrameAtOffset ==
  LET word == memory[rx_offset \div 4] IN IF word[2] = 0 THEN word[1] ELSE 0

LengthAtOffset == IF FrameAtOffset = 0 THEN 0 ELSE received[FrameAtOffset].length

(* The driver reads straight on, behind the end of the frame and of the    *)
(* ring too: are the first bytes it finds the frame's own?                 *)
Own(n, bytes) ==
  /\ bytes + 4 <= received[n].length
  /\ \A i \in 1 .. InWords(bytes) : memory[rx_offset \div 4 + i] = <<n, i>>

NextOffsetWithoutHeader == (((rx_offset + LengthAtOffset + 3) \div 4) * 4) % RingSize

(* Behind the card's header and the frame, at a multiple of 4. *)
NextOffset == (((rx_offset + LengthAtOffset + 4 + 3) \div 4) * 4) % RingSize

AcknowledgeFirst ==
  /\ pc = "idle" /\ CardReadPos # card_pos
  /\ pc' = "handle"
  /\ capr' = (NextOffset - 16) % RegisterSize
  /\ UNCHANGED <<memory, card, rx_offset, rx_count, tx_buffer_num, sent>>

BeginPoll ==
  /\ pc = "idle" /\ CardReadPos # card_pos
  /\ pc' = "handle"
  /\ UNCHANGED <<memory, card, capr, rx_offset, rx_count, tx_buffer_num, sent>>

HandleRequestsOnly ==
  LET n == FrameAtOffset IN
  /\ pc = "handle"
  /\ IF n # 0 /\ received[n].kind \in Requests
     THEN pc' = "advance" /\ rx_count' = rx_count + 1 /\ Send(n)
     ELSE pc' = "idle" /\ UNCHANGED <<rx_count, sent, card_descriptor, tx_buffer_num>>
  /\ UNCHANGED <<memory, received, card_pos, capr, rx_offset, queries>>

(* A request is answered; of an echo longer than what is copied the answer *)
(* has the beginning.  Where foreign bytes are copied the answer repeats   *)
(* them, and where some are among those tested the frame may or may not    *)
(* pass for a request.                                                     *)
HandleFrame ==
  LET n == FrameAtOffset IN
  /\ pc = "handle" /\ pc' = "advance"
  /\ rx_count' = IF n = 0 THEN rx_count ELSE rx_count + 1
  /\ LET kind == received[n].kind
         Ignored == UNCHANGED <<sent, card_descriptor, tx_buffer_num>>
     IN  IF n = 0 THEN Ignored
         ELSE IF ~Own(n, Tested[kind]) THEN Send(Garbled) \/ Ignored
         ELSE IF kind \notin Requests THEN Ignored
         ELSE Send(IF Own(n, Copied[kind]) THEN n ELSE Garbled)
  /\ UNCHANGED <<memory, received, card_pos, capr, rx_offset, queries>>

(* The register holds the offset less 16, modulo its width. *)
Advance ==
  /\ pc = "advance" /\ pc' = "idle"
  /\ rx_offset' = NextOffset
  /\ capr' = (NextOffset - 16) % RegisterSize
  /\ UNCHANGED <<memory, card, rx_count, tx_buffer_num, sent>>

(* With the ring empty a poll does nothing. *)
PollEmpty == pc = "idle" /\ CardReadPos = card_pos /\ UNCHANGED vars

net_poll == PollEmpty \/ BeginPoll \/ HandleFrame \/ Advance

Next ==
  \/ \E k \in Kinds, l \in Lengths : Receive(k, l)
  \/ SendQuery
  \/ net_poll

(* The main loop polls for ever. *)
Spec == Init /\ [][Next]_vars /\ WF_vars(net_poll)

-----------------------------------------------------------------------------
(* Between two polls rx_offset is where the card stored the oldest frame   *)
(* not yet handled, or will store the next one: lengths, alignment and the *)
(* end of the ring never put the two out of step, nor the offset outside   *)
(* the ring or the register's value outside its width.                     *)
OffsetInStep ==
  /\ rx_offset \in 0 .. RingSize - 4 /\ rx_offset % 4 = 0 /\ capr \in 0 .. RegisterSize - 1
  /\ pc # "advance" =>
       IF rx_count < Len(received) THEN memory[rx_offset \div 4] = <<rx_count + 1, 0>>
       ELSE rx_offset = card_pos

(* A stored frame stays whole in the ring until it has been handled: the   *)
(* room the driver gives back through the read pointer is never more than  *)
(* what it is done with.                                                   *)
UnreadFramesSurvive ==
  \A n \in rx_count + 1 .. Len(received) :
    \E first \in 0 .. RingSize \div 4 - 1 :
      \A i \in 0 .. InWords(received[n].length + 4) - 1 :
        memory[(first + i) % (RingSize \div 4)] = <<n, i>>

Answered == ToSet(sent) \ {Query, Garbled}

(* A frame has so many bytes, and the card stored them before the ring's   *)
(* end, with the header in front.                                          *)
Complete(n, bytes) ==
  /\ bytes + 4 <= received[n].length
  /\ received[n].at + 4 * (1 + InWords(bytes)) <= RingSize

(* Requests are answered in the order they came, each once and each of its *)
(* own bytes: every one handled of which the bytes copied lie together,    *)
(* even where its padding or the rest of its data wraps around the ring,   *)
(* and no other frame.  An answer made of foreign bytes goes out for every *)
(* echo that is recognised but shorter than what is copied, or wraps       *)
(* around within it, and can go out for any frame that wraps around within *)
(* what is tested, for none else.  What the driver hands over is           *)
(* transmitted at once: its descriptors and the card's stay in step.       *)
AnswersInOrder ==
  LET kind(n) == received[n].kind
      Asked   == {n \in 1 .. rx_count : kind(n) \in Requests}
      Whole   == {n \in Asked : Complete(n, Copied[kind(n)])}
      Seen    == {n \in 1 .. rx_count : Complete(n, Tested[kind(n)])}
      Garbage == {i \in DOMAIN sent : sent[i] = Garbled}
  IN
  /\ Answered = Whole
  /\ \A i, j \in DOMAIN sent : i < j /\ sent[i] > 0 /\ sent[j] > 0 => sent[i] < sent[j]
  /\ Cardinality((Asked \cap Seen) \ Whole) <= Cardinality(Garbage)
  /\ Cardinality(Garbage)
       <= Cardinality((Asked \cap Seen) \ Whole) + Cardinality((1 .. rx_count) \ Seen)
  /\ card_descriptor = tx_buffer_num

(* Every frame the card stores is handled. *)
EveryFrameIsHandled ==
  \A n \in 1 .. MaxFrames : Len(received) >= n ~> rx_count >= n
=============================================================================
