------------------------------ MODULE RxParser ------------------------------
(***************************************************************************)
(* The receive ring and the packet framing of components/cmd/               *)
(* cmd_utilities.c: push_rx_data, process_rx_data and the loop              *)
(*     recv; push_rx_data; while (process_rx_data()) {}                     *)
(* that net_cmd_task and sif_cmd_task run.  A packet is START, text, STOP;  *)
(* the host's bytes arrive in chunks that respect no packet boundary.       *)
(*                                                                         *)
(* The ring is kept byte by byte, consumed bytes included, because          *)
(* process_rx_data can read them.  A text is what reaches process_rx_packet *)
(* as json_cmd_string.                                                      *)
(***************************************************************************)
EXTENDS Integers, Sequences

CONSTANTS
  RingLen,    \* JSON_MAX_CMD_TEXT_LEN, the size of ring and of json_cmd_string
  MaxChunk,   \* most bytes one recv returns
  Texts,      \* the texts of the packets a host sends
  MaxWire,    \* bound: bytes sent and not yet received
  MaxNoise    \* bound: bytes outside the framing in a behaviour

START == "S"
STOP  == "E"
Bytes == {START, STOP} \union UNION {{t[i] : i \in 1..Len(t)} : t \in Texts}
Packet(t) == <<START>> \o t \o <<STOP>>

\* A well-behaved host's packet fits in the ring beside one more chunk.
ASSUME RingAssumption ==
  /\ RingLen \in Nat \ {0} /\ MaxChunk \in Nat \ {0} /\ Texts \subseteq Seq(Bytes)
  /\ \A t \in Texts : Len(t) + 2 + MaxChunk <= RingLen
  /\ \A t \in Texts : \A i \in 1..Len(t) : t[i] \notin {START, STOP}

VARIABLES
  ring,      \* rx_circular_buffer
  push,      \* rx_circular_push_index
  pop,       \* rx_circular_pop_index
  parsing,   \* the reader is inside while (process_rx_data()) {}
  wire,      \* bytes the host has sent and the reader not received
  pending,   \* texts sent and not dispatched, while the host is well behaved
  noise,     \* history: bytes the host has sent outside the framing
  wrong      \* history: a well-behaved host's packet was altered or repeated

hostVars == <<wire, pending, noise>>
ringVars == <<ring, push, pop>>
rxVars == <<hostVars, ringVars, wrong, parsing>>

Slots == 0..(RingLen - 1)

-----------------------------------------------------------------------------
(* The ring.                                                               *)

\* The index n slots after i: incremented and wrapped at RingLen.
Step(i, n) == (i + n) % RingLen

\* rx_buffer_used: bytes not yet consumed.
Used == IF push >= pop THEN push - pop ELSE push - pop + RingLen

\* push_rx_data's test that a write of n bytes leaves one slot free.
Fits(n) == n <= RingLen - 1 - Used

\* in_buffer(c): the offsets from pop at which c is held.
OffsetsOf(c) == {k \in 0..(Used - 1) : ring[Step(pop, k)] = c}

First(offsets) == CHOOSE k \in offsets : \A j \in offsets : k <= j

\* The loop of push_rx_data over the bytes of a chunk.
WriteBytes(chunk) ==
  /\ ring' = [i \in Slots |->
                IF \E k \in 1..Len(chunk) : i = Step(push, k - 1)
                THEN chunk[CHOOSE k \in 1..Len(chunk) : i = Step(push, k - 1)]
                ELSE ring[i]]
  /\ push' = Step(push, Len(chunk))
  /\ UNCHANGED pop

\* push_rx_data: write the chunk, or flush the ring when it does not fit.
Push(chunk) ==
  IF Fits(Len(chunk)) THEN WriteBytes(chunk)
  ELSE /\ push' = 0 /\ pop' = 0
       /\ UNCHANGED ring

-----------------------------------------------------------------------------
(* The host.                                                               *)

\* The host sends a packet ...
HostPacket(t) ==
  /\ Len(wire) + Len(t) + 2 <= MaxWire
  /\ wire' = wire \o Packet(t)
  /\ pending' = IF noise > 0 THEN pending ELSE Append(pending, t)
  /\ UNCHANGED <<noise, ringVars, wrong, parsing>>

\* ... or a byte outside the framing: line noise, a host that reconnects in
\* the middle of a packet, a command longer than the ring.
HostNoise(b) ==
  /\ Len(wire) < MaxWire /\ noise < MaxNoise
  /\ wire' = Append(wire, b)
  /\ noise' = noise + 1
  /\ pending' = <<>>
  /\ UNCHANGED <<ringVars, wrong, parsing>>

-----------------------------------------------------------------------------
(* The reader.                                                             *)

\* recv returns n bytes, which go into the ring.
Receive(n) ==
  /\ ~parsing /\ parsing' = TRUE
  /\ n <= Len(wire)
  /\ Push(SubSeq(wire, 1, n))
  /\ wire' = SubSeq(wire, n + 1, Len(wire))
  /\ UNCHANGED <<pending, noise, wrong>>

\* No STOP: process_rx_data returns false, the loop ends.
NoPacket ==
  /\ parsing /\ parsing' = FALSE
  /\ OffsetsOf(STOP) = {}
  /\ UNCHANGED <<hostVars, ringVars, wrong>>

\* Plausible bug: the STOP that was skipped is reported as a packet.
StrayStopFound ==
  /\ parsing
  /\ OffsetsOf(STOP) # {} /\ OffsetsOf(START) = {}
  /\ pop' = Step(pop, First(OffsetsOf(STOP)))
  /\ UNCHANGED <<hostVars, ring, push, wrong, parsing>>

\* A STOP and no START: the index is moved up to the STOP, and false returned.
StrayStop ==
  /\ parsing /\ parsing' = FALSE
  /\ OffsetsOf(STOP) # {} /\ OffsetsOf(START) = {}
  /\ pop' = Step(pop, First(OffsetsOf(STOP)))
  /\ UNCHANGED <<hostVars, ring, push, wrong>>

\* Plausible bug: the packet's STOP is left in the ring.
AfterStopKept(end) == end

\* The index past the packet.
AfterStop(end) == Step(end, 1)

\* The bytes copied to json_cmd_string: from the first START, itself included,
\* forward round the ring up to the first STOP.  At most RingLen - 1, so the
\* code's limit on the copy is never reached.
TextFrom(begin, end) ==
  [k \in 1..((end - begin) % RingLen) |-> ring[Step(begin, k - 1)]]

\* A packet is found: copy it, move past the STOP, process_rx_packet, true.
Dispatch ==
  /\ parsing
  /\ OffsetsOf(STOP) # {} /\ OffsetsOf(START) # {}
  /\ LET begin == Step(pop, First(OffsetsOf(START)))
         end   == Step(pop, First(OffsetsOf(STOP)))
         text  == TextFrom(begin, end)
         asSent == pending # <<>> /\ text = <<START>> \o Head(pending)
     IN /\ pop' = AfterStop(end)
        /\ pending' = IF asSent THEN Tail(pending) ELSE pending
        /\ wrong' = (wrong \/ (noise = 0 /\ ~asSent))
  /\ UNCHANGED <<wire, noise, ring, push, parsing>>

RxInit ==
  /\ \E b \in Bytes : ring = [i \in Slots |-> b]
  /\ push = 0 /\ pop = 0
  /\ parsing = FALSE
  /\ wire = <<>> /\ pending = <<>>
  /\ noise = 0 /\ wrong = FALSE

Parse == NoPacket \/ StrayStop \/ Dispatch

RxNext ==
  \/ \E t \in Texts : HostPacket(t)
  \/ \E b \in Bytes : HostNoise(b)
  \/ \E n \in 1..MaxChunk : Receive(n)
  \/ Parse

RxSpec == RxInit /\ [][RxNext]_rxVars

\* The reader goes on with its loop, and receives what has been sent.
RxFairSpec == RxSpec /\ WF_rxVars(Parse) /\ WF_rxVars(\E n \in 1..MaxChunk : Receive(n))

-----------------------------------------------------------------------------
(* Properties.                                                             *)

\* Whatever the chunks, and wherever the ring wraps, a well-behaved host's
\* packets are dispatched unaltered, once each and in order, and none is left
\* in the ring when the reader goes back to recv with nothing more sent.
ExactlyOnce ==
  noise = 0 => /\ ~wrong
               /\ wire = <<>> /\ ~parsing => pending = <<>>

\* while (process_rx_data()) {} ends whatever the ring holds, so the reader
\* goes back to recv.
ParseEnds == parsing ~> ~parsing
=============================================================================
