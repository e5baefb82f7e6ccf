------------------------------ MODULE Framing ------------------------------
(***************************************************************************)
(* Frames out of bytes: the nanopb-delimited stream from the device, which *)
(* arrives in chunks of any size, receive_exact() with its buffer,         *)
(* _read_varint() and _receive_main_message() with their time-outs.        *)
(*                                                                         *)
(* A byte is a digit of base Base, plus Base when another one follows: the *)
(* code's 7 bits and 0x80.  The bounds of the code are constants, so that  *)
(* small ones reach every edge.  FlipperLink's Misread stands for what is  *)
(* modelled here.                                                          *)
(***************************************************************************)
EXTENDS Naturals, Sequences

CONSTANTS
    Base,      \* 2^7 in the code
    MaxBytes,  \* bytes of a varint that _read_varint() accepts (5)
    MaxLen,    \* the largest payload accepted (1,000,000)
    Payloads,  \* what the device may send in a frame
    NoFrame,   \* None
    MaxSent    \* bound: frames sent

Byte == 0..(2 * Base - 1)

ASSUME FramingAssumption ==
    /\ Base \in Nat \ {0, 1}
    /\ MaxBytes \in Nat \ {0} /\ MaxLen \in Nat \ {0} /\ MaxSent \in Nat
    /\ Payloads \subseteq Seq(Byte)
    /\ NoFrame \notin Payloads

VARIABLES
    wire,    \* bytes sent and not read by receive()
    buf,     \* FlipperTransport._rx_buffer
    pc,      \* outside _receive_main_message(), in its length or in its payload
    value, count,  \* _read_varint()'s locals: the value so far, the bytes read
    weight,  \* 2^shift
    need,    \* payload_len
    orphan,  \* a cancelled call has left a serial read running
    taken,   \* what _receive_main_message() last returned
    sent,    \* frames sent
    pending, \* history: frames sent and not received, while in step
    skewed   \* history: the next byte to read may not begin a frame

readVars == <<pc, value, count, weight, need>>
vars == <<wire, buf, readVars, orphan, taken, sent, pending, skewed>>

\* _encode_varint().
Encode[n \in Nat] ==
    IF n < Base THEN <<n>> ELSE <<Base + (n % Base)>> \o Encode[n \div Base]

Framed(f) == Encode[Len(f)] \o f

Suffixes(s) == {SubSeq(s, i, Len(s)) : i \in 1..(Len(s) + 1)}

Init ==
    /\ wire = <<>> /\ buf = <<>>
    /\ pc = "out" /\ value = 0 /\ count = 0 /\ weight = 1 /\ need = 0
    /\ orphan = FALSE
    /\ taken = NoFrame
    /\ sent = 0
    /\ pending = <<>> /\ skewed = FALSE

-----------------------------------------------------------------------------
(***************************************************************************)
(* The device (external) and the driver.                                   *)
(***************************************************************************)

DevSend(f) ==
    /\ sent < MaxSent
    /\ sent' = sent + 1
    /\ wire' = wire \o Framed(f)
    /\ pending' = IF skewed THEN <<>> ELSE Append(pending, f)
    /\ UNCHANGED <<buf, readVars, orphan, taken, skewed>>

-----------------------------------------------------------------------------
(***************************************************************************)
(* receive_exact().                                                        *)
(***************************************************************************)

\* The bytes that receive_exact() is waiting for.
Wanted == IF pc = "length" THEN 1 ELSE need

\* Mutant: what is read beyond the bytes wanted is dropped.
ChunkDropsRest ==
    /\ pc # "out"
    /\ Len(buf) < Wanted
    /\ \E n \in 1..Len(wire) :
         /\ buf' = SubSeq(buf \o SubSeq(wire, 1, n), 1, Wanted)
         /\ wire' = SubSeq(wire, n + 1, Len(wire))
    /\ UNCHANGED <<readVars, orphan, taken, sent, pending, skewed>>

\* receive() returns a chunk: as much as has arrived.
Chunk ==
    /\ pc # "out"
    /\ Len(buf) < Wanted
    /\ \E n \in 1..Len(wire) :
         /\ buf' = buf \o SubSeq(wire, 1, n)
         /\ wire' = SubSeq(wire, n + 1, Len(wire))
    /\ UNCHANGED <<readVars, orphan, taken, sent, pending, skewed>>

\* _receive_main_message() begins.
Begin ==
    /\ pc = "out"
    /\ pc' = "length"
    /\ value' = 0 /\ count' = 0 /\ weight' = 1
    /\ UNCHANGED <<wire, buf, need, orphan, taken, sent, pending, skewed>>

\* _receive_main_message() returns; its locals are gone.
Return(result) ==
    /\ pc' = "out" /\ value' = 0 /\ count' = 0 /\ weight' = 1 /\ need' = 0
    /\ taken' = result

\* It returns None somewhere inside a frame.
Slip ==
    /\ Return(NoFrame)
    /\ skewed' = TRUE
    /\ pending' = <<>>

\* Bytes of a frame have been read and not all of it.
Inside == pc = "payload" \/ count > 0

\* Mutant: a time-out is given up as inside a frame, wherever it strikes.
TimeOutSlips ==
    /\ pc # "out"
    /\ Len(buf) < Wanted
    /\ Slip
    /\ UNCHANGED <<wire, buf, orphan, sent>>

\* The time-out of a receive_exact(): the bytes it waited with stay in the buffer,
\* those read before it are gone.
TimeOut ==
    /\ pc # "out"
    /\ Len(buf) < Wanted
    /\ IF Inside THEN Slip ELSE Return(NoFrame) /\ UNCHANGED <<pending, skewed>>
    /\ UNCHANGED <<wire, buf, orphan, sent>>

\* The call is cancelled; on USB a read is left running in the executor.
Cancel ==
    /\ pc # "out"
    /\ IF Inside THEN Slip ELSE Return(NoFrame) /\ UNCHANGED <<pending, skewed>>
    /\ orphan' \in {orphan, TRUE}
    /\ UNCHANGED <<wire, buf, sent>>

\* The read left running takes what has arrived, if anything, and ends.
OrphanRead ==
    /\ orphan
    /\ orphan' = FALSE
    /\ \E rest \in Suffixes(wire) :
         /\ wire' = rest
         /\ IF rest = wire THEN UNCHANGED <<pending, skewed>>
                           ELSE pending' = <<>> /\ skewed' = TRUE
    /\ UNCHANGED <<buf, readVars, taken, sent>>

-----------------------------------------------------------------------------
(***************************************************************************)
(* _read_varint() and _receive_main_message().                             *)
(***************************************************************************)

\* value with the seven bits of the next byte.
Shifted(b) == value + (b % Base) * weight

\* Mutant: no limit on the length.
LengthByteUnlimited ==
    /\ pc = "length" /\ buf # <<>>
    /\ buf' = Tail(buf)
    /\ IF Head(buf) >= Base
         THEN /\ value' = Shifted(Head(buf)) /\ count' = count + 1 /\ weight' = weight * Base
              /\ UNCHANGED <<pc, need>>
         ELSE pc' = "payload" /\ need' = Shifted(Head(buf)) /\ UNCHANGED <<value, count, weight>>
    /\ UNCHANGED <<wire, orphan, taken, sent, pending, skewed>>

\* One byte of the length.  A varint that is too long, and a length that is zero or
\* too large, are given up; the bytes that follow are left where they are.
LengthByte ==
    /\ pc = "length" /\ buf # <<>>
    /\ buf' = Tail(buf)
    /\ LET b == Head(buf)
           v == Shifted(b)
       IN  CASE b >= Base /\ count + 1 < MaxBytes ->
                  /\ value' = v /\ count' = count + 1 /\ weight' = weight * Base
                  /\ UNCHANGED <<pc, need, taken, pending, skewed>>
             [] b < Base /\ v \in 1..MaxLen ->
                  /\ pc' = "payload" /\ need' = v
                  /\ UNCHANGED <<value, count, weight, taken, pending, skewed>>
             [] b < Base /\ v = 0 /\ ~skewed ->
                  /\ Return(NoFrame)
                  /\ pending' = Tail(pending)
                  /\ UNCHANGED skewed
             [] OTHER -> Slip
    /\ UNCHANGED <<wire, orphan, sent>>

\* The payload is complete.  (Out of step it may not decode, which is None.)
Payload ==
    /\ pc = "payload" /\ Len(buf) >= need
    /\ buf' = SubSeq(buf, need + 1, Len(buf))
    /\ \E result \in {SubSeq(buf, 1, need)} \cup IF skewed THEN {NoFrame} ELSE {} : Return(result)
    /\ pending' = IF skewed THEN <<>> ELSE Tail(pending)
    /\ UNCHANGED <<wire, orphan, sent, skewed>>

\* clear_receive_buffer() and drain_host_rx(), before a probe: what comes after the
\* drain's budget is still to be read.
Drain ==
    /\ pc = "out"
    /\ buf' = <<>>
    /\ wire' \in Suffixes(wire)
    /\ skewed' = (wire' # <<>>)
    /\ pending' = <<>>
    /\ UNCHANGED <<readVars, orphan, taken, sent>>

-----------------------------------------------------------------------------
Next ==
    \/ \E f \in Payloads : DevSend(f)
    \/ Begin \/ Chunk \/ LengthByte \/ Payload \/ TimeOut \/ Cancel \/ OrphanRead \/ Drain

Spec == Init /\ [][Next]_vars

-----------------------------------------------------------------------------
(***************************************************************************)
(* Properties.                                                             *)
(***************************************************************************)

\* The bytes, the reader's locals and the history keep their types.
TypeOK ==
    /\ wire \in Seq(Byte) /\ buf \in Seq(Byte)
    /\ pc \in {"out", "length", "payload"}
    /\ value \in Nat /\ count \in 0..(MaxBytes - 1) /\ weight \in Nat /\ need \in 0..MaxLen
    /\ orphan \in BOOLEAN /\ sent \in 0..MaxSent
    /\ taken \in Seq(Byte) \cup {NoFrame}
    /\ pending \in Seq(Payloads) /\ skewed \in BOOLEAN

\* The bytes of the frames from the n-th on.
Stream[n \in 1..(MaxSent + 1)] ==
    IF n > Len(pending) THEN <<>> ELSE Framed(pending[n]) \o Stream[n + 1]

\* How many bytes of the current frame have been read.
ReadSoFar == IF pc = "payload" THEN count + 1 ELSE count

\* In step, buffer and wire hold exactly the frames that are still to be received,
\* less what the reader has consumed of the first, and the length it has decoded is
\* that frame's, however the bytes were cut into chunks and whatever timed out
\* between two frames.
InSync ==
    ~skewed =>
      /\ buf \o wire = SubSeq(Stream[1], ReadSoFar + 1, Len(Stream[1]))
      /\ pc = "payload" => pending # <<>> /\ need = Len(Head(pending))

\* Between two frames the reader's locals are fresh, a length of zero is never waited
\* for, and what is pending is accounted for.
FreshLocals ==
    /\ pc # "payload" /\ count = 0 => value = 0 /\ weight = 1
    /\ pc = "out" => count = 0
    /\ pc = "payload" => need > 0
    /\ skewed => pending = <<>>
    /\ Len(pending) <= sent

\* A receive: none, one that has read nothing yet, or one inside a frame.
At == IF pc = "out" THEN "out" ELSE IF Inside THEN "inside" ELSE "waiting"

\* Frames that the reader gives up: the length is too large or its varint too long.
Refused == {f \in Payloads : Len(f) > MaxLen \/ Len(Encode[Len(f)]) > MaxBytes}

\* The reader implements a queue of whole frames, which comes out of step only when
\* a receive ends inside a frame or meets a length it refuses, when a drain leaves
\* bytes behind, or when the read of a cancelled call takes some; receives that time
\* out between frames lose nothing, and a frame within the limits is never refused.
Channel == INSTANCE FrameChannel WITH at <- At
ImplementsChannel == Channel!Spec
=============================================================================
