---------------------------- MODULE FrameChannel ----------------------------
(***************************************************************************)
(* What the framed link promises: a queue of frames.  A receive takes the  *)
(* oldest frame, whole, or nothing.  The channel comes out of step only    *)
(* when a receive ends inside a frame or meets one that is refused, when a *)
(* flush leaves some of what was pending, or when a read that a cancelled  *)
(* receive left running takes some of it; it then promises nothing until   *)
(* it is flushed.                                                          *)
(***************************************************************************)
EXTENDS Sequences

CONSTANTS
    Payloads, NoFrame,
    Refused   \* frames whose length is not accepted

VARIABLES
    pending,  \* frames sent and not received, while in step
    skewed,   \* out of step
    taken,    \* what the last receive returned
    at,       \* no receive, one that has read nothing yet, or one inside a frame
    orphan    \* a cancelled receive has left a read running

vars == <<pending, skewed, taken, at, orphan>>

Init ==
    /\ pending = <<>> /\ skewed = FALSE /\ taken = NoFrame
    /\ at = "out" /\ orphan = FALSE

Send(f) ==
    /\ pending' = IF skewed THEN <<>> ELSE Append(pending, f)
    /\ UNCHANGED <<skewed, taken, at, orphan>>

Begin == at = "out" /\ at' = "waiting" /\ UNCHANGED <<pending, skewed, taken, orphan>>

\* There is something to read, and the receive has read some of it.
Open ==
    /\ at = "waiting" /\ at' = "inside"
    /\ skewed \/ pending # <<>>
    /\ UNCHANGED <<pending, skewed, taken, orphan>>

\* The oldest frame is received; an empty one counts as none.
Deliver ==
    /\ ~skewed /\ pending # <<>> /\ Head(pending) \notin Refused
    /\ at # "out" /\ at' = "out"
    /\ taken' = IF Head(pending) = <<>> THEN NoFrame ELSE Head(pending)
    /\ pending' = Tail(pending)
    /\ UNCHANGED <<skewed, orphan>>

\* A receive times out or is cancelled before the first byte: nothing is lost.
Miss ==
    /\ at = "waiting" /\ at' = "out"
    /\ taken' = NoFrame
    /\ orphan' \in {orphan, TRUE}
    /\ UNCHANGED <<pending, skewed>>

\* A receive ends inside a frame, or meets one that is refused.
Slip ==
    /\ \/ at = "inside"
       \/ at = "waiting" /\ (skewed \/ (pending # <<>> /\ Head(pending) \in Refused))
    /\ at' = "out"
    /\ taken' = NoFrame
    /\ skewed' = TRUE /\ pending' = <<>>
    /\ orphan' \in {orphan, TRUE}

\* Out of step, whatever is read is taken for a frame.
Stray == skewed /\ at = "inside" /\ at' = "out" /\ UNCHANGED <<pending, skewed, orphan>>

\* What is pending is dropped; if there was any, the end of it may be left.
Flush ==
    /\ at = "out"
    /\ pending' = <<>>
    /\ skewed' \in {FALSE, skewed \/ pending # <<>>}
    /\ UNCHANGED <<taken, at, orphan>>

\* The read left running ends, with nothing or with some of what is pending.
Steal ==
    /\ orphan /\ orphan' = FALSE
    /\ \/ UNCHANGED <<pending, skewed>>
       \/ (skewed \/ pending # <<>>) /\ pending' = <<>> /\ skewed' = TRUE
    /\ UNCHANGED <<taken, at>>

Next ==
    \/ \E f \in Payloads : Send(f)
    \/ Begin \/ Open \/ Deliver \/ Miss \/ Slip \/ Stray \/ Flush \/ Steal

Spec == Init /\ [][Next]_vars
=============================================================================
