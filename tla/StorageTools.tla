---------------------------- MODULE StorageTools ----------------------------
(***************************************************************************)
(* The storage tools: fs_push, fs_pull, fs_delete, fs_rename, fs_mkdir,    *)
(* fs_list and the queries, as concurrent calls on one connection, with    *)
(* the files of the device and of the host.                                *)
(*                                                                         *)
(* A call makes one or two round trips, each in its own hold of _io_lock,  *)
(* so that other calls come in between.  The device takes its requests in  *)
(* order and late; an answer the host did not wait for stays on the link   *)
(* and is taken by the next round trip, which checks the kind of a frame   *)
(* (HasField) at most, never its command_id.  FlipperLink models the same  *)
(* link with its sessions and reconnects; here its frames carry the data.  *)
(***************************************************************************)
EXTENDS Naturals, Sequences, FiniteSets

CONSTANTS
    Calls,     \* concurrent tool calls
    NoCall,    \* "nobody holds _io_lock"
    Ops,       \* the tools that are called, a subset of AllOps
    Paths,     \* paths on the device
    Files,     \* paths on the host
    Names,     \* contents of files, as they were made
    Frames,    \* how many frames the device sends a content in
    Faults,    \* a subset of {"timeout", "cancel", "damage"}
    MaxTrips   \* bound: round trips of the calls that are made

Queries == {"stat", "info", "timestamp"}
Writers == {"push", "mkdir", "delete", "rename"}
AllOps == Writers \cup Queries \cup {"pull", "list"}

MaxFrames == CHOOSE n \in {Frames[c] : c \in Names} : \A c \in Names : Frames[c] <= n
\* cut 0 is the whole of a content, any other one a different part of it.
Bytes == [of : Names, cut : 0..(MaxFrames + 1)]
Empty == [of |-> "empty", cut |-> 0]
Absent == [of |-> "absent", cut |-> 0]
Dir == [of |-> "dir", cut |-> 0]
Data == Bytes \cup {Empty}
Whole(c) == [of |-> c, cut |-> 0]

ASSUME StorageAssumption ==
    /\ NoCall \notin Calls
    /\ Ops \subseteq AllOps
    /\ Names # {} /\ Names \cap {"empty", "absent", "dir"} = {}
    /\ Frames \in [Names -> Nat \ {0}]
    /\ \E longest \in Names : \A c \in Names : Frames[c] <= Frames[longest]
    /\ Faults \subseteq {"timeout", "cancel", "damage"}
    /\ MaxTrips \in Nat

VARIABLES
    job,      \* the tool calls: where each is, and its locals
    out,      \* how the call that ended last ended
    lock,     \* FlipperClient._io_lock
    todo,     \* requests the device has not taken
    rx,       \* frames on their way to the host
    chain,    \* the device is inside a write whose last fragment never came
    card,     \* the files of the device
    host,     \* the files of the host
    enabled,  \* FLIPPER_ENABLE_WRITE_TOOLS
    trips,    \* round trips of the calls that have begun
    dirty,    \* history: a request was given up, or its answer not taken whole
    was,      \* history: what some file of the device has held
    last      \* history: how the last pull that wrote the host file ended

linkVars == <<lock, todo, rx, trips, dirty>>
deviceVars == <<chain, card, was>>
hostVars == <<host, last>>
vars == <<job, out, linkVars, deviceVars, hostVars, enabled>>

\* path: of the device (old_path of a rename, whose new_path is to).  file: of the
\* host.  held: history, what the path has held since the call began.
Job == [pc : {"ask", "wait"}, op : AllOps, trip : 1..2,
        path : Paths, to : Paths, file : Files, data : Data \cup {Absent, Dir},
        held : SUBSET (Data \cup {Absent, Dir})]
NoOp == [pc |-> "idle"]

\* held: the result was true of the device's file at some moment of the call.
\* sure: nothing was given up on the link before.
Outcome == [res : {"ok", "error"}, transfer : BOOLEAN, held : BOOLEAN, sure : BOOLEAN]
Raised == [res |-> "error", transfer |-> FALSE, held |-> FALSE, sure |-> FALSE]

Wires == {"write", "frag", "md5sum", "read", "mkdir", "delete", "rename", "list"} \cup Queries
Request == [op : Wires, path : Paths, to : Paths, data : Data \cup {Absent, Dir}]
Answer == [op : Wires \cup {"error"}, ok : BOOLEAN, more : BOOLEAN,
           data : Data \cup {Absent, Dir}]

\* A status that is not OK; also stands for no frame at all.
Nothing == [op |-> "error", ok |-> FALSE, more |-> FALSE, data |-> Empty]

Init ==
    /\ job = [t \in Calls |-> NoOp]
    /\ out = Raised
    /\ lock = NoCall
    /\ todo = <<>> /\ rx = <<>>
    /\ chain = FALSE
    /\ card \in [Paths -> {Absent} \cup {Whole(c) : c \in Names}]
    /\ host \in [Files -> {Absent} \cup {Whole(c) : c \in Names}]
    /\ enabled \in BOOLEAN
    /\ trips = 0
    /\ dirty = FALSE
    /\ was = {card[p] : p \in Paths}
    /\ last = [f \in Files |-> "none"]

-----------------------------------------------------------------------------
(***************************************************************************)
(* The first lines of the tools, and their ends.                           *)
(***************************************************************************)

\* What a result has to be true of: the device's file at some moment of the call.
Claim(j) ==
    CASE j.op \in {"delete", "rename"} -> Absent
      [] j.op = "mkdir" -> Dir
      [] OTHER -> j.data

\* The tool returns, or raises.
End(j, okay) ==
    out' = IF okay THEN [res |-> "ok", transfer |-> j.op \in {"push", "pull"},
                         held |-> Claim(j) \in j.held, sure |-> ~dirty]
                   ELSE Raised

\* require_write_tools(), and fs_push's read of the local file.
Refused(op, f) == (op \in Writers /\ ~enabled) \/ (op = "push" /\ host[f] = Absent)

\* Up to get_rpc().  A refused call has sent nothing.
Begin(t, op) ==
    /\ job[t].pc = "idle"
    /\ trips + 2 <= MaxTrips
    /\ trips' = trips + IF op \in {"push", "pull"} THEN 2 ELSE 1
    /\ \E p, to \in Paths, f \in Files :
         /\ (op = "rename" <=> p # to) \/ Cardinality(Paths) = 1
         /\ ~Refused(op, f)
         /\ job' = [job EXCEPT ![t] =
               [pc |-> "ask", op |-> op, trip |-> 1, path |-> p, to |-> to, file |-> f,
                data |-> IF op = "push" THEN host[f] ELSE Empty, held |-> {card[p]}]]
    /\ UNCHANGED <<out, lock, todo, rx, dirty, deviceVars, hostVars, enabled>>

Refuse(t, op) ==
    /\ job[t].pc = "idle"
    /\ \E f \in Files : Refused(op, f)
    /\ out' = Raised
    /\ UNCHANGED <<job, linkVars, deviceVars, hostVars, enabled>>

-----------------------------------------------------------------------------
(***************************************************************************)
(* A round trip.                                                           *)
(***************************************************************************)

\* The RPC method of a call's round trip.
Method(j) ==
    CASE j.op \in {"push", "pull"} /\ j.trip = 2 -> "md5sum"
      [] j.op = "push" /\ j.trip = 1 -> "write"
      [] j.op = "pull" /\ j.trip = 1 -> "read"
      [] OTHER -> j.op

Asked(j) == [op |-> Method(j), path |-> j.path, to |-> j.to,
             data |-> IF Method(j) = "write" THEN j.data ELSE Empty]

\* "async with self._io_lock", and the request.
Ask(t) ==
    LET j == job[t] IN
    /\ j.pc = "ask"
    /\ lock = NoCall
    /\ lock' = t
    /\ todo' = Append(todo, Asked(j))
    /\ job' = [job EXCEPT ![t].pc = "wait"]
    /\ UNCHANGED <<out, rx, trips, dirty, deviceVars, hostVars, enabled>>

\* What the RPC method makes of a frame: storage_write, mkdir, delete, rename and
\* list look at the status only, the others at the kind of response as well.
Taken(j, a) ==
    /\ a.ok
    /\ Method(j) \in Queries \cup {"md5sum", "read"} => a.op = Method(j)

\* Mutant: a failed read gives None.
SecondTripNone(t, a) ==
    LET j == job[t] IN
    /\ j.op \in {"push", "pull"} /\ j.trip = 1
    /\ job' = [job EXCEPT ![t] = [j EXCEPT !.pc = "ask", !.trip = 2,
           !.data = IF j.op = "pull" THEN IF Taken(j, a) THEN a.data ELSE Nothing ELSE j.data]]
    /\ UNCHANGED <<out, hostVars>>

\* Mutant: fs_push believes the acknowledgement.
SecondTripUnverified(t, a) ==
    LET j == job[t] IN
    /\ j.op \in {"push", "pull"} /\ j.trip = 1
    /\ j.op = "push"
    /\ job' = [job EXCEPT ![t] = NoOp]
    /\ End(j, Taken(j, a))
    /\ UNCHANGED hostVars

\* fs_push and fs_pull after their first round trip.  A failed read is b"".
SecondTrip(t, a) ==
    LET j == job[t] IN
    /\ j.op \in {"push", "pull"} /\ j.trip = 1
    /\ IF j.op = "push" /\ ~Taken(j, a)
         THEN job' = [job EXCEPT ![t] = NoOp] /\ End(j, FALSE)
         ELSE /\ job' = [job EXCEPT ![t] = [j EXCEPT !.pc = "ask", !.trip = 2,
                     !.data = CASE j.op = "push" -> j.data
                                [] j.op = "pull" /\ Taken(j, a) -> a.data
                                [] OTHER -> Empty]]
              /\ UNCHANGED out
    /\ UNCHANGED hostVars

\* _verify_md5() of fs_push.  A digest is the data it was made of.
VerifyPush(t, a) ==
    LET j == job[t] IN
    /\ j.op = "push" /\ j.trip = 2
    /\ job' = [job EXCEPT ![t] = NoOp]
    /\ End(j, Taken(j, a) /\ a.data = j.data)
    /\ UNCHANGED hostVars

\* Mutant: a missing digest is not an error.
VerifyPullLoose(t, a) ==
    LET j == job[t] IN
    /\ j.op = "pull" /\ j.trip = 2
    /\ job' = [job EXCEPT ![t] = NoOp]
    /\ host' = [host EXCEPT ![j.file] = j.data]
    /\ LET fits == Taken(j, a) => a.data = j.data
       IN  End(j, fits) /\ last' = [last EXCEPT ![j.file] = IF fits THEN "ok" ELSE "error"]

\* The rest of fs_pull: the local file is written first and verified then; writing
\* it may fail.
VerifyPull(t, a) ==
    LET j == job[t] IN
    /\ j.op = "pull" /\ j.trip = 2
    /\ job' = [job EXCEPT ![t] = NoOp]
    /\ \/ /\ host' = [host EXCEPT ![j.file] = j.data]
          /\ LET fits == Taken(j, a) /\ a.data = j.data
             IN  /\ End(j, fits)
                 /\ last' = [last EXCEPT ![j.file] = IF fits THEN "ok" ELSE "error"]
       \/ End(j, FALSE) /\ UNCHANGED hostVars

\* _storage_list_frames: goes on while has_next is set; frames without a listing
\* add nothing.
ListFrame(t, a) ==
    LET j == [job[t] EXCEPT !.data = IF a.op = "list" THEN a.data ELSE job[t].data] IN
    /\ j.op = "list"
    /\ IF a.ok /\ a.more
         THEN job' = [job EXCEPT ![t] = j] /\ UNCHANGED out
         ELSE job' = [job EXCEPT ![t] = NoOp] /\ End(j, a.ok)
    /\ UNCHANGED hostVars

\* The tools of one round trip.
OnlyTrip(t, a) ==
    LET j == [job[t] EXCEPT !.data = a.data] IN
    /\ j.op \in Queries \cup {"mkdir", "delete", "rename"}
    /\ job' = [job EXCEPT ![t] = NoOp]
    /\ End(j, Taken(j, a))
    /\ UNCHANGED hostVars

\* What the tool does with a frame, or with None.
Handle(t, a) ==
    SecondTrip(t, a) \/ VerifyPush(t, a) \/ VerifyPull(t, a) \/ ListFrame(t, a) \/ OnlyTrip(t, a)

\* The oldest frame is taken for the answer.  One that announces more leaves the
\* rest behind, except in a listing.
Receive(t) ==
    /\ job[t].pc = "wait"
    /\ rx # <<>>
    /\ rx' = Tail(rx)
    /\ Handle(t, Head(rx))
    /\ LET on == job'[t].pc = "wait"
       IN  /\ lock' = IF on THEN t ELSE NoCall
           /\ dirty' = (dirty \/ (Head(rx).more /\ ~on))
    /\ UNCHANGED <<todo, trips, deviceVars, enabled>>

\* No frame in time.
TimeOut(t) ==
    /\ "timeout" \in Faults
    /\ job[t].pc = "wait"
    /\ Handle(t, Nothing)
    /\ lock' = NoCall
    /\ dirty' = TRUE
    /\ UNCHANGED <<todo, rx, trips, deviceVars, enabled>>

\* The MCP client cancels the call.  A write may stop between two fragments.
Cancel(t) ==
    /\ "cancel" \in Faults
    /\ job[t].pc # "idle"
    /\ job' = [job EXCEPT ![t] = NoOp]
    /\ End(job[t], FALSE)
    /\ IF lock = t
         THEN /\ lock' = NoCall
              /\ dirty' = TRUE
              /\ \/ UNCHANGED todo
                 \/ /\ todo # <<>> /\ todo[Len(todo)].op = "write" /\ Method(job[t]) = "write"
                    /\ todo' = [todo EXCEPT ![Len(todo)].op = "frag"]
         ELSE UNCHANGED <<lock, dirty, todo>>
    /\ UNCHANGED <<rx, trips, deviceVars, hostVars, enabled>>

-----------------------------------------------------------------------------
(***************************************************************************)
(* The device (external): the storage service behind the RPC session.      *)
(***************************************************************************)

\* What damage or an unfinished write makes of data.
Damaged(d) == {b \in Bytes : b.of = d.of /\ b.cut = IF d.cut = 1 THEN 2 ELSE 1}

Spoilt(d) == IF "damage" \in Faults THEN Damaged(d) ELSE {}

\* The calls see what their path has come to hold.
Witness ==
    /\ was' = was \cup {card'[p] : p \in Paths}
    /\ job' = [t \in Calls |-> IF job[t].pc = "idle" THEN job[t]
                               ELSE [job[t] EXCEPT !.held = @ \cup {card'[job[t].path]}]]

Can(r) ==
    CASE r.op = "write" -> card[r.path] # Dir
      [] r.op \in {"md5sum", "read"} -> card[r.path] \notin {Absent, Dir}
      [] r.op = "mkdir" -> card[r.path] = Absent
      [] r.op = "rename" -> card[r.path] # Absent /\ card[r.to] = Absent
      [] OTHER -> card[r.path] # Absent

\* The files after a request that is carried out: a write may be damaged unseen.
Effect(r) ==
    CASE r.op = "write" -> {[card EXCEPT ![r.path] = d] : d \in {r.data} \cup Spoilt(r.data)}
      [] r.op = "delete" -> {[card EXCEPT ![r.path] = Absent]}
      [] r.op = "mkdir" -> {[card EXCEPT ![r.path] = Dir]}
      [] r.op = "rename" -> {[card EXCEPT ![r.path] = Absent, ![r.to] = card[r.path]]}
      [] OTHER -> {card}

\* The files after one that is not: a write may have begun.
Failed(r) ==
    {card} \cup IF r.op = "write" /\ card[r.path] # Dir
               THEN {[card EXCEPT ![r.path] = d] : d \in Spoilt(r.data)} ELSE {}

Reply(r, d, more) == [op |-> r.op, ok |-> TRUE, more |-> more, data |-> d]

\* The frames of an answer: a content in its parts, a listing in one or two.
Replies(r) ==
    LET d == card[r.path]
        n == IF d \in Bytes THEN IF d.cut = 0 THEN Frames[d.of] ELSE 1 ELSE 1
    IN  CASE r.op = "read" /\ n > 1
               -> {[i \in 1..n |-> Reply(r, [d EXCEPT !.cut = i], i < n)]}
          [] r.op = "list" -> {[i \in 1..k |-> Reply(r, d, i < k)] : k \in 1..2}
          [] r.op \in {"write", "mkdir", "delete", "rename"} -> {<<Reply(r, Empty, FALSE)>>}
          [] OTHER -> {<<Reply(r, d, FALSE)>>}

\* A request that meets an unfinished write may be preceded by its error.
Interrupted == IF chain THEN {<<>>, <<Nothing>>} ELSE {<<>>}

Serve ==
    LET r == Head(todo) IN
    /\ todo # <<>>
    /\ r.op # "frag"
    /\ \E first \in Interrupted :
         \/ /\ Can(r)
            /\ card' \in Effect(r)
            /\ \E frames \in Replies(r) : rx' = rx \o first \o frames
         \/ /\ card' \in Failed(r)
            /\ rx' = rx \o first \o <<Nothing>>
    /\ todo' = Tail(todo)
    /\ chain' = FALSE
    /\ Witness
    /\ UNCHANGED <<out, lock, trips, dirty, hostVars, enabled>>

\* The fragments of a write whose last one never comes.
Fragment ==
    LET r == Head(todo) IN
    /\ todo # <<>>
    /\ r.op = "frag"
    /\ card' \in {card} \cup {[card EXCEPT ![r.path] = d] : d \in Damaged(r.data)}
    /\ todo' = Tail(todo)
    /\ chain' = TRUE
    /\ Witness
    /\ UNCHANGED <<out, lock, rx, trips, dirty, hostVars, enabled>>

-----------------------------------------------------------------------------
Next ==
    \/ \E t \in Calls :
         \/ \E op \in Ops : Begin(t, op) \/ Refuse(t, op)
         \/ Ask(t) \/ Receive(t) \/ TimeOut(t) \/ Cancel(t)
    \/ Serve \/ Fragment

Spec == Init /\ [][Next]_vars

-----------------------------------------------------------------------------
(***************************************************************************)
(* Properties.                                                             *)
(***************************************************************************)

Held == Data \cup {Absent, Dir}

\* The calls, the link, the files and the history keep their types.
TypeOK ==
    /\ job \in [Calls -> Job \cup {NoOp}]
    /\ out \in Outcome
    /\ lock \in Calls \cup {NoCall}
    /\ todo \in Seq(Request) /\ rx \in Seq(Answer)
    /\ card \in [Paths -> Held] /\ host \in [Files -> Data \cup {Absent}]
    /\ chain \in BOOLEAN /\ enabled \in BOOLEAN /\ dirty \in BOOLEAN
    /\ trips \in 0..MaxTrips
    /\ was \subseteq Held /\ last \in [Files -> {"none", "ok", "error"}]

\* A result that is returned is true of the device: the file held, at some moment
\* of the call, what was pushed, pulled or listed, or was gone or made, whatever
\* the device damaged or refused and other calls did between the round trips;
\* provided no earlier exchange was given up or left frames behind.
ResultHeld == out.res = "ok" /\ out.sure => out.held

\* A local file whose last pull returned holds what some file of the device has
\* held whole: a read that failed, came in part or took a stray frame is reported,
\* though the file is overwritten before it is verified, even on a link out of step.
PulledExisted == \A f \in Files : last[f] = "ok" => host[f] \in was

\* What the digests and contents on the link, in step or not, are made of.
Honest == {a \in Answer : a.ok => /\ a.op = "md5sum" => a.data \in was
                                  /\ a.op = "read" => a.data \in Data}
AnswersAreHonest == rx \in Seq(Honest)
CardIsKnown == \A p \in Paths : card[p] \in was
PullIsData == \A t \in Calls : job[t].pc # "idle" /\ job[t].op = "pull" => job[t].data \in Data

\* _io_lock is held by the call that waits for an answer.
LockIsHeld == \A t \in Calls : job[t].pc = "wait" <=> lock = t

\* A frame answers the round trip of j: what it says was so during the call.
Answering(j, a) ==
    a.ok => /\ a.op = Method(j)
            /\ Method(j) \in Queries \cup {"md5sum", "list"} => a.data \in j.held
            /\ Method(j) = "mkdir" => Dir \in j.held
            /\ Method(j) \in {"delete", "rename"} => Absent \in j.held

\* The link holds what the lock's holder asked for: its request, or the rest of its
\* answer.
RoundTrip(j) ==
    \/ rx = <<>> /\ todo = <<Asked(j)>>
    \/ /\ todo = <<>> /\ rx # <<>>
       /\ \A k \in 1..Len(rx) : Answering(j, rx[k]) /\ (rx[k].more <=> k < Len(rx))
LinkInStep ==
    ~dirty => /\ ~chain
              /\ lock = NoCall => todo = <<>> /\ rx = <<>>
              /\ lock # NoCall => RoundTrip(job[lock])

\* The inductive invariant behind ResultHeld and PulledExisted.
StorageInv ==
    /\ TypeOK /\ AnswersAreHonest /\ CardIsKnown /\ PullIsData /\ LockIsHeld /\ LinkInStep
    /\ ResultHeld /\ PulledExisted

-----------------------------------------------------------------------------
(***************************************************************************)
(* What the repository says and the code does not do.                      *)
(***************************************************************************)

\* "Push/pull verify integrity by comparing the local MD5 to the device's
\* storage_md5sum, failing loud on mismatch" (tools/storage.py:4-5): a transfer
\* that returns moved the file it was asked for.
VerifiedIsAsked == out.res = "ok" /\ out.transfer => out.held
=============================================================================
