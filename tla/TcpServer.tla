----------------------------- MODULE TcpServer -----------------------------
(***************************************************************************)
(* The TCP server of the WiFi bridge (firmware/tcp_uart_bridge):           *)
(* accept_task, one rx_task per client and tcp_server_send, which run as   *)
(* FreeRTOS tasks and share s_client_sock, s_client_generation and the     *)
(* socket layer's descriptor table.                                        *)
(*                                                                         *)
(* A step is what a task does between two blocking calls.  What it does    *)
(* under s_client_mutex is one step: no task blocks while it holds it.     *)
(* Connections are numbered in the order they are accepted, so connection  *)
(* c is installed with s_client_generation = c.  s_running is TRUE:        *)
(* nothing calls tcp_server_stop.  s_rx_task is never used.                *)
(***************************************************************************)
EXTENDS Integers, FiniteSets

CONSTANTS
    NFds,      \* size of the descriptor table
    MaxConns,  \* bound: connections accepted
    MaxSends   \* bound: chunks that arrive from the Flipper

ASSUME ServerAssumption ==
    NFds \in Nat \ {0} /\ MaxConns \in Nat /\ MaxSends \in Nat

Fds == 0..(NFds - 1)
NoFd == -1
Conns == 1..MaxConns

VARIABLES
    table,   \* the descriptor table: the connection a descriptor refers to, or 0
    sock,    \* s_client_sock
    gen,     \* s_client_generation
    acc,     \* accept_task: where it is, and new_sock
    rx,      \* the rx_task of each connection: where it is, and its sock
    peer,    \* the client at the other end of each connection
    snd,     \* tcp_server_send: the descriptor it has copied, or NoFd
    sends,   \* bound: chunks sent so far
    foreign  \* history: a clean-up closed a descriptor that was not its own

vars == <<table, sock, gen, acc, rx, peer, snd, sends, foreign>>

\* accept_task waiting in accept().
Idle == [pc |-> "accept", fd |-> NoFd]

Init ==
    /\ table = [f \in Fds |-> 0]
    /\ sock = NoFd
    /\ gen = 0
    /\ acc = Idle
    /\ rx = [c \in Conns |-> [pc |-> "none", fd |-> NoFd]]
    /\ peer = [c \in Conns |-> "none"]
    /\ snd = NoFd
    /\ sends = 0
    /\ foreign = FALSE

\* External.  close(): the number is free at once; closing a free one is an error
\* that nobody looks at.
Close(tab, f) == [tab EXCEPT ![f] = 0]

\* External.  The socket layer hands out the lowest free number.
LowestFree(f) == table[f] = 0 /\ \A g \in Fds : table[g] = 0 => f <= g

-----------------------------------------------------------------------------
(***************************************************************************)
(* accept_task.                                                            *)
(***************************************************************************)

\* accept() returns a new client.  With the table full it fails, and is retried.
Accept ==
    /\ acc.pc = "accept"
    /\ gen < MaxConns
    /\ \E f \in Fds :
         /\ LowestFree(f)
         /\ table' = [table EXCEPT ![f] = gen + 1]
         /\ acc' = [pc |-> "install", fd |-> f]
    /\ peer' = [peer EXCEPT ![gen + 1] = "open"]
    /\ UNCHANGED <<sock, gen, rx, snd, sends, foreign>>

\* Mutant: the previous client is forgotten, not closed.
InstallOver ==
    /\ acc.pc = "install"
    /\ sock' = acc.fd
    /\ gen' = gen + 1
    /\ acc' = [acc EXCEPT !.pc = "start"]
    /\ UNCHANGED <<table, rx, peer, snd, sends, foreign>>

\* Under the mutex: close the previous client, register the new one.
Install ==
    /\ acc.pc = "install"
    /\ table' = IF sock # NoFd THEN Close(table, sock) ELSE table
    /\ sock' = acc.fd
    /\ gen' = gen + 1
    /\ acc' = [acc EXCEPT !.pc = "start"]
    /\ UNCHANGED <<rx, peer, snd, sends, foreign>>

\* xTaskCreate() starts the client's rx_task.
StartRx ==
    /\ acc.pc = "start"
    /\ rx' = [rx EXCEPT ![gen] = [pc |-> "recv", fd |-> acc.fd]]
    /\ acc' = Idle
    /\ UNCHANGED <<table, sock, gen, peer, snd, sends, foreign>>

\* Mutant: the client is closed but stays registered.
StartFailsRegistered ==
    /\ acc.pc = "start"
    /\ table' = Close(table, acc.fd)
    /\ acc' = Idle
    /\ UNCHANGED <<sock, gen, rx, peer, snd, sends, foreign>>

\* malloc() or xTaskCreate() fails: the client is closed, and unregistered if it is
\* still the registered one.
StartFails ==
    /\ acc.pc = "start"
    /\ table' = Close(table, acc.fd)
    /\ sock' = IF sock = acc.fd THEN NoFd ELSE sock
    /\ acc' = Idle
    /\ UNCHANGED <<gen, rx, peer, snd, sends, foreign>>

-----------------------------------------------------------------------------
(***************************************************************************)
(* rx_task of connection c.                                                *)
(***************************************************************************)

\* recv() returns data, of whatever connection the descriptor refers to now, and
\* s_rx_callback (on_tcp_rx) is called; it waits between the chunks it forwards.
RxData(c) ==
    /\ rx[c].pc = "recv"
    /\ LET d == table[rx[c].fd] IN d # 0 /\ peer[d] = "open"
    /\ rx' = [rx EXCEPT ![c].pc = "forward"]
    /\ UNCHANGED <<table, sock, gen, acc, peer, snd, sends, foreign>>

RxForward(c) ==
    /\ rx[c].pc = "forward"
    /\ rx' = [rx EXCEPT ![c].pc = "recv"]
    /\ UNCHANGED <<table, sock, gen, acc, peer, snd, sends, foreign>>

\* recv() fails on a closed descriptor, or returns 0 when the client has gone.
RxEnd(c) ==
    /\ rx[c].pc = "recv"
    /\ LET d == table[rx[c].fd] IN d # 0 => peer[d] = "gone"
    /\ rx' = [rx EXCEPT ![c].pc = "close"]
    /\ UNCHANGED <<table, sock, gen, acc, peer, snd, sends, foreign>>

\* Mutant: the clean-up closes its socket and leaves it registered.
RxCleanRegistered(c) ==
    /\ rx[c].pc = "close"
    /\ table' = Close(table, rx[c].fd)
    /\ foreign' = (foreign \/ table[rx[c].fd] \notin {0, c})
    /\ rx' = [rx EXCEPT ![c].pc = "done"]
    /\ UNCHANGED <<sock, gen, acc, peer, snd, sends>>

\* The clean-up, under the mutex: close the descriptor either way, unregister only
\* while still current.
RxClean(c) ==
    /\ rx[c].pc = "close"
    /\ table' = Close(table, rx[c].fd)
    /\ sock' = IF sock = rx[c].fd /\ gen = c THEN NoFd ELSE sock
    /\ foreign' = (foreign \/ table[rx[c].fd] \notin {0, c})
    /\ rx' = [rx EXCEPT ![c].pc = "done"]
    /\ UNCHANGED <<gen, acc, peer, snd, sends>>

-----------------------------------------------------------------------------
(***************************************************************************)
(* tcp_server_send, called by on_rpc_rx in the UART task.                  *)
(***************************************************************************)

\* The descriptor is copied under the mutex; without a client the chunk is dropped.
SendBegin ==
    /\ snd = NoFd
    /\ sends < MaxSends
    /\ sends' = sends + 1
    /\ snd' = sock
    /\ UNCHANGED <<table, sock, gen, acc, rx, peer, foreign>>

\* send() on the copy: to the connection it refers to now, or an error.
SendEnd ==
    /\ snd # NoFd
    /\ snd' = NoFd
    /\ UNCHANGED <<table, sock, gen, acc, rx, peer, sends, foreign>>

\* External.  The client at the other end goes away.
PeerCloses(c) ==
    /\ peer[c] = "open"
    /\ peer' = [peer EXCEPT ![c] = "gone"]
    /\ UNCHANGED <<table, sock, gen, acc, rx, snd, sends, foreign>>

-----------------------------------------------------------------------------
AcceptStep == Install \/ StartRx \/ StartFails
RxStep(c) == RxForward(c) \/ RxEnd(c) \/ RxClean(c)

Next ==
    \/ Accept \/ AcceptStep \/ SendBegin \/ SendEnd
    \/ \E c \in Conns : RxData(c) \/ RxStep(c) \/ PeerCloses(c)

Spec == Init /\ [][Next]_vars

\* A ready task runs, and recv() returns once its connection is closed or has ended.
FairSpec == Spec /\ WF_vars(AcceptStep) /\ \A c \in Conns : WF_vars(RxStep(c))

-----------------------------------------------------------------------------
(***************************************************************************)
(* Properties.                                                             *)
(***************************************************************************)

\* Every variable stays in its domain.
TypeOK ==
    /\ table \in [Fds -> 0..MaxConns]
    /\ sock \in Fds \cup {NoFd}
    /\ gen \in 0..MaxConns
    /\ acc \in [pc : {"accept", "install", "start"}, fd : Fds \cup {NoFd}]
    /\ rx \in [Conns -> [pc : {"none", "recv", "forward", "close", "done"},
                         fd : Fds \cup {NoFd}]]
    /\ peer \in [Conns -> {"none", "open", "gone"}]
    /\ snd \in Fds \cup {NoFd}
    /\ sends \in 0..MaxSends
    /\ foreign \in BOOLEAN

\* No descriptor leaks, however clients replace each other and tasks fail: an open
\* one is the registered client's or the one accept_task is about to register.
OpenIsHeld == \A f \in Fds : table[f] # 0 => f \in {sock, acc.fd}

\* A registered client is served: its rx_task, or accept_task which is starting it,
\* is still there to unregister it, so tcp_server_has_client() cannot stay true
\* with nobody to make it false.
RegisteredIsServed ==
    sock # NoFd =>
        IF acc.pc = "start" THEN sock = acc.fd
        ELSE gen > 0 /\ rx[gen].fd = sock /\ rx[gen].pc \in {"recv", "forward", "close"}

\* What accept_task holds at each of its steps.
AcceptHolds ==
    /\ acc.pc = "accept" <=> acc.fd = NoFd
    /\ acc.pc = "install" => gen < MaxConns
    /\ acc.pc = "start" => gen > 0 /\ sock = acc.fd

\* A connection's rx_task starts once, after the connection is registered.
RxStartsLater ==
    \A c \in Conns :
        /\ c > gen \/ (c = gen /\ acc.pc = "start") => rx[c].pc = "none"
        /\ rx[c].pc # "none" => rx[c].fd # NoFd

\* The inductive invariant.
ServerInv == TypeOK /\ AcceptHolds /\ RxStartsLater /\ OpenIsHeld /\ RegisteredIsServed

\* A client that has gone does not stay registered.
GoneIsDropped ==
    \A c \in Conns : (sock # NoFd /\ gen = c /\ peer[c] = "gone") ~> (sock = NoFd \/ gen # c)

\* "Clean up: close our socket, and clear global only if we are still current."
\* (rx_task): the clean-up closes no other client's socket.
ClosesOwn == ~foreign
=============================================================================
