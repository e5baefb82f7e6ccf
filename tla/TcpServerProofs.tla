-------------------------- MODULE TcpServerProofs --------------------------
(***************************************************************************)
(* Proofs about TcpServer, for any descriptor table and any number of      *)
(* clients.                                                                *)
(***************************************************************************)
EXTENDS TcpServer, TLAPS

\* The server starts with no client.
LEMMA InitServer == Init => ServerInv
<1> SUFFICES ASSUME Init PROVE ServerInv
  OBVIOUS
<1>1. TypeOK
  <2>1. 0 \in 0..MaxConns /\ 0 \in 0..MaxSends
    BY ServerAssumption
  <2> QED BY <2>1 DEF Init, TypeOK, Idle
<1>2. AcceptHolds /\ RxStartsLater
  BY DEF Init, AcceptHolds, RxStartsLater, Idle, NoFd, Conns
<1>3. OpenIsHeld /\ RegisteredIsServed
  BY DEF Init, OpenIsHeld, RegisteredIsServed
<1> QED BY <1>1, <1>2, <1>3 DEF ServerInv

\* Closing a descriptor frees it and touches no other.
LEMMA CloseFrees ==
    ASSUME NEW tab \in [Fds -> 0..MaxConns], NEW f \in Fds
    PROVE  /\ Close(tab, f) \in [Fds -> 0..MaxConns]
           /\ Close(tab, f)[f] = 0
           /\ \A g \in Fds \ {f} : Close(tab, f)[g] = tab[g]
BY ServerAssumption DEF Close

\* accept_task keeps the invariant: it closes the previous client before it
\* registers the next one, and unregisters a client it cannot serve.
LEMMA AcceptKeeps ==
    ASSUME ServerInv, Accept \/ AcceptStep
    PROVE  ServerInv'
<1> USE DEF ServerInv
<1>1. CASE Accept
  <2>1. PICK f \in Fds : /\ table[f] = 0
                         /\ table' = [table EXCEPT ![f] = gen + 1]
                         /\ acc' = [pc |-> "install", fd |-> f]
    BY <1>1 DEF Accept, LowestFree
  <2>2. /\ acc.pc = "accept" /\ gen < MaxConns /\ peer' = [peer EXCEPT ![gen + 1] = "open"]
        /\ UNCHANGED <<sock, gen, rx, snd, sends, foreign>>
    BY <1>1 DEF Accept
  <2>3. gen + 1 \in 0..MaxConns /\ f # NoFd
    BY <2>2, ServerAssumption DEF TypeOK, Fds, NoFd
  <2>4. TypeOK'
    BY <2>1, <2>2, <2>3 DEF TypeOK
  <2>5. AcceptHolds' /\ RxStartsLater'
    BY <2>1, <2>2, <2>3 DEF AcceptHolds, RxStartsLater
  <2>6. OpenIsHeld'
    BY <2>1, <2>2 DEF OpenIsHeld, AcceptHolds, TypeOK, NoFd, Fds
  <2>7. RegisteredIsServed'
    BY <2>1, <2>2 DEF RegisteredIsServed
  <2> QED BY <2>4, <2>5, <2>6, <2>7
<1>2. CASE Install
  <2>1. /\ acc.pc = "install" /\ sock' = acc.fd /\ gen' = gen + 1
        /\ acc' = [acc EXCEPT !.pc = "start"]
        /\ table' = IF sock # NoFd THEN Close(table, sock) ELSE table
        /\ UNCHANGED <<rx, peer, snd, sends, foreign>>
    BY <1>2 DEF Install
  <2>2. gen + 1 \in 0..MaxConns /\ gen + 1 > 0 /\ acc.fd \in Fds /\ acc.fd # NoFd
    BY <2>1, ServerAssumption DEF TypeOK, AcceptHolds
  <2>3. /\ table' \in [Fds -> 0..MaxConns]
        /\ \A f \in Fds : table'[f] # 0 => table[f] # 0 /\ f # sock
    <3>1. CASE sock = NoFd
      BY <2>1, <3>1 DEF TypeOK, NoFd, Fds
    <3>2. CASE sock # NoFd
      <4>1. sock \in Fds /\ table \in [Fds -> 0..MaxConns] /\ table' = Close(table, sock)
        BY <2>1, <3>2 DEF TypeOK
      <4> QED BY <4>1, CloseFrees
    <3> QED BY <3>1, <3>2
  <2>4. acc'.pc = "start" /\ acc'.fd = acc.fd
    BY <2>1 DEF TypeOK
  <2>5. TypeOK'
    BY <2>1, <2>2, <2>3 DEF TypeOK
  <2>6. AcceptHolds'
    BY <2>1, <2>2, <2>4 DEF AcceptHolds
  <2>7. RxStartsLater'
    BY <2>1, <2>4 DEF RxStartsLater, TypeOK, Conns
  <2>8. OpenIsHeld'
    BY <2>1, <2>3, <2>4 DEF OpenIsHeld
  <2>9. RegisteredIsServed'
    BY <2>1, <2>4 DEF RegisteredIsServed
  <2> QED BY <2>5, <2>6, <2>7, <2>8, <2>9
<1>3. CASE StartRx
  <2>1. /\ acc.pc = "start" /\ acc' = [pc |-> "accept", fd |-> NoFd]
        /\ rx' = [rx EXCEPT ![gen] = [pc |-> "recv", fd |-> acc.fd]]
        /\ UNCHANGED <<table, sock, gen, peer, snd, sends, foreign>>
    BY <1>3 DEF StartRx, Idle
  <2>2. gen \in Conns /\ sock = acc.fd /\ acc.fd # NoFd
    BY <2>1 DEF TypeOK, AcceptHolds, Conns
  <2>3. rx'[gen].pc = "recv" /\ rx'[gen].fd = sock /\ \A c \in Conns \ {gen} : rx'[c] = rx[c]
    BY <2>1, <2>2 DEF TypeOK
  <2>4. TypeOK'
    BY <2>1, <2>2 DEF TypeOK
  <2>5. AcceptHolds'
    BY <2>1 DEF AcceptHolds
  <2>6. RxStartsLater'
    BY <2>1, <2>2, <2>3 DEF RxStartsLater, TypeOK, Conns
  <2>7. OpenIsHeld'
    BY <2>1, <2>2 DEF OpenIsHeld
  <2>8. RegisteredIsServed'
    BY <2>1, <2>2, <2>3 DEF RegisteredIsServed, AcceptHolds
  <2> QED BY <2>4, <2>5, <2>6, <2>7, <2>8
<1>4. CASE StartFails
  <2>1. /\ acc.pc = "start" /\ acc' = [pc |-> "accept", fd |-> NoFd]
        /\ table' = Close(table, acc.fd)
        /\ sock' = IF sock = acc.fd THEN NoFd ELSE sock
        /\ UNCHANGED <<gen, rx, peer, snd, sends, foreign>>
    BY <1>4 DEF StartFails, Idle
  <2>2. acc.fd \in Fds /\ sock' = NoFd /\ sock = acc.fd
    <3>1. acc.fd # NoFd /\ sock = acc.fd
      BY <2>1 DEF AcceptHolds
    <3>2. acc.fd \in Fds \cup {NoFd}
      BY DEF TypeOK
    <3> QED BY <2>1, <3>1, <3>2
  <2>3. /\ table' \in [Fds -> 0..MaxConns]
        /\ \A f \in Fds : table'[f] # 0 => table[f] # 0 /\ f # acc.fd
    <3>1. table \in [Fds -> 0..MaxConns]
      BY DEF TypeOK
    <3> QED BY <2>1, <2>2, <3>1, CloseFrees
  <2>4. TypeOK'
    BY <2>1, <2>2, <2>3 DEF TypeOK
  <2>5. AcceptHolds' /\ RxStartsLater'
    BY <2>1 DEF AcceptHolds, RxStartsLater
  <2>6. OpenIsHeld' /\ RegisteredIsServed'
    BY <2>1, <2>2, <2>3 DEF OpenIsHeld, RegisteredIsServed
  <2> QED BY <2>4, <2>5, <2>6
<1> QED BY <1>1, <1>2, <1>3, <1>4 DEF AcceptStep

\* rx_task keeps the invariant: only the current one unregisters the client, and
\* it does so as it ends.
LEMMA RxKeeps ==
    ASSUME ServerInv, NEW c \in Conns, RxData(c) \/ RxStep(c)
    PROVE  ServerInv'
<1> USE DEF ServerInv
<1>1. ASSUME rx[c].pc \in {"recv", "forward"}, NEW p \in {"recv", "forward", "close"},
             rx' = [rx EXCEPT ![c].pc = p],
             UNCHANGED <<table, sock, gen, acc, peer, snd, sends, foreign>>
      PROVE  ServerInv'
  <2>1. rx'[c].pc = p /\ \A d \in Conns : rx'[d].fd = rx[d].fd /\ (d # c => rx'[d] = rx[d])
    BY <1>1 DEF TypeOK
  <2>2. TypeOK'
    BY <1>1 DEF TypeOK
  <2>3. AcceptHolds' /\ OpenIsHeld'
    BY <1>1 DEF AcceptHolds, OpenIsHeld
  <2>4. RxStartsLater'
    BY <1>1, <2>1 DEF RxStartsLater
  <2>5. RegisteredIsServed'
    BY <1>1, <2>1 DEF RegisteredIsServed, TypeOK, Conns
  <2> QED BY <2>2, <2>3, <2>4, <2>5
<1>2. CASE RxData(c)
  BY <1>1, <1>2 DEF RxData
<1>3. CASE RxForward(c)
  BY <1>1, <1>3 DEF RxForward
<1>4. CASE RxEnd(c)
  BY <1>1, <1>4 DEF RxEnd
<1>5. CASE RxClean(c)
  <2>1. /\ rx[c].pc = "close" /\ rx' = [rx EXCEPT ![c].pc = "done"]
        /\ table' = Close(table, rx[c].fd)
        /\ sock' = IF sock = rx[c].fd /\ gen = c THEN NoFd ELSE sock
        /\ foreign' \in BOOLEAN
        /\ UNCHANGED <<gen, acc, peer, snd, sends>>
    BY <1>5 DEF RxClean, TypeOK
  <2>2. rx[c].fd \in Fds
    BY <2>1 DEF RxStartsLater, TypeOK
  <2>3. /\ table' \in [Fds -> 0..MaxConns]
        /\ \A f \in Fds : table'[f] # 0 => table[f] # 0 /\ f # rx[c].fd
    BY <2>1, <2>2, CloseFrees DEF TypeOK
  <2>4. rx'[c].pc = "done" /\ \A d \in Conns : rx'[d].fd = rx[d].fd /\ (d # c => rx'[d] = rx[d])
    BY <2>1 DEF TypeOK
  <2>5. gen = c => acc.pc # "start"
    BY <2>1 DEF RxStartsLater
  <2>6. TypeOK'
    BY <2>1, <2>3 DEF TypeOK
  <2>7. AcceptHolds'
    BY <2>1, <2>5 DEF AcceptHolds
  <2>8. RxStartsLater'
    BY <2>1, <2>4 DEF RxStartsLater
  <2>9. OpenIsHeld'
    BY <2>1, <2>3 DEF OpenIsHeld
  <2>10. RegisteredIsServed'
    BY <2>1, <2>4, <2>5 DEF RegisteredIsServed, TypeOK, Conns
  <2> QED BY <2>6, <2>7, <2>8, <2>9, <2>10
<1> QED BY <1>2, <1>3, <1>4, <1>5 DEF RxStep

\* Sending copies a descriptor and a client that leaves tells nobody: neither
\* touches the table or the registration.
LEMMA OthersKeep ==
    ASSUME ServerInv, SendBegin \/ SendEnd \/ (\E c \in Conns : PeerCloses(c)) \/ UNCHANGED vars
    PROVE  ServerInv'
<1> USE DEF ServerInv
<1>1. /\ UNCHANGED <<table, sock, gen, acc, rx, foreign>>
      /\ snd' \in Fds \cup {NoFd} /\ sends' \in 0..MaxSends
      /\ peer' \in [Conns -> {"none", "open", "gone"}]
  BY ServerAssumption DEF SendBegin, SendEnd, PeerCloses, vars, TypeOK
<1>2. TypeOK'
  BY <1>1 DEF TypeOK
<1> QED BY <1>1, <1>2 DEF AcceptHolds, RxStartsLater, OpenIsHeld, RegisteredIsServed

\* The invariant holds in every reachable state.
THEOREM ServerSafe == Spec => []ServerInv
<1>1. ServerInv /\ [Next]_vars => ServerInv'
  BY AcceptKeeps, RxKeeps, OthersKeep DEF Next
<1> QED BY InitServer, <1>1, PTL DEF Spec

\* For any number of clients that replace each other and any failure to serve
\* them, no descriptor leaks.
THEOREM NoLeak == Spec => []OpenIsHeld
<1>1. ServerInv => OpenIsHeld
  BY DEF ServerInv
<1> QED BY <1>1, ServerSafe, PTL

\* A registered client always has a task left that will unregister it.
THEOREM ClientsAreServed == Spec => []RegisteredIsServed
<1>1. ServerInv => RegisteredIsServed
  BY DEF ServerInv
<1> QED BY <1>1, ServerSafe, PTL
=============================================================================
