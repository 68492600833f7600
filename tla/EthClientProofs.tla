--------------------------- MODULE EthClientProofs ---------------------------
(***************************************************************************)
(* Proofs about EthClient for every set of descriptors, send buffer size   *)
(* and number of faults: the thread leaks no socket and counts failures    *)
(* per connection.  EthInv is inductive: besides the two properties it says *)
(* that a socket that is being connected has no failed send behind it.     *)
(***************************************************************************)
EXTENDS EthClient, TLAPS

\* The reporter starts without a socket and with a count of zero.
LEMMA InitInv == Init => EthInv
BY EthAssumption DEF Init, EthInv, TypeOK, SocketsOwned, FailCountIsStreak, FreshSocket, None,
   START_DELAY, MAX_FAILS

\* No step of the thread, the network or the server leaves the invariant.
LEMMA NextInv == EthInv /\ [Next]_vars => EthInv'
<1> SUFFICES ASSUME EthInv, [Next]_vars PROVE EthInv'
  OBVIOUS
<1> USE EthAssumption DEF EthInv, FreshSocket, None, MAX_FAILS
<1>1. CASE Wake \/ KeepSocket
  BY <1>1 DEF Wake, KeepSocket, tcp, TypeOK, SocketsOwned, FailCountIsStreak
<1>2. CASE Socket
  <2>1. PICK f \in Fds \ open :
          /\ sock' = f
          /\ open' = open \cup {f}
          /\ conn' = [conn EXCEPT ![f] = "new"]
          /\ queued' = [queued EXCEPT ![f] = 0]
          /\ streak' = [streak EXCEPT ![f] = 0]
    BY <1>2 DEF Socket
  <2>2. eth_sock = None /\ sock = None /\ open = {}
    BY <1>2 DEF Socket, TypeOK, SocketsOwned
  <2>3. TypeOK'
    BY <1>2, <2>1 DEF Socket, TypeOK
  <2>4. SocketsOwned' /\ FailCountIsStreak' /\ FreshSocket'
    BY <1>2, <2>1, <2>2 DEF Socket, TypeOK, SocketsOwned, FailCountIsStreak
  <2>5. QED
    BY <2>3, <2>4
<1>3. CASE SocketFails
  BY <1>3 DEF SocketFails, Fault, Mdelay, tcp, TypeOK, SocketsOwned, FailCountIsStreak
<1>4. CASE ConnectSucceeds
  <2>1. sock \in Fds /\ eth_sock = None /\ open = {sock}
    BY <1>4 DEF ConnectSucceeds, TypeOK, SocketsOwned
  <2>2. TypeOK'
    BY <1>4, <2>1 DEF ConnectSucceeds, TypeOK
  <2>3. SocketsOwned'
    BY <1>4, <2>1 DEF ConnectSucceeds, SocketsOwned
  <2>4. FailCountIsStreak' /\ FreshSocket'
    BY <1>4, <2>1 DEF ConnectSucceeds, FailCountIsStreak
  <2>5. QED
    BY <2>2, <2>3, <2>4
<1>5. CASE ConnectFails
  BY <1>5 DEF ConnectFails, Close, Mdelay, TypeOK, SocketsOwned, FailCountIsStreak
<1>6. CASE SendAccepted
  BY <1>6 DEF SendAccepted, Mdelay, TypeOK, SocketsOwned, FailCountIsStreak
<1>7. CASE SendFails
  BY <1>7 DEF SendFails, FailCountInc, GiveUp, Close, Fault, Mdelay, TypeOK, SocketsOwned, FailCountIsStreak
<1>8. CASE Environment
  <2>1. /\ UNCHANGED <<pc, delay, eth_sock, sock, fail_count, open, streak>>
        /\ conn' \in [Fds -> {"new", "up", "stalled", "broken"}]
        /\ queued' \in [Fds -> 0 .. SndBuf]
        /\ net' \in BOOLEAN
        /\ faults' \in 0 .. MaxFaults
    <3>1. CASE NetDown
      <4>1. conn' \in [Fds -> {"new", "up", "stalled", "broken"}]
        BY <3>1 DEF NetDown, TypeOK
      <4>2. faults' \in 0 .. MaxFaults
        BY <3>1 DEF NetDown, Fault, TypeOK
      <4>3. QED
        BY <3>1, <4>1, <4>2 DEF NetDown, thread, TypeOK
    <3>2. CASE NetUp
      BY <3>2 DEF NetUp, thread, tcp, TypeOK
    <3>3. CASE StallEnds
      BY <3>3 DEF StallEnds, thread, TypeOK
    <3>4. CASE Reset
      BY <3>4 DEF Reset, Fault, thread, TypeOK
    <3>5. CASE Deliver
      BY <3>5 DEF Deliver, thread, TypeOK
    <3>6. QED
      BY <1>8, <3>1, <3>2, <3>3, <3>4, <3>5 DEF Environment
  <2>2. QED
    BY <2>1 DEF TypeOK, SocketsOwned, FailCountIsStreak
<1>9. CASE UNCHANGED vars
  BY <1>9 DEF vars, TypeOK, SocketsOwned, FailCountIsStreak
<1>10. QED
  BY <1>1, <1>2, <1>3, <1>4, <1>5, <1>6, <1>7, <1>8, <1>9 DEF Next, Thread

\* The inductive invariant holds in every reachable state.
LEMMA EthInvariant == Spec => []EthInv
BY InitInv, NextInv, PTL DEF Spec

\* The variables keep their types: fail_count never passes three, the send
\* buffers never hold more than fits, the faults stay within their bound.
THEOREM TypeCorrect == Spec => []TypeOK
<1>1. EthInv => TypeOK
  BY DEF EthInv
<1>2. QED
  BY <1>1, EthInvariant, PTL

\* eth_client_thread_entry leaks no socket and never uses a closed one, for any
\* number of descriptors and any sequence of network failures.
THEOREM NoSocketLeak == Spec => []SocketsOwned
<1>1. EthInv => SocketsOwned
  BY DEF EthInv
<1>2. QED
  BY <1>1, EthInvariant, PTL

\* Every connection is judged by its own failed sends only.
THEOREM FailuresPerConnection == Spec => []FailCountIsStreak
<1>1. EthInv => FailCountIsStreak
  BY DEF EthInv
<1>2. QED
  BY <1>1, EthInvariant, PTL
=============================================================================
