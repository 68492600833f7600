------------------------------ MODULE EthClient ------------------------------
(***************************************************************************)
(* The Ethernet TCP reporter, ethApp.c: one thread that connects to the    *)
(* server, sends a JSON report every ETH_REPORT_INTERVAL and gives a       *)
(* socket up after three failed sends in a row.                            *)
(*                                                                         *)
(* The socket layer, the network and the server are outside the program    *)
(* and are modelled by what the thread can see of them: connect() answers  *)
(* as the network is; a connection stalls when the network goes down, and  *)
(* afterwards resumes or breaks; the server may reset it; a send is        *)
(* accepted while the connection's buffer has room, blocks while it has    *)
(* none, and fails on a broken connection or for want of memory.           *)
(***************************************************************************)
EXTENDS Integers, FiniteSets

CONSTANTS
  Fds,       \* the socket descriptors
  SndBuf,    \* how many reports fit into a connection's send buffer
  MaxFaults  \* bound: failures of the network, the server and the memory pool

ASSUME EthAssumption ==
  /\ Fds \subseteq Nat /\ Fds # {}
  /\ SndBuf \in Nat /\ SndBuf >= 1
  /\ MaxFaults \in Nat

\* ethApp.h and the literals of the thread, in milliseconds
ETH_REPORT_INTERVAL == 3000
ETH_RECONNECT_DELAY == 5000
START_DELAY == 8000
MAX_FAILS == 3

None == -1

VARIABLES
  pc,         \* "sleep" in rt_thread_mdelay(), else the call the thread makes
  delay,      \* the argument of the last rt_thread_mdelay()
  eth_sock,   \* the static variable: the connected socket, or None
  sock,       \* the local variable of eth_tcp_connect()
  fail_count, \* failed sends in a row, as the thread counts them
  open,       \* the descriptors that are open
  conn,       \* state of the connection of each descriptor
  queued,     \* reports in the send buffer of each descriptor
  streak,     \* observer: failed sends on a descriptor since its last success,
              \* saturating at MAX_FAILS
  net,        \* the server can be reached
  faults      \* failures so far

thread == <<pc, delay, eth_sock, sock, fail_count>>
tcp == <<open, conn, queued, streak>>
vars == <<pc, delay, eth_sock, sock, fail_count, open, conn, queued, streak,
          net, faults>>

TypeOK ==
  /\ pc \in {"sleep", "top", "connect", "send"}
  /\ delay \in {START_DELAY, ETH_REPORT_INTERVAL, ETH_RECONNECT_DELAY}
  /\ eth_sock \in Fds \cup {None}
  /\ sock \in Fds \cup {None}
  /\ fail_count \in 0 .. MAX_FAILS
  /\ open \in SUBSET Fds
  /\ conn \in [Fds -> {"new", "up", "stalled", "broken"}]
  /\ queued \in [Fds -> 0 .. SndBuf]
  /\ streak \in [Fds -> 0 .. MAX_FAILS]
  /\ net \in BOOLEAN
  /\ faults \in 0 .. MaxFaults

Init ==
  /\ pc = "sleep"
  /\ delay = START_DELAY
  /\ eth_sock = None
  /\ sock = None
  /\ fail_count = 0
  /\ open = {}
  /\ conn = [f \in Fds |-> "new"]
  /\ queued = [f \in Fds |-> 0]
  /\ streak = [f \in Fds |-> 0]
  /\ net \in BOOLEAN
  /\ faults = 0

Fault == faults < MaxFaults /\ faults' = faults + 1

-----------------------------------------------------------------------------
(* The thread, eth_client_thread_entry. *)

Mdelay(ms) == pc' = "sleep" /\ delay' = ms

Wake ==
  /\ pc = "sleep"
  /\ pc' = "top"
  /\ UNCHANGED <<delay, eth_sock, sock, fail_count, tcp, net, faults>>

\* The socket of the last round is still there.
KeepSocket ==
  /\ pc = "top" /\ eth_sock >= 0
  /\ pc' = "send"
  /\ UNCHANGED <<delay, eth_sock, sock, fail_count, tcp, net, faults>>

\* eth_tcp_connect: sock = socket(AF_INET, SOCK_STREAM, 0)
Socket ==
  /\ pc = "top" /\ eth_sock < 0
  /\ \E f \in Fds \ open :
       /\ sock' = f
       /\ open' = open \cup {f}
       /\ conn' = [conn EXCEPT ![f] = "new"]
       /\ queued' = [queued EXCEPT ![f] = 0]
       /\ streak' = [streak EXCEPT ![f] = 0]
  /\ pc' = "connect"
  /\ UNCHANGED <<delay, eth_sock, fail_count, net, faults>>

\* No descriptor is free, or the memory pool is exhausted.
SocketFails ==
  /\ pc = "top" /\ eth_sock < 0
  /\ \/ Fds \subseteq open /\ UNCHANGED faults
     \/ Fault
  /\ Mdelay(ETH_RECONNECT_DELAY)
  /\ UNCHANGED <<eth_sock, sock, fail_count, tcp, net>>

\* eth_sock = eth_tcp_connect(); fail_count = 0
ConnectKeepsCount ==  \* mutant of ConnectSucceeds
  /\ pc = "connect" /\ net
  /\ conn' = [conn EXCEPT ![sock] = "up"]
  /\ eth_sock' = sock
  /\ sock' = None
  /\ pc' = "send"
  /\ UNCHANGED <<delay, fail_count, open, queued, streak, net, faults>>
ConnectSucceeds ==
  /\ pc = "connect" /\ net
  /\ conn' = [conn EXCEPT ![sock] = "up"]
  /\ eth_sock' = sock
  /\ sock' = None
  /\ fail_count' = 0
  /\ pc' = "send"
  /\ UNCHANGED <<delay, open, queued, streak, net, faults>>

\* closesocket(f)
CloseForgotten(f) == open' = open  \* mutant of Close
Close(f) == open' = open \ {f}

ConnectFails ==
  /\ pc = "connect" /\ ~net
  /\ Close(sock)
  /\ sock' = None
  /\ Mdelay(ETH_RECONNECT_DELAY)
  /\ UNCHANGED <<eth_sock, fail_count, conn, queued, streak, net, faults>>

\* send() accepts the report.
SendAccepted ==
  /\ pc = "send"
  /\ conn[eth_sock] \in {"up", "stalled"} /\ queued[eth_sock] < SndBuf
  /\ queued' = [queued EXCEPT ![eth_sock] = @ + 1]
  /\ streak' = [streak EXCEPT ![eth_sock] = 0]
  /\ fail_count' = 0
  /\ Mdelay(ETH_REPORT_INTERVAL)
  /\ UNCHANGED <<eth_sock, sock, open, conn, net, faults>>

\* fail_count++
CountForgotten == fail_count  \* mutant of FailCountInc
FailCountInc == fail_count + 1

\* if (fail_count >= 3)
GiveUpTooLate == FailCountInc > MAX_FAILS  \* mutant of GiveUp
GiveUp == FailCountInc >= MAX_FAILS

\* ret <= 0; the third failure gives the socket up
SendFails ==
  /\ pc = "send"
  /\ \/ conn[eth_sock] = "broken" /\ UNCHANGED faults
     \/ conn[eth_sock] # "broken" /\ Fault
  /\ streak' = [streak EXCEPT ![eth_sock] = IF @ < MAX_FAILS THEN @ + 1 ELSE @]
  /\ fail_count' = FailCountInc
  /\ \/ /\ GiveUp
        /\ Close(eth_sock)
        /\ eth_sock' = None
     \/ /\ ~GiveUp
        /\ UNCHANGED <<open, eth_sock>>
  /\ Mdelay(ETH_REPORT_INTERVAL)
  /\ UNCHANGED <<sock, conn, queued, net>>

Thread ==
  \/ Wake \/ KeepSocket
  \/ Socket \/ SocketFails \/ ConnectSucceeds \/ ConnectFails
  \/ SendAccepted \/ SendFails

-----------------------------------------------------------------------------
(* The network and the server. *)

\* The link or the server goes away: established connections stall.
NetDown ==
  /\ net
  /\ Fault
  /\ net' = FALSE
  /\ conn' = [f \in Fds |-> IF f \in open /\ conn[f] = "up" THEN "stalled" ELSE conn[f]]
  /\ UNCHANGED <<thread, open, queued, streak>>

NetUp ==
  /\ ~net
  /\ net' = TRUE
  /\ UNCHANGED <<thread, tcp, faults>>

\* A stall ends: TCP resumes, or gives up, or the restarted server resets.
StallEnds ==
  /\ \E f \in open :
       /\ conn[f] = "stalled"
       /\ \E c \in (IF net THEN {"up", "broken"} ELSE {"broken"}) :
            conn' = [conn EXCEPT ![f] = c]
  /\ UNCHANGED <<thread, open, queued, streak, net, faults>>

Reset ==
  /\ Fault
  /\ \E f \in open : conn[f] = "up" /\ conn' = [conn EXCEPT ![f] = "broken"]
  /\ UNCHANGED <<thread, open, queued, streak, net>>

\* A report reaches the server.
Deliver ==
  /\ \E f \in open :
       /\ conn[f] = "up" /\ queued[f] > 0
       /\ queued' = [queued EXCEPT ![f] = @ - 1]
  /\ UNCHANGED <<thread, open, conn, streak, net, faults>>

Environment == NetDown \/ NetUp \/ StallEnds \/ Reset \/ Deliver

-----------------------------------------------------------------------------
Next == Thread \/ Environment

\* The thread is runnable whenever no call blocks it, TCP ends every stall
\* (retransmission limit) and a live connection carries its data.  Nothing
\* obliges the network to come back.
Fairness == WF_vars(Thread) /\ WF_vars(StallEnds) /\ WF_vars(Deliver)

Spec == Init /\ [][Next]_vars /\ Fairness

-----------------------------------------------------------------------------
(* Properties. *)

\* No descriptor leaks and none is used after closesocket(): what is open is
\* exactly what eth_sock or eth_tcp_connect()'s local variable holds, and never
\* both, on every path through connect and send failures.
SocketsOwned ==
  /\ open = {eth_sock, sock} \ {None}
  /\ eth_sock = None \/ sock = None
  /\ pc = "connect" <=> sock # None
  /\ pc = "send" => eth_sock # None

\* fail_count counts the consecutive failed sends of the socket in use and of
\* no earlier one, and a socket with three of them is not kept: a fresh
\* connection gets its three chances.
FailCountIsStreak ==
  eth_sock # None => fail_count = streak[eth_sock] /\ fail_count < MAX_FAILS

\* The inductive strengthening of the two: a socket that is being connected has
\* no failed send behind it.
FreshSocket == pc = "connect" => streak[sock] = 0
EthInv == TypeOK /\ SocketsOwned /\ FailCountIsStreak /\ FreshSocket

\* A connection that is broken for good does not keep the thread: its socket is
\* given up.
BrokenSocketDropped ==
  \A f \in Fds : (eth_sock = f /\ conn[f] = "broken") ~> eth_sock # f

\* Once the server stays reachable, reports keep arriving there, whatever
\* stalls, resets and failed connects came before.
ReportsArrive == <>[]net => []<><<Deliver>>_vars
=============================================================================
