--------------------------- MODULE TCPConnections ---------------------------
(***************************************************************************)
(* The connections of kernel/net/tcp.cpp: their list, states and send      *)
(* window, and their users: the servers (kernel/net/http.cpp, ssh.cpp),    *)
(* which poll accept, and a client task (download_file in                  *)
(* kernel/net/package.cpp).  The receive buffer is in ReceiveRing.         *)
(*                                                                         *)
(* handle_packet runs in the card interrupt, to its end.  The client runs  *)
(* with interrupts enabled: one step per access to what the handler reads  *)
(* or writes.  remove_connection finds the place and loads conn->next in   *)
(* one step and stores in the next.  A connection is named by the order of *)
(* its allocation (kfree is empty, none is reused) and 0 is null.  Numbers *)
(* are those in memory; nothing converts them to network byte order.       *)
(***************************************************************************)
EXTENDS Integers, Sequences, FiniteSets

CONSTANTS
  Peers,      \* remote address and port, as one value
  NOBODY,     \* the remote address and port 0 of a listening connection
  WINDOW,     \* TCP_DEFAULT_WINDOW_SIZE (8192)
  MAX_SYNS,   \* SYNs that are taken (10)
  MAX_SEND,   \* bytes of the largest send
  MAX_CONNS,     \* bound: connections allocated in one run
  MAX_CONNECTS   \* bound: connections that the client makes in one run

ASSUME TCPAssumption ==
  /\ NOBODY \notin Peers
  /\ WINDOW \in Nat /\ MAX_SYNS \in Nat
  /\ MAX_SEND \in Nat \ {0} /\ MAX_CONNS \in Nat \ {0}
  /\ MAX_CONNECTS \in Nat

VARIABLES
  conn,         \* the connections allocated so far
  connections,  \* head of the list
  syn_count,
  task,         \* the client: where it is, its socket, what it holds
  live,         \* ghost: the connections that were linked and not removed
  list_raced    \* ghost: the handler changed the list inside a change of it

vars == <<conn, connections, syn_count, task, live, list_raced>>
list == <<connections, live, list_raced>>

PORT   == 0                    \* the port the server listens on
States == {"CLOSED", "LISTEN", "SYN_SENT", "SYN_RECEIVED", "ESTABLISHED",
           "FIN_WAIT_1", "FIN_WAIT_2", "LAST_ACK", "TIME_WAIT"}
Flags  == SUBSET {"SYN", "ACK", "FIN"}
Ids    == 1 .. Len(conn)

(* create_connection fills every field; next is set when it is linked.     *)
(* The rest are ghosts: the data bytes, FINs, and sends of data after a    *)
(* FIN; whether a FIN was handled between send's or close's look at the    *)
(* state and its use; whether connect overwrote what a FIN had set.        *)
New(port, peer, state) ==
  [port |-> port, peer |-> peer, state |-> state, next |-> 0,
   send_window_start |-> 0, sent |-> 0, fins |-> 0, late |-> 0,
   raced |-> FALSE, reopened |-> FALSE]

IDLE == [at |-> "idle", socket |-> 0, place |-> 0, next |-> 0, size |-> 0]

(* HTTP::initialize has called TCP::listen.                                *)
Init ==
  /\ conn = <<New(PORT, NOBODY, "LISTEN")>>
  /\ connections = 1
  /\ syn_count = 0
  /\ task = IDLE
  /\ live = {1}
  /\ list_raced = FALSE

-----------------------------------------------------------------------------
(* The list as it is walked; no walk of a list without a loop is longer.   *)
Walk[k \in 0 .. MAX_CONNS] ==
  IF k = 0 THEN connections
  ELSE LET c == Walk[k - 1] IN IF c = 0 THEN 0 ELSE conn[c].next

Listed == {Walk[k] : k \in 0 .. MAX_CONNS} \ {0}

(* find_connection: the first one with this port and peer, or null.        *)
Find(port, peer) ==
  LET Match(c) == conn[c].port = port /\ conn[c].peer = peer
      hits == {c \in Listed : Match(c)}
      k    == CHOOSE k \in 0 .. MAX_CONNS :
                /\ Walk[k] \in hits
                /\ \A j \in 0 .. k - 1 : Walk[j] \notin hits
  IN  IF hits = {} THEN 0 ELSE Walk[k]

(* remove_connection: where the pointer to c is (0: the head), if listed.  *)
IsPlace(p, c) ==
  IF connections = c THEN p = 0 ELSE p \in Listed /\ conn[p].next = c

Linking   == task.at = "store_head"
Unlinking == task.at = "store_next"

SendFin(r) == [r EXCEPT !.fins = @ + 1]

(* The switch in handle_packet, without the receive buffer and the         *)
(* answers; a FIN in ESTABLISHED is answered by ours at once.              *)
NextState(r, flags) ==
  CASE r.state = "LISTEN" /\ "SYN" \in flags ->
         [r EXCEPT !.state = "SYN_RECEIVED"]
    [] r.state = "SYN_SENT" /\ {"SYN", "ACK"} \subseteq flags ->
         [r EXCEPT !.state = "ESTABLISHED"]
    [] r.state = "SYN_RECEIVED" /\ "ACK" \in flags ->
         [r EXCEPT !.state = "ESTABLISHED"]
    [] r.state = "ESTABLISHED" /\ "FIN" \in flags ->
         SendFin([r EXCEPT !.state = "LAST_ACK"])
    [] r.state = "FIN_WAIT_1" /\ "ACK" \in flags ->
         [r EXCEPT !.state = "FIN_WAIT_2"]
    [] r.state = "FIN_WAIT_2" /\ "FIN" \in flags ->
         [r EXCEPT !.state = "TIME_WAIT"]
    [] OTHER -> r

EndsBy(r, flags) ==
  r.state = "TIME_WAIT" \/ (r.state = "LAST_ACK" /\ "ACK" \in flags)

(* send or close of the client has seen c ESTABLISHED and acts on that.    *)
Relied(c) == c = task.socket /\ task.at \in {"sending", "fin"}

(* A segment for a connection that is found and goes on.                   *)
HandleSegment(c, flags) ==
  LET r == NextState(conn[c], flags) IN
  /\ ~EndsBy(conn[c], flags)
  /\ conn' = [conn EXCEPT ![c] =
                [r EXCEPT !.raced = @ \/ (Relied(c) /\ r.state # conn[c].state)]]
  /\ UNCHANGED <<list, syn_count, task>>

(* The last segment of a connection: it is taken off the list.             *)
HandleLast(c, flags) ==
  /\ EndsBy(conn[c], flags)
  /\ \E p \in Listed \cup {0} :
       /\ IsPlace(p, c)
       /\ connections' = IF p = 0 THEN conn[c].next ELSE connections
       /\ conn' = IF p = 0 THEN conn
                  ELSE [conn EXCEPT ![p].next = conn[c].next]
  /\ live' = live \ {c}
  /\ list_raced' = (list_raced \/ Linking \/ Unlinking)
  /\ UNCHANGED <<syn_count, task>>

(* Connections that a SYN adds although there is one.                      *)
HandleSyn_Always(port, peer) ==
  /\ Len(conn) < MAX_CONNS
  /\ syn_count < MAX_SYNS
  /\ syn_count' = syn_count + 1
  /\ conn' = Append(conn, [New(port, peer, "SYN_RECEIVED")
                             EXCEPT !.next = connections])
  /\ connections' = Len(conn')
  /\ live' = live \cup {connections'}
  /\ UNCHANGED <<task, list_raced>>

(* A SYN that finds no connection makes one, listening or not, until       *)
(* MAX_SYNS were counted.  The time they are compared with never passes.   *)
HandleSyn(port, peer) ==
  /\ Find(port, peer) = 0
  /\ Len(conn) < MAX_CONNS
  /\ syn_count < MAX_SYNS
  /\ syn_count' = syn_count + 1
  /\ conn' = Append(conn, [New(port, peer, "SYN_RECEIVED")
                             EXCEPT !.next = connections])
  /\ connections' = Len(conn')
  /\ live' = live \cup {connections'}
  /\ list_raced' = (list_raced \/ Linking \/ (Unlinking /\ task.place = 0))
  /\ UNCHANGED <<task>>

-----------------------------------------------------------------------------
At(place, next_place) ==
  task.at = place /\ task' = [task EXCEPT !.at = next_place]

Mine == conn[task.socket]

SetMine(r) == conn' = [conn EXCEPT ![task.socket] = r]

Ports == {conn[c].port : c \in Ids}

(* TCP::connect with a port nobody used; the new connection points to what *)
(* is the head now.                                                        *)
Connect(peer) ==
  /\ task.at = "idle"
  /\ Len(conn) < MAX_CONNS /\ Cardinality(Ports) <= MAX_CONNECTS
  /\ conn' = Append(conn, [New(Len(conn), peer, "CLOSED")
                             EXCEPT !.next = connections])
  /\ task' = [IDLE EXCEPT !.at = "store_head", !.socket = Len(conn')]
  /\ UNCHANGED <<list, syn_count>>

(* The head stored before next is loaded.                                  *)
StoreHead_First ==
  /\ At("store_head", "syn_sent")
  /\ connections' = task.socket
  /\ SetMine([Mine EXCEPT !.next = task.socket])
  /\ live' = live \cup {task.socket}
  /\ UNCHANGED <<syn_count, list_raced>>

StoreHead ==
  /\ At("store_head", "syn_sent")
  /\ connections' = task.socket
  /\ live' = live \cup {task.socket}
  /\ UNCHANGED <<conn, syn_count, list_raced>>

(* connect sends the SYN, and does not wait.                               *)
SendSyn ==
  /\ At("syn_sent", "established")
  /\ SetMine([Mine EXCEPT !.state = "SYN_SENT"])
  /\ UNCHANGED <<list, syn_count>>

(* The handshake is taken as done, whatever the peer has said meanwhile.   *)
SetEstablished ==
  /\ At("established", "open")
  /\ SetMine([Mine EXCEPT !.state = "ESTABLISHED",
                          !.reopened = Mine.state = "LAST_ACK"])
  /\ UNCHANGED <<list, syn_count>>

(* TCP::send looks at the state ...                                        *)
Send(n) ==
  /\ task.at = "open"
  /\ Mine.state = "ESTABLISHED"
  /\ task' = [task EXCEPT !.at = "sending", !.size = n]
  /\ UNCHANGED <<conn, list, syn_count>>

Window == WINDOW - Mine.send_window_start

Sent(n) ==
  [Mine EXCEPT !.sent = @ + n, !.late = IF n > 0 /\ Mine.fins > 0 THEN @ + 1 ELSE @,
     !.send_window_start = IF Mine.state = "ESTABLISHED" THEN @ + n ELSE @]

(* A window that only a send of nothing fills.                             *)
SendPacket_NoWindow ==
  /\ At("sending", "open")
  /\ SetMine(Sent(task.size))
  /\ UNCHANGED <<list, syn_count>>

(* ... and send_packet again: what does not fit in the window is dropped,  *)
(* and in any other state the window is not looked at.                     *)
SendPacket ==
  /\ At("sending", "open")
  /\ SetMine(IF Mine.state = "ESTABLISHED" /\ task.size > Window
             THEN Sent(Window) ELSE Sent(task.size))
  /\ UNCHANGED <<list, syn_count>>

(* TCP::close, after the request, a failed send, or a recv that found      *)
(* nothing yet: with the state ESTABLISHED a FIN, else off the list.       *)
Close ==
  /\ At("open", IF Mine.state = "ESTABLISHED" THEN "fin" ELSE "remove")
  /\ UNCHANGED <<conn, list, syn_count>>

SendOurFin ==
  /\ task.at = "fin"
  /\ task' = IDLE
  /\ SetMine(SendFin([Mine EXCEPT !.state = "FIN_WAIT_1"]))
  /\ UNCHANGED <<list, syn_count>>

(* Not on the list any more: the walk ends without a change.               *)
RemoveNothing ==
  /\ task.at = "remove"
  /\ task.socket \notin Listed
  /\ task' = IDLE
  /\ UNCHANGED <<conn, list, syn_count>>

RemoveFind ==
  /\ task.at = "remove"
  /\ task.socket \in Listed
  /\ \E p \in Listed \cup {0} :
       /\ IsPlace(p, task.socket)
       /\ task' = [task EXCEPT !.at = "store_next", !.place = p,
                               !.next = Mine.next]
  /\ UNCHANGED <<conn, list, syn_count>>

RemoveStore ==
  /\ task.at = "store_next"
  /\ task' = IDLE
  /\ connections' = IF task.place = 0 THEN task.next ELSE connections
  /\ conn' = IF task.place = 0 THEN conn
             ELSE [conn EXCEPT ![task.place].next = task.next]
  /\ live' = live \ {task.socket}
  /\ UNCHANGED <<syn_count, list_raced>>

(* accept is asked about the listening connection itself.                  *)
Accepted(c) == conn[c].state = "ESTABLISHED"

(* httpd and sshd: a client would be answered and closed.                  *)
PollAccept ==
  /\ conn' = IF Accepted(1)
             THEN [conn EXCEPT ![1] = SendFin([@ EXCEPT !.state = "FIN_WAIT_1"])]
             ELSE conn
  /\ UNCHANGED <<list, syn_count, task>>

Client ==
  \/ \E p \in Peers : Connect(p)
  \/ StoreHead \/ SendSyn \/ SetEstablished
  \/ \E n \in 1 .. MAX_SEND : Send(n)
  \/ SendPacket \/ Close \/ SendOurFin
  \/ RemoveNothing \/ RemoveFind \/ RemoveStore

Handler ==
  \E p \in Peers, port \in Ports :
    \/ \E c \in {Find(port, p)} \ {0}, f \in Flags :
         HandleSegment(c, f) \/ HandleLast(c, f)
    \/ HandleSyn(port, p)

Next == Client \/ PollAccept \/ Handler

Spec == Init /\ [][Next]_vars

-----------------------------------------------------------------------------
(* Type correctness; no connection is left in CLOSE_WAIT (tcp.cpp:253).    *)
TypeOK ==
  /\ \A c \in Ids : /\ conn[c].state \in States
                    /\ conn[c].next \in 0 .. Len(conn)
                    /\ conn[c].peer \in Peers \cup {NOBODY}
  /\ connections \in Ids
  /\ syn_count \in 0 .. MAX_SYNS
  /\ task.socket \in 0 .. Len(conn) /\ task.size \in 0 .. MAX_SEND
  /\ live \subseteq Ids

(* The handler's walk of the list ends, whatever connect, close and the    *)
(* handler did to the links inside each other (tcp.cpp:107, 152, 161-170). *)
ListEnds == Walk[MAX_CONNS] = 0

(* The list holds exactly the connections that were linked and not         *)
(* removed, as long as the handler changed it between no two accesses of   *)
(* the client.                                                             *)
ListExact == ~list_raced => Listed = live

(* On the list a peer has one connection to the server that was not yet    *)
(* removed, so that its SYN, a repetition of it, or a SYN that crosses a   *)
(* removal is answered on one connection (tcp.cpp:186-212).  It holds      *)
(* however the handler and the client link and unlink inside each other,   *)
(* lost links and removed connections that are linked again included.      *)
OnePerPeer ==
  \A c, d \in Listed \cap live :
    conn[c].port = PORT /\ conn[d].port = PORT /\ conn[c].peer = conn[d].peer
      => c = d

Cost(b) == IF b THEN 1 ELSE 0

(* One FIN is sent and no data after it (tcp.cpp:252-257, 356-368), but    *)
(* for two races.  A FIN between the look of send or close at the state    *)
(* and what it then does costs at most one FIN, and one send after a FIN.  *)
(* A FIN inside connect, after the SYN, is forgotten when connect stores   *)
(* ESTABLISHED (tcp.cpp:384-394): it costs one FIN, and data may follow.   *)
FinIsLast ==
  \A c \in Ids :
    /\ conn[c].fins <= 1 + Cost(conn[c].raced) + Cost(conn[c].reopened)
    /\ ~conn[c].reopened => conn[c].late <= Cost(conn[c].raced)

(* No more data is sent than the window the connection began with, and,    *)
(* when a FIN is handled between the two looks at the state, at most one   *)
(* send on top of it, which is then not held against the window            *)
(* (tcp.cpp:55-61, 356-358).                                               *)
WindowKept ==
  \A c \in Ids : conn[c].sent <= WINDOW + MAX_SEND * Cost(conn[c].raced)

(* The types, and a list whose walks end and miss no connection, whatever  *)
(* the handler and the client do to its links (tcp.cpp:106-171).           *)
ListSound == TypeOK /\ ListEnds /\ ListExact

(* What may be sent at most, after a FIN and past the window, for each of  *)
(* the two races of the client with the handler (tcp.cpp:53-104, 354-394). *)
SendsInBounds == FinIsLast /\ WindowKept
=============================================================================
