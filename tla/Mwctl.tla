-------------------------------- MODULE Mwctl --------------------------------
(***************************************************************************)
(* The desktop console (apps/cli/mwctl/mwctl_gui.py): the window's thread, *)
(* one thread per click on "connect" that dials, one reader thread per     *)
(* connection, and the queue by which they tell the window what happened.  *)
(* The threads share TelnetClient.sock and TelnetClient.connected without  *)
(* a lock, so each statement on them is a step of its own.                 *)
(*                                                                         *)
(* `wire' is the state of each TCP connection as both ends see it; the     *)
(* post at the other end is in Console.  What is printed is left out.      *)
(***************************************************************************)
EXTENDS Naturals, Sequences

CONSTANTS Conn,      \* the connections the operator dials, one per click
          NoConn,    \* sock = None
          CAREFUL    \* TRUE: the operator waits for a click to take effect

VARIABLES label,      \* the status label and, with it, the two buttons
          connected,  \* TelnetClient.connected
          sock,       \* TelnetClient.sock
          dial,       \* the thread of each click on "connect"
          reader,     \* the reader thread of each connection
          msgQueue,   \* the "status" events the window has not polled
          window,     \* where the window's thread is
          wire        \* per connection: "none", "open", "lost" at a restart of the post,
                      \* "held" by a recv that waits though it is closed, or "shut"

mwctlVars == <<label, connected, sock, dial, reader, msgQueue, window, wire>>

NoReader == [at |-> "none", from |-> NoConn, was |-> FALSE]

MwctlInit == /\ label = "idle" /\ connected = FALSE /\ sock = NoConn
             /\ dial = [c \in Conn |-> "none"]
             /\ reader = [c \in Conn |-> NoReader]
             /\ msgQueue = <<>> /\ window = "ready"
             /\ wire = [c \in Conn |-> "none"]

Tell(up) == msgQueue' = Append(msgQueue, up)

(***************************************************************************)
(* The window.  A careful operator clicks "connect" when it is offered, no *)
(* attempt is under way and the readers of earlier connections are gone.   *)
(***************************************************************************)
Settled == /\ label \notin {"connecting", "up"}
           /\ \A c \in Conn : dial[c] \in {"none", "over"}
           /\ \A c \in Conn : reader[c].at \in {"none", "ended", "dead"}

Connect(c) == /\ window = "ready" /\ dial[c] = "none"
              /\ CAREFUL => Settled
              /\ label' = "connecting"
              /\ dial' = [dial EXCEPT ![c] = "dialing"]
              /\ UNCHANGED <<connected, sock, reader, msgQueue, window, wire>>

\* "Disconnect" is offered while the label is up: the flag is cleared, the socket is closed,
\* then dropped.
Disconnect == /\ window = "ready" /\ label = "up"
              /\ connected' = FALSE /\ window' = "closing"
              /\ UNCHANGED <<label, sock, dial, reader, msgQueue, wire>>

\* A recv that is already waiting may keep the connection: close does not wake it everywhere.
InRecv(c) == \E d \in Conn : reader[d].at = "reading" /\ reader[d].from = c

CloseSock == /\ window = "closing" /\ window' = "closed"
             /\ \/ wire' = [c \in Conn |-> IF c = sock THEN "shut" ELSE wire[c]]
                \/ /\ sock # NoConn /\ InRecv(sock)
                   /\ wire' = [wire EXCEPT ![sock] = IF @ = "open" THEN "held" ELSE @]
             /\ UNCHANGED <<label, connected, sock, dial, reader, msgQueue>>

DropSock == /\ window = "closed"
            /\ sock' = NoConn /\ label' = "idle" /\ window' = "ready"
            /\ UNCHANGED <<connected, dial, reader, msgQueue, wire>>

\* One poll empties the queue; the last event stays on the label.
Poll == /\ window = "ready" /\ msgQueue # <<>>
        /\ label' = IF msgQueue[Len(msgQueue)] THEN "up" ELSE "down"
        /\ msgQueue' = <<>>
        /\ UNCHANGED <<connected, sock, dial, reader, window, wire>>

\* send(): what has a connection goes to it; a broken pipe is reported, if it is noticed.
Sends == window = "ready" /\ connected /\ sock # NoConn

SendFails == /\ Sends /\ wire[sock] = "shut" /\ Len(msgQueue) < 2
             /\ Tell(FALSE)
             /\ UNCHANGED <<label, connected, sock, dial, reader, window, wire>>

(***************************************************************************)
(* The thread of a click: create_connection, then sock, then connected,    *)
(* then the status event and the reader thread.                            *)
(***************************************************************************)
DialFails(c) == /\ dial[c] = "dialing"
                /\ dial' = [dial EXCEPT ![c] = "over"] /\ Tell(FALSE)
                /\ UNCHANGED <<label, connected, sock, reader, window, wire>>

DialOpens(c) == /\ dial[c] = "dialing"
                /\ dial' = [dial EXCEPT ![c] = "opened"]
                /\ wire' = [wire EXCEPT ![c] = "open"]
                /\ UNCHANGED <<label, connected, sock, reader, msgQueue, window>>

KeepSock(c) == /\ dial[c] = "opened"
               /\ sock' = c /\ dial' = [dial EXCEPT ![c] = "kept"]
               /\ UNCHANGED <<label, connected, reader, msgQueue, window, wire>>

SetConnected(c) == /\ dial[c] = "kept"
                   /\ connected' = TRUE /\ dial' = [dial EXCEPT ![c] = "flagged"]
                   /\ UNCHANGED <<label, sock, reader, msgQueue, window, wire>>

Announce(c) == /\ dial[c] = "flagged"
               /\ Tell(TRUE) /\ dial' = [dial EXCEPT ![c] = "over"]
               /\ reader' = [reader EXCEPT ![c].at = "starting"]
               /\ UNCHANGED <<label, connected, sock, window, wire>>

(***************************************************************************)
(* _read_loop: the thread reads sock when it starts, which need not be the *)
(* socket of the click that started it, tests the flag before each recv    *)
(* and leaves the loop on a closed socket or on connected = False.         *)
(***************************************************************************)
ReaderAt(c, place) == /\ reader' = [reader EXCEPT ![c].at = place]
                      /\ UNCHANGED <<label, connected, sock, dial, msgQueue, window>>

ReaderStarts(c) == /\ reader[c].at = "starting"
                   /\ reader' = [reader EXCEPT ![c].from = sock, ![c].at = "testing"]
                   /\ UNCHANGED <<label, connected, sock, dial, msgQueue, window, wire>>

ReaderTests(c) == /\ reader[c].at = "testing"
                  /\ ReaderAt(c, IF connected THEN "calling" ELSE "leaving")
                  /\ UNCHANGED wire

\* recv of None ends the thread, recv of a closed socket the loop; otherwise it waits.
ReaderCalls(c) == /\ reader[c].at = "calling"
                  /\ ReaderAt(c, IF reader[c].from = NoConn THEN "dead"
                                 ELSE IF wire[reader[c].from] \in {"shut", "held"} THEN "leaving"
                                 ELSE "reading")
                  /\ UNCHANGED wire

\* Data of the post; a closed connection that only this recv kept goes with it.
ReaderGets(c) == /\ reader[c].at = "reading" /\ wire[reader[c].from] \in {"open", "held"}
                 /\ wire' = [wire EXCEPT ![reader[c].from] = IF @ = "held" THEN "shut" ELSE @]
                 /\ ReaderAt(c, "testing")

SeesClosed(c) == reader[c].at = "reading" /\ wire[reader[c].from] = "shut"

ReaderLeaves(c) == SeesClosed(c) /\ ReaderAt(c, "leaving") /\ UNCHANGED wire

\* Mutant: the flag is cleared first, so the loop always finds itself disconnected.
ReaderLooksLate(c) == /\ reader[c].at = "leaving"
                      /\ reader' = [reader EXCEPT ![c].at = "looked", ![c].was = FALSE]
                      /\ UNCHANGED <<label, connected, sock, dial, msgQueue, window, wire>>

\* was_connected = self.connected, before connected is cleared
ReaderLooks(c) == /\ reader[c].at = "leaving"
                  /\ reader' = [reader EXCEPT ![c].at = "looked", ![c].was = connected]
                  /\ UNCHANGED <<label, connected, sock, dial, msgQueue, window, wire>>

ReaderClears(c) == /\ reader[c].at = "looked"
                   /\ connected' = FALSE
                   /\ reader' = [reader EXCEPT ![c].at = "cleared"]
                   /\ UNCHANGED <<label, sock, dial, msgQueue, window, wire>>

ReaderEnds(c) == /\ reader[c].at = "cleared"
                 /\ IF reader[c].was THEN Tell(FALSE) ELSE UNCHANGED msgQueue
                 /\ reader' = [reader EXCEPT ![c].at = "ended"]
                 /\ UNCHANGED <<label, connected, sock, dial, window, wire>>

DialStep(c) == \/ DialFails(c)
               \/ DialOpens(c)
               \/ KeepSock(c)
               \/ SetConnected(c)
               \/ Announce(c)

ReaderStep(c) == \/ ReaderStarts(c)
                 \/ ReaderTests(c)
                 \/ ReaderCalls(c)
                 \/ ReaderGets(c)
                 \/ ReaderLeaves(c)
                 \/ ReaderLooks(c)
                 \/ ReaderClears(c)
                 \/ ReaderEnds(c)

WindowStep == \/ \E c \in Conn : Connect(c)
              \/ Disconnect
              \/ CloseSock
              \/ DropSock
              \/ Poll
              \/ SendFails

MwctlNext == WindowStep \/ \E c \in Conn : DialStep(c) \/ ReaderStep(c)

\* What a reader does without new data from the post.
ReaderMoves(c) == /\ reader[c].at # "reading" \/ SeesClosed(c)
                  /\ ReaderStep(c)

\* The threads and the poll timer run; a reader on an open socket may wait for ever.
MwctlFairness == /\ WF_mwctlVars(CloseSock) /\ WF_mwctlVars(DropSock) /\ WF_mwctlVars(Poll)
                 /\ \A c \in Conn : /\ WF_mwctlVars(DialStep(c))
                                    /\ WF_mwctlVars(ReaderMoves(c))

\* In the end the label tells whether commands are being sent: `connected' is what send()
\* asks, the label is all the operator sees (mwctl_gui.py 22-74, 320-360).
LabelSettles == <>[](label = "up" <=> connected)
=============================================================================
