------------------------------- MODULE Gateway -------------------------------
(***************************************************************************)
(* The master (esp32_master): the posts send it frames over ESP-NOW, its   *)
(* WiFi task takes them one by one, keeps the last snapshot of each post   *)
(* and writes five fields to the Nextion display, while the loop on the    *)
(* other core answers the Telnet client from the same memory, without a    *)
(* lock.                                                                   *)
(*                                                                         *)
(* The frames of a post are numbered; a field that was taken from frame n  *)
(* is n, and 0 was never written.  A copy of a snapshot is made in two     *)
(* halves.                                                                 *)
(***************************************************************************)
EXTENDS Naturals, Sequences

CONSTANTS SLAVE_COUNT,  \* posts (4)
          UINT8,        \* values of a uint8_t (256)
          Asked,        \* the numbers typed after `last'
          RxRoom,       \* frames the WiFi driver keeps for the callback
          States,       \* the device states that occur, of DEV_STATE_IDLE (0), _COW_PRESENT, _MILKING
          MAX_FRAMES,   \* bound: frames of each post
          MAX_BOOTS     \* bound: restarts of the master

ASSUME GatewayAssumption == /\ SLAVE_COUNT \in Nat /\ UINT8 \in Nat /\ SLAVE_COUNT < UINT8
                            /\ Asked \subseteq Nat /\ States \subseteq 0 .. 2
                            /\ RxRoom \in Nat /\ MAX_FRAMES \in Nat /\ MAX_BOOTS \in Nat

VARIABLES sentTo,   \* frames each post has sent
          rx,       \* the frames the driver holds
          callback, \* where gatewayForward is, and its frame
          lastSnap, \* the two halves of the last snapshot of each post, and its device_state
          hasSnap,  \* whether there is one
          stats,    \* snapshots and sessions counted per post
          taken,    \* history: the last snapshot that was copied whole since the start
          display,  \* what the Nextion shows of each post
          cli,      \* where handleCommand is
          reply,    \* what it answered last
          boots     \* restarts so far

rxVars == <<sentTo, rx>>
snapVars == <<lastSnap, hasSnap, stats, taken>>
cliVars == <<cli, reply>>
gatewayVars == <<rxVars, callback, snapVars, display, cliVars, boots>>

Ids == 1 .. SLAVE_COUNT
Numbers == 0 .. MAX_FRAMES

\* "other" is what the callback makes nothing of: a type or a post it does not know.
Frames == [type : {"snapshot", "session", "other"}, esp_id : Ids, n : 1 .. MAX_FRAMES,
           device_state : States]

Idle == [step |-> "idle"]
NoReply == [kind |-> "nothing"]
Zeroed == [front |-> 0, back |-> 0, device_state |-> 0]
Blank == [ip |-> 0, rfid |-> 0, weight |-> 0, time |-> 0, vis |-> FALSE]

\* What a restart leaves in memory.
Cleared == /\ rx' = <<>> /\ callback' = Idle /\ cli' = Idle /\ reply' = NoReply
           /\ lastSnap' = [id \in Ids |-> Zeroed] /\ hasSnap' = [id \in Ids |-> FALSE]
           /\ stats' = [snap |-> [id \in Ids |-> 0], session |-> [id \in Ids |-> 0]]
           /\ taken' = [id \in Ids |-> 0]

GatewayInit == /\ sentTo = [id \in Ids |-> 0] /\ rx = <<>> /\ callback = Idle
               /\ lastSnap = [id \in Ids |-> Zeroed] /\ hasSnap = [id \in Ids |-> FALSE]
               /\ stats = [snap |-> [id \in Ids |-> 0], session |-> [id \in Ids |-> 0]]
               /\ taken = [id \in Ids |-> 0]
               /\ display = [id \in Ids |-> Blank]
               /\ cli = Idle /\ reply = NoReply /\ boots = 0

(***************************************************************************)
(* The posts.  A frame may be lost, and is lost when the driver has no     *)
(* room; those of one post arrive in their order.                          *)
(***************************************************************************)
PostSends(id, type, state) ==
    /\ sentTo[id] < MAX_FRAMES
    /\ sentTo' = [sentTo EXCEPT ![id] = @ + 1]
    /\ \/ /\ Len(rx) < RxRoom
          /\ rx' = Append(rx, [type |-> type, esp_id |-> id, n |-> sentTo[id] + 1,
                               device_state |-> state])
       \/ UNCHANGED rx
    /\ UNCHANGED <<callback, snapVars, display, cliVars, boots>>

(***************************************************************************)
(* gatewayForward, in the WiFi task                                        *)
(***************************************************************************)
FirstStep(type) == CASE type = "snapshot" -> "front"
                     [] type = "session" -> "session"
                     [] OTHER -> "idle"

OnReceive == /\ callback.step = "idle" /\ rx # <<>>
             /\ rx' = Tail(rx)
             /\ LET f == Head(rx)
                IN callback' = IF f.type = "other" THEN Idle
                               ELSE [step |-> FirstStep(f.type), p |-> f]
             /\ UNCHANGED <<sentTo, snapVars, display, cliVars, boots>>

At(step) == callback.step = step
Goes(step) == callback' = [callback EXCEPT !.step = step]
Id == callback.p.esp_id

\* The Telnet handler is between two halves of its copy: what it gets may be mixed.
Overlaps == IF cli.step \in {"front", "back"} /\ cli.id = Id
            THEN cli' = [cli EXCEPT !.clean = FALSE] ELSE UNCHANGED cli

\* Mutant: the flag is set before the snapshot is copied.
CopyFrontFlagged == /\ At("front") /\ Goes("back")
                    /\ lastSnap' = [lastSnap EXCEPT ![Id].front = callback.p.n]
                    /\ hasSnap' = [hasSnap EXCEPT ![Id] = TRUE]
                    /\ Overlaps
                    /\ UNCHANGED <<rxVars, stats, taken, display, reply, boots>>

CopyFront == /\ At("front") /\ Goes("back")
             /\ lastSnap' = [lastSnap EXCEPT ![Id].front = callback.p.n]
             /\ Overlaps
             /\ UNCHANGED <<rxVars, hasSnap, stats, taken, display, reply, boots>>

CopyBack == /\ At("back") /\ Goes("flag")
            /\ lastSnap' = [lastSnap EXCEPT ![Id].back = callback.p.n,
                                            ![Id].device_state = callback.p.device_state]
            /\ taken' = [taken EXCEPT ![Id] = callback.p.n]
            /\ Overlaps
            /\ UNCHANGED <<rxVars, hasSnap, stats, display, reply, boots>>

SetHasSnap == /\ At("flag") /\ Goes("count")
              /\ hasSnap' = [hasSnap EXCEPT ![Id] = TRUE]
              /\ UNCHANGED <<rxVars, lastSnap, stats, taken, display, cliVars, boots>>

CountSnap == /\ At("count") /\ Goes("ip")
             /\ stats' = [stats EXCEPT !.snap[Id] = @ + 1]
             /\ UNCHANGED <<rxVars, lastSnap, hasSnap, taken, display, cliVars, boots>>

CountSession == /\ At("session") /\ callback' = Idle
                /\ stats' = [stats EXCEPT !.session[Id] = @ + 1]
                /\ UNCHANGED <<rxVars, lastSnap, hasSnap, taken, display, cliVars, boots>>

\* nextionUpdateSnap: each nxSend waits until the command fits into the UART's buffer.
Shows(field, value) == /\ At(field)
                       /\ display' = [display EXCEPT ![Id][field] = value]
                       /\ UNCHANGED <<rxVars, snapVars, cliVars, boots>>

\* Mutant: a snapshot without a tag leaves the rest as it was.
ShowRfidOnly == Shows("rfid", callback.p.n)
                    /\ IF callback.p.device_state = 0 THEN callback' = Idle ELSE Goes("weight")

ShowIp == Shows("ip", callback.p.n) /\ Goes("rfid")
ShowRfid == Shows("rfid", callback.p.n) /\ Goes("weight")
ShowWeight == Shows("weight", callback.p.n) /\ Goes("time")
ShowTime == Shows("time", callback.p.n) /\ Goes("vis")
ShowVisibility == Shows("vis", callback.p.device_state >= 1) /\ callback' = Idle

WifiTask == \/ OnReceive
            \/ CopyFront
            \/ CopyBack
            \/ SetHasSnap
            \/ CountSnap
            \/ CountSession
            \/ ShowIp
            \/ ShowRfid
            \/ ShowWeight
            \/ ShowTime
            \/ ShowVisibility

(***************************************************************************)
(* handleCommand, in the loop task.  status, stats and help change nothing *)
(* and are left out.                                                       *)
(***************************************************************************)
\* "last 257" asks for slave 1.
SlaveId(n) == n % UINT8

HalfCopied(id) == callback.step = "back" /\ Id = id

\* gatewayGetLastSnap looks at the flag and then copies.
AskLast(n) == LET id == SlaveId(n) IN
    /\ cli.step = "idle"
    /\ IF id \in Ids /\ hasSnap[id]
       THEN /\ cli' = [step |-> "front", id |-> id, floor |-> taken[id],
                       clean |-> ~HalfCopied(id), front |-> 0]
            /\ reply' = NoReply
       ELSE /\ reply' = [kind |-> "no data", id |-> id,
                         counted |-> IF id \in Ids THEN stats.snap[id] ELSE 0]
            /\ UNCHANGED cli
    /\ UNCHANGED <<rxVars, callback, snapVars, display, boots>>

ReadFront == /\ cli.step = "front"
             /\ cli' = [cli EXCEPT !.step = "back", !.front = lastSnap[cli.id].front]
             /\ UNCHANGED <<rxVars, callback, snapVars, display, reply, boots>>

ReadBack == /\ cli.step = "back" /\ cli' = Idle
            /\ reply' = [kind |-> "snapshot", id |-> cli.id, front |-> cli.front,
                         back |-> lastSnap[cli.id].back, floor |-> cli.floor,
                         clean |-> cli.clean]
            /\ UNCHANGED <<rxVars, callback, snapVars, display, boots>>

\* startOTA keeps the loop until it has failed, found nothing new or restarts the master.
UpdateBegins == /\ cli.step = "idle" /\ cli' = [step |-> "update"] /\ reply' = NoReply
                /\ UNCHANGED <<rxVars, callback, snapVars, display, boots>>

UpdateFails == /\ cli.step = "update" /\ cli' = Idle
               /\ UNCHANGED <<rxVars, callback, snapVars, display, reply, boots>>

LoopTask == \/ \E n \in Asked : AskLast(n)
            \/ ReadFront
            \/ ReadBack
            \/ UpdateBegins
            \/ UpdateFails

\* A power cut, `reboot' or an update.  "page 0" clears the display, unless it follows a command
\* that was cut and is swallowed with it.
Restart == /\ boots < MAX_BOOTS /\ boots' = boots + 1
           /\ Cleared
           /\ display' \in {display, [id \in Ids |-> Blank]}
           /\ UNCHANGED sentTo

GatewayNext ==
    \/ \E id \in Ids, type \in {"snapshot", "session", "other"}, state \in States :
           PostSends(id, type, state)
    \/ WifiTask
    \/ LoopTask
    \/ Restart

GatewaySpec == GatewayInit /\ [][GatewayNext]_gatewayVars

(***************************************************************************)
(* Properties                                                              *)
(***************************************************************************)
\* A reply of `last' is made of snapshots that are no older than the last one when the command
\* began, and never of memory that was not written yet, although nothing stops the callback from
\* overwriting it; if the callback did not, it is that last one whole (gateway.cpp 16-22, 37-43).
LastIsFresh ==
    reply.kind = "snapshot" =>
        /\ 0 < reply.floor /\ reply.floor <= reply.front /\ reply.floor <= reply.back
        /\ reply.clean => reply.front = reply.floor /\ reply.back = reply.floor

\* "No data" is never said of a post that `stats' counts a snapshot of: the flag is set before the
\* counter (gateway.cpp 18-21, 40).
NoDataIsTrue == reply.kind = "no data" => reply.counted = 0

\* What `last' answers is true, without a lock (gateway.cpp 16-22, 37-43).
LastIsTrue == LastIsFresh /\ NoDataIsTrue

\* The display and `last' show the same snapshot, all of it, when the callback is not at work on
\* one of that post (gateway.cpp 14-23, nextion.cpp 26-61).
Showing(id) == callback.step \notin {"idle", "session"} /\ Id = id

DisplayAgrees == \A id \in Ids : hasSnap[id] /\ ~Showing(id) =>
    /\ lastSnap[id].front = lastSnap[id].back
    /\ display[id] = [ip |-> lastSnap[id].front, rfid |-> lastSnap[id].front,
                      weight |-> lastSnap[id].front, time |-> lastSnap[id].front,
                      vis |-> lastSnap[id].device_state >= 1]

=============================================================================
