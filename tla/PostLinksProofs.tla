--------------------------- MODULE PostLinksProofs ---------------------------
(***************************************************************************)
(* What the three ways on which a post is connected promise for every      *)
(* value of the constants: the one-command buffer of the sensor node       *)
(* (SensorLink), the memory of the master that the radio callback writes   *)
(* and the Telnet handler reads without a lock (Gateway), and the static   *)
(* text that the session task and the console send to the cloud (Cloud).   *)
(***************************************************************************)
EXTENDS PostLinks, SequenceTheorems, TLAPS

(***************************************************************************)
(* What is proved of a part holds of the post that has all three: a step   *)
(* of one of them leaves the variables of the other two alone.             *)
(***************************************************************************)
LEMMA PostLinksImplementsParts == PostLinksSpec => LinkSpec /\ GatewaySpec /\ CloudSpec
<1>1. PostLinksInit => LinkInit /\ GatewayInit /\ CloudInit
    BY DEF PostLinksInit
<1>2. [PostLinksNext]_postLinkVars
        => [LinkNext]_linkVars /\ [GatewayNext]_gatewayVars /\ [CloudNext]_cloudVars
    BY DEF PostLinksNext, NodeLink, MasterLink, CloudLink, postLinkVars
<1> QED BY <1>1, <1>2, PTL DEF PostLinksSpec, LinkSpec, GatewaySpec, CloudSpec

(***************************************************************************)
(* The sensor link: whatever is lost or late, the count in a record is     *)
(* that of its bucket once the node has been told of it.                   *)
(*                                                                         *)
(* The argument follows the one command the node can hold.  From the time  *)
(* it has received this bucket's INIT (InitHeld) everything it still has   *)
(* to process was sent for this bucket, because INIT has overwritten what  *)
(* was pending and the node was not in the middle of a command.  It is     *)
(* processed once, and the count and its history are equal from then on;   *)
(* FINAL, which only this bucket's wait can have sent, stops both.         *)
(***************************************************************************)

\* The node has this bucket's INIT in its buffer or is about to process it.
InitHeld ==
    \/ pendingCmd = [cmd |-> INIT, fresh |-> TRUE]
    \/ loop = "copied" /\ cmd = [cmd |-> INIT, fresh |-> TRUE]

\* The node knows of this bucket, or is going to.
Told == initDone \/ InitHeld

\* What the node still has to process after it was told is about this bucket.
OnlyFresh ==
    /\ loop = "copied" /\ cmd.fresh => pendingCmd.fresh
    /\ loop = "copied" /\ pendingCmd = [cmd |-> INIT, fresh |-> TRUE] => cmd = pendingCmd
    /\ initDone => pendingCmd.fresh /\ (loop = "copied" => cmd.fresh)

\* This bucket's INIT is sent once, and the node processes it once.
Once ==
    /\ post = "present" /\ ~sensorInitSent => ~pendingCmd.fresh /\ ~cmd.fresh /\ ~initDone
    /\ cmdPending /\ pendingCmd = [cmd |-> INIT, fresh |-> TRUE]
         => loop \notin {"taken", "copied"} /\ ~initDone
    /\ initDone => /\ loop = "taken" => pendingCmd # [cmd |-> INIT, fresh |-> TRUE]
                   /\ loop = "copied" => cmd # [cmd |-> INIT, fresh |-> TRUE]

\* The node counts the pulses of this bucket, and its last answer holds no other.
Counts ==
    /\ initDone => pulseCount = counted
    /\ post \in {"cleared", "waiting", "publishing"} =>
         /\ initDone => distanceFinal <= counted
         /\ ~initDone /\ InitHeld => distanceFinal = 0

\* An answer that came since the flag was cleared is one to this request.
Answers ==
    post \in {"clearing", "cleared", "waiting", "publishing"} /\ (finalReady \/ receiving) /\ Told
        => finalDone

\* FINAL is sent by this milking's wait only; it ends the count, and an answer to
\* it says the count.
Finals ==
    /\ post \in {"present", "milking", "clearing", "cleared"} =>
         /\ ~finalDone
         /\ pendingCmd # [cmd |-> FINAL, fresh |-> TRUE]
         /\ cmd # [cmd |-> FINAL, fresh |-> TRUE]
    /\ loop = "copied" /\ cmd = [cmd |-> FINAL, fresh |-> TRUE] => pendingCmd = cmd
    /\ finalDone =>
         /\ pendingCmd = [cmd |-> FINAL, fresh |-> TRUE]
         /\ loop = "copied" => cmd = pendingCmd
         /\ ~counting
    /\ post \in {"waiting", "publishing"} /\ finalDone /\ initDone /\ (finalReady \/ receiving)
         => distanceFinal = Reported(counted)

\* The part of the invariant that OwnPulses and AnsweredByThisRequest rest on.
Own == OnlyFresh /\ Counts /\ Answers /\ OwnPulses

LinkInv == LinkTypeOK /\ Own /\ Once /\ Finals /\ CountIsWhole
-----------------------------------------------------------------------------
(* Lemmas *)

USE DEF INIT, FINAL, Own

\* The reply never carries more than was counted, nor more than 16 bits hold (main.cpp 243).
LEMMA ReportedBound ==
    ASSUME NEW n \in 0 .. PulseMax
    PROVE  Reported(n) \in 0 .. ReportMax /\ Reported(n) <= n
  BY PulseAssumption DEF Reported

\* Zero pulses can be counted and reported.
LEMMA Bounds == 0 \in 0 .. PulseMax /\ 0 \in 0 .. ReportMax
  BY PulseAssumption

\* setup() of the node and the statics of the post (main.cpp 320-331).
LEMMA InitInv == LinkInit => LinkInv
  <1> SUFFICES ASSUME LinkInit PROVE LinkInv
    OBVIOUS
  <1> USE DEF LinkInit
  <1>1. LinkTypeOK
    <2>1. pendingCmd \in Cmds /\ cmd \in Cmds
      BY DEF Cmds, NoCmd
    <2>q. QED
      BY <2>1, Bounds DEF LinkTypeOK
  <1>2. OnlyFresh
    BY DEF OnlyFresh
  <1>3. Counts /\ Answers /\ OwnPulses /\ CountIsWhole
    BY DEF Counts, Answers, OwnPulses, CountIsWhole, NoRecord
  <1>4. Once /\ Finals
    BY DEF Once, Finals, NoCmd
  <1>q. QED
    BY <1>1, <1>2, <1>3, <1>4 DEF LinkInv

\* What onReceive of the node leaves in its buffer (main.cpp 151-162).
LEMMA SendTyped ==
    ASSUME LinkTypeOK, NEW c \in {INIT, FINAL}, Send(c)
    PROVE  /\ pendingCmd' \in Cmds /\ cmdPending' \in BOOLEAN
           /\ loop' \in {"asleep", "woken", "check", "taken", "copied", "done"}
  <1>1. [cmd |-> c, fresh |-> TRUE] \in Cmds
    BY DEF Cmds
  <1>q. QED
    BY <1>1 DEF Send, LinkTypeOK, bufferVars

\* Marking a command as stale keeps it a command.
LEMMA StaleTyped ==
    ASSUME NEW k \in Cmds
    PROVE  /\ [k EXCEPT !.fresh = FALSE] \in Cmds
           /\ [k EXCEPT !.fresh = FALSE].fresh = FALSE
  BY DEF Cmds, NoCmd

\* sendToCloud's record of a milking (cloud.cpp 54-66).
LEMMA PublishTyped ==
    ASSUME LinkTypeOK, NEW r \in {"COW_LEFT", "BUCKET_CHANGE"}, Publish(r)
    PROVE  record' \in Records
  BY DEF Publish, LinkTypeOK, Records

\* Every step keeps the types; the clamp keeps the answer within 16 bits (main.cpp 243).
LEMMA TypeStep == LinkTypeOK /\ [LinkNext]_linkVars => LinkTypeOK'
  <1> SUFFICES ASSUME LinkTypeOK, [LinkNext]_linkVars PROVE LinkTypeOK'
    OBVIOUS
  <1> USE DEF LinkTypeOK, postVars, answerVars, bufferVars, reedVars, doneVars
  <1>1. CASE CowDetected
    BY <1>1, StaleTyped, Bounds DEF CowDetected, NewBucket
  <1>2. CASE RequestInit
    BY <1>2, SendTyped DEF RequestInit
  <1>3. CASE StartMilking \/ CowGoneEarly \/ ForceReset
    <2>1. CASE StartMilking
      BY <2>1 DEF StartMilking
    <2>2. CASE CowGoneEarly
      BY <2>2 DEF CowGoneEarly
    <2>3. CASE ForceReset
      BY <2>3 DEF ForceReset
    <2>q. QED
      BY <1>3, <2>1, <2>2, <2>3
  <1>4. CASE EndWait
    BY <1>4 DEF EndWait
  <1>5. CASE BucketChange
    BY <1>5, StaleTyped, PublishTyped, Bounds DEF BucketChange, NewBucket
  <1>6. CASE RequestFinal
    BY <1>6, SendTyped DEF RequestFinal
  <1>7. CASE PublishLeft
    BY <1>7, PublishTyped DEF PublishLeft
  <1>8. CASE ClearReady
    BY <1>8, ZenonT(30) DEF ClearReady
  <1>9. CASE ClearValue
    BY <1>9, Bounds, ZenonT(30) DEF ClearValue
  <1>10. CASE ReceiveReady
    BY <1>10, ZenonT(30) DEF ReceiveReady
  <1>11. CASE Wake \/ GoToLightSleep
    <2>1. CASE Wake
      BY <2>1, ZenonT(30) DEF Wake
    <2>2. CASE GoToLightSleep
      BY <2>2, ZenonT(30) DEF GoToLightSleep
    <2>q. QED
      BY <1>11, <2>1, <2>2
  <1>12. CASE TakeCmd \/ CopyCmd
    <2>1. CASE TakeCmd
      BY <2>1, ZenonT(30) DEF TakeCmd
    <2>2. CASE CopyCmd
      BY <2>2, ZenonT(30) DEF CopyCmd
    <2>q. QED
      BY <1>12, <2>1, <2>2
  <1>13. CASE OnWakeReed
    <2>1. pulseCount' \in 0 .. PulseMax /\ counted' \in 0 .. PulseMax
      BY <1>13, PulseAssumption DEF OnWakeReed
    <2>q. QED
      BY <1>13, <2>1 DEF OnWakeReed
  <1>14. CASE ProcessInit
    BY <1>14, Bounds DEF ProcessInit, StartCounting
  <1>15. CASE ProcessFinal
    BY <1>15, ReportedBound DEF ProcessFinal
  <1>16. CASE UNCHANGED linkVars
    BY <1>16 DEF linkVars
  <1>q. QED
    BY <1>1, <1>2, <1>3, <1>4, <1>5, <1>6, <1>7, <1>8, <1>9, <1>10, <1>11, <1>12, <1>13, <1>14,
       <1>15, <1>16
    DEF LinkNext, PostStep, NodeStep

\* A new bucket makes everything stale, and the post asks nothing of it yet.
LEMMA NewBucketStep ==
    ASSUME LinkInv, NewBucket, post' = "present", Settled,
           UNCHANGED answerVars,
           UNCHANGED record \/ record'.reason = "BUCKET_CHANGE"
    PROVE  OnlyFresh' /\ Counts' /\ Answers' /\ OwnPulses'
  <1> USE DEF LinkInv, LinkTypeOK, Cmds, NoCmd
  <1>1. ~pendingCmd'.fresh /\ ~cmd'.fresh /\ ~initDone' /\ loop' # "copied"
    BY DEF NewBucket, Settled
  <1>2. OnlyFresh'
    BY <1>1 DEF OnlyFresh
  <1>3. Counts' /\ Answers'
    BY <1>1 DEF Counts, Answers
  <1>4. OwnPulses'
    BY DEF OwnPulses
  <1>q. QED
    BY <1>2, <1>3, <1>4

\* The steps that keep what the post has asked and got, and what the node holds.
LEMMA PostMoves ==
    ASSUME LinkInv, StartMilking \/ CowGoneEarly \/ ForceReset \/ EndWait
    PROVE  OnlyFresh' /\ Counts' /\ Answers' /\ OwnPulses'
  <1> USE DEF StartMilking, CowGoneEarly, ForceReset, EndWait, LinkInv, answerVars, bufferVars,
              reedVars, doneVars
  <1>1. OnlyFresh'
    BY DEF OnlyFresh
  <1>2. Counts'
    BY DEF Counts, Told, InitHeld
  <1>3. Answers'
    BY DEF Answers, Told, InitHeld
  <1>4. OwnPulses'
    BY DEF OwnPulses
  <1>q. QED
    BY <1>1, <1>2, <1>3, <1>4

\* RequestInit and RequestFinal: what the node held for this bucket, it holds or has lost to a
\* later command for it (session.cpp 218-223, 324-327).
LEMMA RequestSteps ==
    ASSUME LinkInv, RequestInit \/ RequestFinal
    PROVE  OnlyFresh' /\ Counts' /\ Answers' /\ OwnPulses'
  <1> USE DEF LinkInv, answerVars, bufferVars, reedVars, doneVars, Send
  <1>1. CASE RequestInit
    <2> USE <1>1 DEF RequestInit, Settled
    <2>1. OnlyFresh'
      BY DEF OnlyFresh
    <2>2. Counts' /\ Answers'
      BY DEF Counts, Answers
    <2>3. OwnPulses'
      BY DEF OwnPulses
    <2>q. QED
      BY <2>1, <2>2, <2>3
  <1>2. CASE RequestFinal
    <2> USE <1>2 DEF RequestFinal
    <2>1. OnlyFresh'
      BY DEF OnlyFresh
    <2>2. (Told' => Told) /\ (InitHeld' => InitHeld)
      BY DEF Told, InitHeld
    <2>3. Answers'
      BY <2>2 DEF Answers
    <2>4. Counts'
      <3>1. post = "cleared" /\ UNCHANGED <<pulseCount, counted, initDone, distanceFinal>>
        OBVIOUS
      <3>q. QED
        BY <2>2, <3>1 DEF Counts
    <2>5. OwnPulses'
      BY DEF OwnPulses
    <2>q. QED
      BY <2>1, <2>3, <2>4, <2>5
  <1>q. QED
    BY <1>1, <1>2

\* clearFinalDistanceReady and the second half of the receive callback, in any order
\* (espnow.cpp 21, 36-39).
LEMMA AnswerSteps ==
    ASSUME LinkInv, ClearReady \/ ClearValue \/ ReceiveReady
    PROVE  OnlyFresh' /\ Counts' /\ Answers' /\ OwnPulses'
  <1> USE DEF LinkInv, postVars, bufferVars, reedVars, doneVars, ClearReady, ClearValue,
              ReceiveReady
  <1>1. OnlyFresh'
    BY DEF OnlyFresh
  <1>2. Told' = Told /\ InitHeld' = InitHeld
    BY DEF Told, InitHeld
  <1>3. counted \in Nat /\ (post # "clearing" => distanceFinal' = distanceFinal)
    BY DEF LinkTypeOK
  <1>4. Counts'
    BY <1>2, <1>3 DEF Counts
  <1>5. Answers'
    BY <1>2 DEF Answers, Settled
  <1>6. OwnPulses'
    BY DEF OwnPulses
  <1>q. QED
    BY <1>1, <1>4, <1>5, <1>6

\* The record takes the count as it is (cloud.cpp 54-66).
LEMMA PublishStep ==
    ASSUME LinkInv, PublishLeft
    PROVE  OnlyFresh' /\ Counts' /\ Answers' /\ OwnPulses'
  <1> USE DEF LinkInv, answerVars, bufferVars, reedVars, doneVars, PublishLeft
  <1>1. OnlyFresh'
    BY DEF OnlyFresh
  <1>2. Counts' /\ Answers'
    BY DEF Counts, Answers
  <1>3. OwnPulses'
    BY DEF OwnPulses, Counts, Told, Publish
  <1>q. QED
    BY <1>1, <1>2, <1>3

\* The steps of the node that send nothing (main.cpp 72-90, 257-272, 335-339).
LEMMA NodeMoves ==
    ASSUME LinkInv, Wake \/ OnWakeReed \/ TakeCmd \/ CopyCmd \/ GoToLightSleep
    PROVE  OnlyFresh' /\ Counts' /\ Answers' /\ OwnPulses'
  <1> USE DEF LinkInv, postVars, answerVars, bufferVars, reedVars, doneVars, Wake, OnWakeReed,
              TakeCmd, CopyCmd, GoToLightSleep
  <1>1. OnlyFresh'
    BY DEF OnlyFresh
  <1>2. Told' => Told
    BY DEF Told, InitHeld
  <1>3. counted <= counted' /\ {counted, counted', distanceFinal} \subseteq Int
    BY PulseAssumption DEF LinkTypeOK
  <1>4. initDone' => pulseCount' = counted'
    <2>1. \/ /\ pulseCount < PulseMax /\ pulseCount' = pulseCount + 1
             /\ counted' = IF counted < PulseMax THEN counted + 1 ELSE counted
          \/ pulseCount' = pulseCount /\ counted' = counted
      OBVIOUS
    <2>2. initDone' => pulseCount = counted
      BY DEF Counts
    <2>q. QED
      BY <2>1, <2>2
  <1>5. Counts'
    <2>1. InitHeld' => InitHeld
      BY DEF InitHeld
    <2>2. UNCHANGED <<post, initDone, distanceFinal>>
      OBVIOUS
    <2>q. QED
      BY <1>3, <1>4, <2>1, <2>2 DEF Counts
  <1>6. Answers'
    BY <1>2 DEF Answers
  <1>7. OwnPulses'
    BY DEF OwnPulses
  <1>q. QED
    BY <1>1, <1>5, <1>6, <1>7

\* INIT is processed: whoever it was sent for, the count begins anew (main.cpp 233-239).
LEMMA ProcessInitStep ==
    ASSUME LinkInv, ProcessInit
    PROVE  OnlyFresh' /\ Counts' /\ Answers' /\ OwnPulses'
  <1> USE DEF LinkInv, postVars, answerVars, bufferVars, ProcessInit, StartCounting
  <1>1. OnlyFresh'
    BY DEF OnlyFresh
  <1>2. cmd.fresh => cmd = [cmd |-> INIT, fresh |-> TRUE]
    BY DEF LinkTypeOK, Cmds
  <1>3. Told' => Told
    BY <1>2 DEF Told, InitHeld
  <1>4. cmd.fresh => InitHeld /\ ~initDone
    BY <1>2 DEF InitHeld, Once
  <1>5. Counts'
    <2>1. CASE cmd.fresh
      BY <1>4, <2>1, Bounds DEF Counts
    <2>2. CASE ~cmd.fresh
      <3>1. ~initDone /\ ~initDone' /\ (InitHeld' => InitHeld)
        BY <2>2 DEF OnlyFresh, InitHeld, LinkTypeOK
      <3>q. QED
        BY <3>1 DEF Counts
    <2>q. QED
      BY <2>1, <2>2
  <1>6. Answers'
    BY <1>3 DEF Answers
  <1>7. OwnPulses'
    BY DEF OwnPulses
  <1>q. QED
    BY <1>1, <1>5, <1>6, <1>7

\* FINAL is processed: if the node was told of this bucket, the command is of this bucket and so
\* is the count (main.cpp 241-250).
LEMMA ProcessFinalStep ==
    ASSUME LinkInv, ProcessFinal
    PROVE  OnlyFresh' /\ Counts' /\ Answers' /\ OwnPulses'
  <1> USE DEF LinkInv, postVars, bufferVars, ProcessFinal
  <1>1. OnlyFresh'
    BY DEF OnlyFresh
  <1>2. Told' => initDone
    BY DEF Told, InitHeld, OnlyFresh
  <1>3. Told' => cmd = [cmd |-> FINAL, fresh |-> TRUE]
    BY <1>2 DEF OnlyFresh, LinkTypeOK, Cmds
  <1>4. Told' => distanceFinal' <= counted' \/ distanceFinal' = distanceFinal
    <2>1. Reported(pulseCount) <= pulseCount /\ Reported(pulseCount) \in Int
      BY ReportedBound DEF LinkTypeOK
    <2>2. pulseCount \in Int /\ counted \in Int
      BY DEF LinkTypeOK
    <2>q. QED
      BY <1>2, <2>1, <2>2 DEF Counts
  <1>5. Counts'
    BY <1>2, <1>4 DEF Counts, Told
  <1>6. Told' => finalDone'
    <2>1. cmd = [cmd |-> FINAL, fresh |-> TRUE] => cmd.fresh
      OBVIOUS
    <2>q. QED
      BY <1>3, <2>1
  <1>7. Answers' /\ OwnPulses'
    BY <1>6 DEF Answers, OwnPulses
  <1>q. QED
    BY <1>1, <1>5, <1>7

\* INIT is sent at most once for a bucket and leaves the buffer when it is taken
\* (session.cpp 218-223, main.cpp 335-339).
LEMMA OnceStep == LinkInv /\ [LinkNext]_linkVars => Once'
  <1> SUFFICES ASSUME LinkInv, [LinkNext]_linkVars PROVE Once'
    OBVIOUS
  <1> USE DEF LinkInv, Once, postVars, answerVars, bufferVars, reedVars, doneVars
  <1>1. CASE CowDetected \/ BucketChange
    <2>1. ~pendingCmd'.fresh /\ ~cmd'.fresh /\ ~initDone'
      BY <1>1 DEF CowDetected, BucketChange, NewBucket, LinkTypeOK, Cmds
    <2>q. QED
      BY <2>1
  <1>2. CASE StartMilking \/ CowGoneEarly \/ ForceReset \/ EndWait
    BY <1>2 DEF StartMilking, CowGoneEarly, ForceReset, EndWait
  <1>3. CASE RequestInit \/ RequestFinal
    BY <1>3 DEF RequestInit, RequestFinal, Send, Settled
  <1>4. CASE ClearReady \/ ClearValue \/ PublishLeft \/ ReceiveReady
    BY <1>4 DEF ClearReady, ClearValue, PublishLeft, ReceiveReady
  <1>5. CASE Wake \/ OnWakeReed \/ TakeCmd \/ CopyCmd \/ GoToLightSleep
    BY <1>5 DEF Wake, OnWakeReed, TakeCmd, CopyCmd, GoToLightSleep
  <1>6. CASE ProcessInit
    <2>1. loop = "copied" /\ loop' = "done" /\ UNCHANGED <<post, sensorInitSent, cmdPending, pendingCmd, cmd>>
      BY <1>6 DEF ProcessInit
    <2>2. post = "present" /\ ~sensorInitSent => ~initDone'
      BY <1>6 DEF ProcessInit
    <2>3. ~(cmdPending /\ pendingCmd = [cmd |-> INIT, fresh |-> TRUE])
      BY <2>1
    <2>q. QED
      BY <2>1, <2>2, <2>3
  <1>7. CASE ProcessFinal
    BY <1>7 DEF ProcessFinal
  <1>8. CASE UNCHANGED linkVars
    BY <1>8 DEF linkVars
  <1>q. QED
    BY <1>1, <1>2, <1>3, <1>4, <1>5, <1>6, <1>7, <1>8 DEF LinkNext, PostStep, NodeStep

\* FINAL stops the count that its answer says (main.cpp 241-250).
LEMMA FinalsStep == LinkInv /\ [LinkNext]_linkVars => Finals'
  <1> SUFFICES ASSUME LinkInv, [LinkNext]_linkVars PROVE Finals'
    OBVIOUS
  <1> USE DEF LinkInv, Finals, postVars, answerVars, bufferVars, reedVars, doneVars
  <1>1. CASE CowDetected \/ BucketChange
    <2>1. ~pendingCmd'.fresh /\ ~cmd'.fresh /\ ~finalDone'
      BY <1>1 DEF CowDetected, BucketChange, NewBucket, LinkTypeOK, Cmds
    <2>2. post' = "present" /\ loop' # "copied"
      BY <1>1 DEF CowDetected, BucketChange, NewBucket, Settled
    <2>q. QED
      BY <2>1, <2>2
  <1>2. CASE StartMilking \/ CowGoneEarly \/ ForceReset \/ EndWait
    BY <1>2 DEF StartMilking, CowGoneEarly, ForceReset, EndWait
  <1>3. CASE RequestInit \/ RequestFinal
    BY <1>3 DEF RequestInit, RequestFinal, Send, Settled
  <1>4. CASE ClearReady \/ ClearValue \/ PublishLeft \/ ReceiveReady
    BY <1>4 DEF ClearReady, ClearValue, PublishLeft, ReceiveReady
  <1>5. CASE Wake \/ TakeCmd \/ CopyCmd \/ GoToLightSleep
    BY <1>5 DEF Wake, TakeCmd, CopyCmd, GoToLightSleep
  <1>6. CASE OnWakeReed
    BY <1>6 DEF OnWakeReed
  <1>7. CASE ProcessInit
    <2>1. ~finalDone
      BY <1>7 DEF ProcessInit
    <2>q. QED
      BY <1>7, <2>1 DEF ProcessInit
  <1>8. CASE ProcessFinal
    <2>1. cmd.fresh => cmd = [cmd |-> FINAL, fresh |-> TRUE]
      BY <1>8 DEF ProcessFinal, LinkTypeOK, Cmds
    <2>2. finalDone' => pendingCmd = [cmd |-> FINAL, fresh |-> TRUE] /\ cmd = pendingCmd
      BY <1>8, <2>1 DEF ProcessFinal
    <2>3. \/ distanceFinal' = Reported(pulseCount)
          \/ UNCHANGED <<distanceFinal, receiving>>
      BY <1>8 DEF ProcessFinal
    <2>4. post \in {"waiting", "publishing"} /\ finalDone' /\ initDone /\ (finalReady' \/ receiving')
            => distanceFinal' = Reported(counted)
      <3>1. CASE distanceFinal' = Reported(pulseCount)
        BY <3>1 DEF Counts
      <3>2. CASE UNCHANGED <<distanceFinal, receiving>>
        BY <1>8, <3>2 DEF ProcessFinal, Answers, Told
      <3>q. QED
        BY <2>3, <3>1, <3>2
    <2>q. QED
      BY <1>8, <2>1, <2>2, <2>4 DEF ProcessFinal
  <1>9. CASE UNCHANGED linkVars
    BY <1>9 DEF linkVars
  <1>q. QED
    BY <1>1, <1>2, <1>3, <1>4, <1>5, <1>6, <1>7, <1>8, <1>9 DEF LinkNext, PostStep, NodeStep

\* Only PublishLeft writes the record of a cow that has left (session.cpp 340-343).
LEMMA WholeStep == LinkInv /\ [LinkNext]_linkVars => CountIsWhole'
  <1> SUFFICES ASSUME LinkInv, [LinkNext]_linkVars PROVE CountIsWhole'
    OBVIOUS
  <1> USE DEF LinkInv, CountIsWhole
  <1>1. CASE PublishLeft
    <2>1. record' = [reason |-> "COW_LEFT", final |-> distanceFinal, measured |-> initDone,
                     answered |-> finalReady, counted |-> counted]
      BY <1>1 DEF PublishLeft, Publish
    <2>2. finalReady /\ initDone => distanceFinal = Reported(counted)
      BY <1>1 DEF PublishLeft, Answers, Told, Finals
    <2>3. Reported(counted) >= counted \/ Reported(counted) = ReportMax
      BY DEF Reported, LinkTypeOK
    <2>q. QED
      BY <2>1, <2>2, <2>3
  <1>2. CASE BucketChange
    BY <1>2 DEF BucketChange, Publish
  <1>3. CASE UNCHANGED record
    BY <1>3
  <1>4. PublishLeft \/ BucketChange \/ UNCHANGED record
    BY DEF LinkNext, PostStep, NodeStep, linkVars, postVars, CowDetected, RequestInit, StartMilking,
       CowGoneEarly, ForceReset, ClearReady, ClearValue, RequestFinal, EndWait, ReceiveReady, Wake,
       OnWakeReed, TakeCmd, CopyCmd, ProcessInit, ProcessFinal, GoToLightSleep
  <1>q. QED
    BY <1>1, <1>2, <1>3, <1>4

\* Every step of the post and of the node keeps the invariant.
LEMMA StepInv == LinkInv /\ [LinkNext]_linkVars => LinkInv'
  <1> SUFFICES ASSUME LinkInv, [LinkNext]_linkVars PROVE LinkInv'
    OBVIOUS
  <1> DEFINE Rest == OnlyFresh /\ Counts /\ Answers /\ OwnPulses
  <1>1. LinkTypeOK'
    BY TypeStep DEF LinkInv
  <1>2. ASSUME CowDetected PROVE Rest'
    BY <1>2, NewBucketStep DEF CowDetected
  <1>3. ASSUME BucketChange PROVE Rest'
    BY <1>3, NewBucketStep DEF BucketChange, Publish
  <1>4. ASSUME UNCHANGED linkVars PROVE Rest'
    BY <1>4 DEF linkVars, postVars, answerVars, bufferVars, reedVars, doneVars, LinkInv, OnlyFresh,
            Counts, Answers, OwnPulses, Told, InitHeld
  <1>5. Rest'
    BY <1>2, <1>3, <1>4, PostMoves, RequestSteps, AnswerSteps, PublishStep, NodeMoves,
       ProcessInitStep, ProcessFinalStep
    DEF LinkNext, PostStep, NodeStep
  <1>q. QED
    BY <1>1, <1>5, OnceStep, FinalsStep, WholeStep DEF LinkInv

-----------------------------------------------------------------------------
(* Theorems *)

\* Every variable keeps its type; the count in a reply and in a record fits 16 bits
\* (main.cpp 243).
THEOREM LinkTypeCorrect == LinkSpec => []LinkTypeOK
  <1>1. LinkInv => LinkTypeOK
    BY DEF LinkInv
  <1>q. QED
    BY <1>1, InitInv, StepInv, PTL DEF LinkSpec

\* No pulse of another bucket gets into the record of a bucket the node was told of, whatever
\* commands and answers are lost, however long the node sleeps (session.cpp 306-348).
THEOREM PulsesAreOwn == LinkSpec => []OwnPulses
  <1>1. LinkInv => OwnPulses
    BY DEF LinkInv
  <1>q. QED
    BY <1>1, InitInv, StepInv, PTL DEF LinkSpec

\* Once the wait of such a bucket is answered its record holds every pulse since the node was told,
\* as many as sixteen bits can say (main.cpp 243).
THEOREM PulsesAreWhole == LinkSpec => []CountIsWhole
  <1>1. LinkInv => CountIsWhole
    BY DEF LinkInv
  <1>q. QED
    BY <1>1, InitInv, StepInv, PTL DEF LinkSpec

\* Under the same condition only the answer to this request ends the wait (session.cpp 328-337).
THEOREM AnswerIsOwn == LinkSpec => []AnsweredByThisRequest
  <1>1. LinkInv => AnsweredByThisRequest
    BY DEF LinkInv, Answers, AnsweredByThisRequest, Told
  <1>q. QED
    BY <1>1, InitInv, StepInv, PTL DEF LinkSpec


(***************************************************************************)
(* The master.  GatewayInv is inductive; beside the three properties it    *)
(* says in which order the frames are taken, what the memory holds while   *)
(* the callback is between its two halves, how far the display is, and     *)
(* what a reader has seen.                                                 *)
(***************************************************************************)
SnapSteps == {"front", "back", "flag", "count", "ip", "rfid", "weight", "time", "vis"}
Screens == [ip : Numbers, rfid : Numbers, weight : Numbers, time : Numbers, vis : BOOLEAN]
Copies == [front : Numbers, back : Numbers, device_state : 0 .. 2]
Callbacks == {Idle} \cup [step : SnapSteps \cup {"session"}, p : Frames]
Readers == [step : {"front", "back"}, id : Ids, floor : Numbers, clean : BOOLEAN, front : Numbers]
Clis == {Idle, [step |-> "update"]} \cup Readers

GatewayTyped ==
    /\ sentTo \in [Ids -> Numbers] /\ rx \in Seq(Frames)
    /\ callback \in Callbacks
    /\ callback.step \in SnapSteps => callback.p.type = "snapshot"
    /\ lastSnap \in [Ids -> Copies]
    /\ hasSnap \in [Ids -> BOOLEAN] /\ taken \in [Ids -> Numbers]
    /\ stats \in [snap : [Ids -> Nat], session : [Ids -> Nat]]
    /\ display \in [Ids -> Screens]
    /\ cli \in Clis

\* The frames of a post are taken in the order they were sent.
RxOrder ==
    /\ \A i, j \in DOMAIN rx : i < j /\ rx[i].esp_id = rx[j].esp_id => rx[i].n < rx[j].n
    /\ \A i \in DOMAIN rx : LET id == rx[i].esp_id IN
          /\ rx[i].n <= sentTo[id] /\ taken[id] < rx[i].n
          /\ callback.step # "idle" /\ Id = id => callback.p.n < rx[i].n

Halfway(id) == callback.step \in {"front", "back"} /\ Id = id
Ahead(id) == callback.step \in SnapSteps \ {"front", "back"} /\ Id = id

\* The memory of the master, but while the callback is between its two halves.
SnapOf(id) ==
    /\ taken[id] <= sentTo[id]
    /\ callback.step # "idle" /\ Id = id => callback.p.n <= sentTo[id]
    /\ Halfway(id) => taken[id] < callback.p.n
    /\ Ahead(id) => taken[id] = callback.p.n /\ lastSnap[id].device_state = callback.p.device_state
    /\ lastSnap[id].back = taken[id]
    /\ lastSnap[id].front = IF HalfCopied(id) THEN callback.p.n ELSE taken[id]
    /\ hasSnap[id] => taken[id] > 0
    /\ stats.snap[id] > 0 => hasSnap[id]
    /\ Ahead(id) /\ callback.step # "flag" => hasSnap[id]
SnapInv == \A id \in Ids : SnapOf(id)

\* What the callback has written to the display so far.
Written ==
    /\ callback.step \in {"rfid", "weight", "time", "vis"} => display[Id].ip = callback.p.n
    /\ callback.step \in {"weight", "time", "vis"} => display[Id].rfid = callback.p.n
    /\ callback.step \in {"time", "vis"} => display[Id].weight = callback.p.n
    /\ callback.step = "vis" => display[Id].time = callback.p.n

\* A reader's floor is what was there when it looked, and its copy is whole if nobody wrote since.
Reading == cli.step \in {"front", "back"}
ReaderInv == Reading =>
    /\ 0 < cli.floor /\ cli.floor <= taken[cli.id]
    /\ cli.clean => cli.floor = taken[cli.id] /\ ~HalfCopied(cli.id)
    /\ cli.step = "back" => /\ cli.floor <= cli.front
                            /\ cli.clean => cli.front = cli.floor

GatewayInv == /\ GatewayTyped /\ RxOrder /\ SnapInv /\ DisplayAgrees /\ Written
              /\ ReaderInv /\ LastIsFresh /\ NoDataIsTrue

\* The callback at a step of a snapshot, and its frame.
LEMMA CallbackFacts ==
    ASSUME GatewayTyped
    PROVE  /\ callback.step \in SnapSteps \cup {"session", "idle"}
           /\ callback.step # "idle" =>
                /\ callback \in [step : SnapSteps \cup {"session"}, p : Frames]
                /\ Id \in Ids /\ callback.p \in Frames
                /\ callback.p.n \in Numbers /\ callback.p.n > 0
                /\ callback.p.device_state \in States
           /\ callback.step = "idle" => callback = Idle
<1>1. CASE callback = Idle
    BY <1>1 DEF Idle, SnapSteps
<1>2. CASE callback \in [step : SnapSteps \cup {"session"}, p : Frames]
    BY <1>2, GatewayAssumption DEF SnapSteps, Frames, Id, Numbers
<1> QED BY <1>1, <1>2 DEF GatewayTyped, Callbacks

\* Going on from one step to the next leaves the frame alone.
LEMMA GoesFacts ==
    ASSUME GatewayTyped, callback.step # "idle", NEW s \in SnapSteps, Goes(s),
           callback.p.type = "snapshot"
    PROVE  /\ callback' \in Callbacks /\ callback'.step = s /\ callback'.p = callback.p
           /\ callback'.p.type = "snapshot"
<1>1. callback \in [step : SnapSteps \cup {"session"}, p : Frames]
    BY CallbackFacts
<1>2. callback'.step = s /\ callback'.p = callback.p /\ callback' \in [step : SnapSteps \cup {"session"}, p : Frames]
    BY <1>1 DEF Goes
<1> QED BY <1>2 DEF Callbacks

\* The Telnet handler is reading, waiting or updating.
LEMMA CliFacts ==
    ASSUME GatewayTyped
    PROVE  /\ Reading => /\ cli \in Readers /\ cli.id \in Ids /\ cli.floor \in Numbers
                         /\ cli.front \in Numbers /\ cli.clean \in BOOLEAN
           /\ ~Reading => cli \in {Idle, [step |-> "update"]}
<1>1. CASE cli \in {Idle, [step |-> "update"]}
    BY <1>1 DEF Idle, Reading
<1>2. CASE cli \in Readers
    BY <1>2 DEF Readers, Reading
<1> QED BY <1>1, <1>2 DEF GatewayTyped, Clis

\* A copy that overlaps a reader costs it its claim to a whole one.
LEMMA OverlapsFacts ==
    ASSUME GatewayTyped, Overlaps
    PROVE  /\ cli' \in Clis /\ cli'.step = cli.step
           /\ Reading => /\ cli'.id = cli.id /\ cli'.floor = cli.floor /\ cli'.front = cli.front
                         /\ cli'.clean => cli.clean /\ cli.id # Id
<1>1. CASE Reading /\ cli.id = Id
    <2>1. cli \in Readers /\ cli' = [cli EXCEPT !.clean = FALSE]
        BY <1>1, CliFacts DEF Overlaps, Reading
    <2> QED BY <1>1, <2>1 DEF Readers, Clis
<1>2. CASE ~(Reading /\ cli.id = Id)
    BY <1>2 DEF Overlaps, Reading, GatewayTyped
<1> QED BY <1>1, <1>2

ShowSteps == ShowIp \/ ShowRfid \/ ShowWeight \/ ShowTime \/ ShowVisibility

\* What the callback's frame is at each step.
LEMMA FieldTyped ==
    ASSUME GatewayTyped, callback.step # "idle"
    PROVE  /\ \A f \in {"ip", "rfid", "weight", "time"} :
                 [display EXCEPT ![Id][f] = callback.p.n] \in [Ids -> Screens]
           /\ [display EXCEPT ![Id]["vis"] = callback.p.device_state >= 1] \in [Ids -> Screens]
<1>1. Id \in Ids /\ callback.p.n \in Numbers /\ display \in [Ids -> Screens]
    BY CallbackFacts DEF GatewayTyped
<1>2. (callback.p.device_state >= 1) \in BOOLEAN
    OBVIOUS
<1>3. display[Id] \in Screens
    BY <1>1
<1>4. [display[Id] EXCEPT !["vis"] = callback.p.device_state >= 1] \in Screens
    BY <1>2, <1>3 DEF Screens
<1>5. ASSUME NEW f \in {"ip", "rfid", "weight", "time"}
      PROVE  [display[Id] EXCEPT ![f] = callback.p.n] \in Screens
    BY <1>1, <1>3 DEF Screens
<1> QED BY <1>1, <1>4, <1>5

\* Counting changes one counter of one post.
LEMMA CountTyped ==
    ASSUME GatewayTyped, NEW id \in Ids
    PROVE  /\ [stats EXCEPT !.snap[id] = @ + 1] \in [snap : [Ids -> Nat], session : [Ids -> Nat]]
           /\ [stats EXCEPT !.session[id] = @ + 1] \in [snap : [Ids -> Nat], session : [Ids -> Nat]]
           /\ [stats EXCEPT !.snap[id] = @ + 1].snap = [stats.snap EXCEPT ![id] = @ + 1]
           /\ [stats EXCEPT !.session[id] = @ + 1].snap = stats.snap
<1>1. stats \in [snap : [Ids -> Nat], session : [Ids -> Nat]]
    BY DEF GatewayTyped
<1>2. stats.snap \in [Ids -> Nat] /\ stats.session \in [Ids -> Nat]
    BY <1>1
<1>3. /\ [stats.snap EXCEPT ![id] = @ + 1] \in [Ids -> Nat]
      /\ [stats.session EXCEPT ![id] = @ + 1] \in [Ids -> Nat]
    BY <1>2
<1>4. /\ [stats EXCEPT !.snap[id] = @ + 1] =
            [snap |-> [stats.snap EXCEPT ![id] = @ + 1], session |-> stats.session]
      /\ [stats EXCEPT !.session[id] = @ + 1] =
            [snap |-> stats.snap, session |-> [stats.session EXCEPT ![id] = @ + 1]]
    BY <1>1
<1> HIDE DEF GatewayTyped
<1> QED BY <1>2, <1>3, <1>4

\* The driver's queue.
LEMMA FramesAppend ==
    ASSUME NEW s \in Seq(Frames), NEW f \in Frames
    PROVE  Append(s, f) \in Seq(Frames)
    BY AppendProperties

\* The types of the master.
LEMMA GatewayTypedInit == GatewayInit => GatewayTyped
<1> SUFFICES ASSUME GatewayInit PROVE GatewayTyped
    OBVIOUS
<1>1. 0 \in Numbers /\ 0 \in Nat /\ 0 \in 0 .. 2
    BY GatewayAssumption DEF Numbers
<1>2. Zeroed \in Copies /\ Blank \in Screens
    BY <1>1 DEF Zeroed, Copies, Blank, Screens
<1>3. rx \in Seq(Frames)
    BY DEF GatewayInit
<1>4. callback \in Callbacks /\ cli \in Clis /\ callback.step = "idle"
    BY DEF GatewayInit, Callbacks, Clis, Idle
<1> QED BY <1>1, <1>2, <1>3, <1>4 DEF GatewayInit, GatewayTyped, SnapSteps

LEMMA GatewayTypedStep ==
    ASSUME GatewayTyped, [GatewayNext]_gatewayVars
    PROVE  GatewayTyped'
<1> USE DEF GatewayTyped
<1>1. ASSUME NEW id \in Ids, NEW type \in {"snapshot", "session", "other"}, NEW state \in States,
             PostSends(id, type, state)
      PROVE  GatewayTyped'
    <2>1. sentTo[id] + 1 \in Numbers /\ sentTo[id] + 1 > 0
        BY <1>1, GatewayAssumption DEF PostSends, Numbers
    <2>2. sentTo' \in [Ids -> Numbers]
        BY <1>1, <2>1 DEF PostSends
    <2>3. [type |-> type, esp_id |-> id, n |-> sentTo[id] + 1, device_state |-> state] \in Frames
        BY <2>1 DEF Frames, Numbers
    <2>4. rx' \in Seq(Frames)
        <3> DEFINE f == [type |-> type, esp_id |-> id, n |-> sentTo[id] + 1, device_state |-> state]
        <3>1. rx' = rx \/ rx' = Append(rx, f)
            BY <1>1 DEF PostSends
        <3>2. f \in Frames
            BY <2>3
        <3> HIDE DEF f
        <3>3. rx \in Seq(Frames)
            OBVIOUS
        <3> HIDE DEF GatewayTyped
        <3>4. Append(rx, f) \in Seq(Frames)
            BY <3>2, <3>3, FramesAppend
        <3> QED BY <3>1, <3>3, <3>4
    <2> QED BY <1>1, <2>2, <2>4 DEF PostSends, snapVars, cliVars
<1>2. CASE OnReceive
    <2>1. rx' \in Seq(Frames) /\ Head(rx) \in Frames
        BY <1>2, HeadTailProperties DEF OnReceive
    <2>2. \/ callback' = Idle
          \/ callback' = [step |-> "front", p |-> Head(rx)] /\ Head(rx).type = "snapshot"
          \/ callback' = [step |-> "session", p |-> Head(rx)]
        BY <1>2, <2>1 DEF OnReceive, FirstStep, Frames
    <2>3. /\ callback' \in Callbacks
          /\ callback'.step \in SnapSteps => callback'.p.type = "snapshot"
        BY <2>1, <2>2 DEF Callbacks, SnapSteps, Idle
    <2> QED BY <1>2, <2>1, <2>3 DEF OnReceive, snapVars, cliVars
<1>3. CASE CopyFront
    <2>1. Id \in Ids /\ callback.p.n \in Numbers /\ callback.p.type = "snapshot" /\ callback.step # "idle"
        BY <1>3, CallbackFacts DEF CopyFront, At, SnapSteps
    <2>2. callback' \in Callbacks /\ callback'.p.type = "snapshot"
        BY <1>3, <2>1, GoesFacts DEF CopyFront, SnapSteps
    <2>3. lastSnap' \in [Ids -> Copies]
        BY <1>3, <2>1 DEF CopyFront, Copies
    <2> QED BY <1>3, <2>2, <2>3, OverlapsFacts DEF CopyFront, rxVars
<1>4. CASE CopyBack
    <2>1. /\ Id \in Ids /\ callback.p.n \in Numbers /\ callback.p.device_state \in 0 .. 2
          /\ callback.p.type = "snapshot" /\ callback.step # "idle"
        BY <1>4, CallbackFacts, GatewayAssumption DEF CopyBack, At, SnapSteps
    <2>2. callback' \in Callbacks /\ callback'.p.type = "snapshot"
        BY <1>4, <2>1, GoesFacts DEF CopyBack, SnapSteps
    <2>3. lastSnap' \in [Ids -> Copies] /\ taken' \in [Ids -> Numbers]
        BY <1>4, <2>1, ZenonT(30) DEF CopyBack, Copies
    <2> QED BY <1>4, <2>2, <2>3, OverlapsFacts DEF CopyBack, rxVars
<1>5. CASE SetHasSnap \/ CountSnap
    <2>1. Id \in Ids /\ callback.p.type = "snapshot" /\ callback.step # "idle"
        BY <1>5, CallbackFacts DEF SetHasSnap, CountSnap, At, SnapSteps
    <2>2. callback' \in Callbacks /\ callback'.p.type = "snapshot"
        BY <1>5, <2>1, GoesFacts DEF SetHasSnap, CountSnap, SnapSteps
    <2>3. hasSnap' \in [Ids -> BOOLEAN] /\ stats' \in [snap : [Ids -> Nat], session : [Ids -> Nat]]
        BY <1>5, <2>1, CountTyped DEF SetHasSnap, CountSnap
    <2> QED BY <1>5, <2>2, <2>3 DEF SetHasSnap, CountSnap, rxVars, cliVars
<1>6. CASE CountSession
    <2>1. Id \in Ids
        BY <1>6, CallbackFacts DEF CountSession, At
    <2>2. stats' \in [snap : [Ids -> Nat], session : [Ids -> Nat]]
        BY <1>6, <2>1, CountTyped DEF CountSession
    <2> QED BY <1>6, <2>2 DEF CountSession, Callbacks, Idle, SnapSteps, rxVars, cliVars
<1>7. CASE ShowSteps
    <2>1. callback.step # "idle" /\ callback.p.type = "snapshot"
        BY <1>7 DEF ShowSteps, ShowIp, ShowRfid, ShowWeight, ShowTime, ShowVisibility, Shows, At, SnapSteps
    <2>2. display' \in [Ids -> Screens]
        BY <1>7, <2>1, FieldTyped DEF ShowSteps, ShowIp, ShowRfid, ShowWeight, ShowTime, ShowVisibility, Shows
    <2>3. callback' \in Callbacks /\ (callback'.step \in SnapSteps => callback'.p.type = "snapshot")
        <3>1. (\E s \in SnapSteps : Goes(s)) \/ callback' = Idle
            BY <1>7 DEF ShowSteps, ShowIp, ShowRfid, ShowWeight, ShowTime, ShowVisibility, SnapSteps
        <3>2. CASE callback' = Idle
            BY <3>2 DEF Callbacks, Idle, SnapSteps
        <3> QED BY <2>1, <3>1, <3>2, GoesFacts
    <2>4. UNCHANGED <<rxVars, snapVars, cliVars>>
        BY <1>7 DEF ShowSteps, ShowIp, ShowRfid, ShowWeight, ShowTime, ShowVisibility, Shows
    <2> QED BY <2>2, <2>3, <2>4 DEF rxVars, snapVars, cliVars
<1>8. CASE LoopTask
    <2>1. cli' \in Clis
        <3>1. ASSUME NEW n \in Asked, AskLast(n) PROVE cli' \in Clis
            <4> DEFINE id == SlaveId(n)
            <4>1. CASE cli' = cli
                BY <4>1
            <4>2. CASE id \in Ids /\ hasSnap[id]
                <5>1. cli' = [step |-> "front", id |-> id, floor |-> taken[id],
                              clean |-> ~HalfCopied(id), front |-> 0]
                    BY <3>1, <4>2 DEF AskLast
                <5>2. taken[id] \in Numbers /\ 0 \in Numbers /\ (~HalfCopied(id)) \in BOOLEAN
                    BY <4>2, GatewayAssumption DEF HalfCopied, Numbers
                <5> HIDE DEF id
                <5> QED BY <4>2, <5>1, <5>2 DEF Clis, Readers
            <4> QED BY <3>1, <4>1, <4>2 DEF AskLast
        <3>2. CASE ReadFront
            <4>1. cli \in Readers
                BY <3>2, CliFacts DEF ReadFront, Reading
            <4>2. lastSnap[cli.id].front \in Numbers
                BY <4>1 DEF Readers, Copies
            <4> QED BY <3>2, <4>1, <4>2 DEF ReadFront, Readers, Clis
        <3>3. CASE ReadBack \/ UpdateBegins \/ UpdateFails
            BY <3>3 DEF ReadBack, UpdateBegins, UpdateFails, Clis
        <3> QED BY <1>8, <3>1, <3>2, <3>3 DEF LoopTask
    <2>2. UNCHANGED <<rxVars, callback, snapVars, display>>
        BY <1>8 DEF LoopTask, AskLast, ReadFront, ReadBack, UpdateBegins, UpdateFails
    <2> QED BY <2>1, <2>2 DEF rxVars, snapVars
<1>9. CASE Restart
    <2>1. 0 \in Numbers /\ 0 \in Nat /\ 0 \in 0 .. 2
        BY GatewayAssumption DEF Numbers
    <2>2. Zeroed \in Copies /\ Blank \in Screens
        BY <2>1 DEF Zeroed, Copies, Blank, Screens
    <2>3. display' \in [Ids -> Screens]
        BY <1>9, <2>2 DEF Restart
    <2>4. callback' \in Callbacks /\ cli' \in Clis /\ callback'.step = "idle" /\ rx' \in Seq(Frames)
        BY <1>9 DEF Restart, Cleared, Callbacks, Clis, Idle
    <2>5. /\ lastSnap' \in [Ids -> Copies] /\ hasSnap' \in [Ids -> BOOLEAN]
          /\ taken' \in [Ids -> Numbers] /\ stats' \in [snap : [Ids -> Nat], session : [Ids -> Nat]]
        BY <1>9, <2>1, <2>2 DEF Restart, Cleared
    <2> QED BY <1>9, <2>3, <2>4, <2>5 DEF Restart, SnapSteps
<1>10. CASE UNCHANGED gatewayVars
    BY <1>10 DEF gatewayVars, rxVars, snapVars, cliVars
<1> QED BY <1>1, <1>2, <1>3, <1>4, <1>5, <1>6, <1>7, <1>8, <1>9, <1>10 DEF GatewayNext, WifiTask, ShowSteps

\* What a step of the callback does to its own frame.
LEMMA CallbackStep ==
    ASSUME GatewayTyped, WifiTask, ~OnReceive
    PROVE  /\ callback.step # "idle" /\ UNCHANGED <<rx, sentTo, boots, reply>>
           /\ \/ callback' = Idle
              \/ callback'.p = callback.p /\ callback'.step \in SnapSteps /\ callback.step \in SnapSteps
           /\ taken' = taken \/ (CopyBack /\ taken' = [taken EXCEPT ![Id] = callback.p.n])
<1>0. callback.step \in SnapSteps => callback.p.type = "snapshot" /\ callback.step # "idle"
    BY CallbackFacts DEF GatewayTyped, SnapSteps
<1>1. CASE CopyFront \/ CopyBack \/ SetHasSnap \/ CountSnap
    BY <1>0, <1>1, GoesFacts DEF CopyFront, CopyBack, SetHasSnap, CountSnap, At, SnapSteps, rxVars, cliVars
<1>2. CASE CountSession
    BY <1>2 DEF CountSession, At, rxVars, cliVars
<1>3. CASE ShowSteps
    <2>1. callback.step \in SnapSteps
        BY <1>3 DEF ShowSteps, ShowIp, ShowRfid, ShowWeight, ShowTime, ShowVisibility, Shows, At, SnapSteps
    <2>2. (\E s \in SnapSteps : Goes(s)) \/ callback' = Idle
        BY <1>3 DEF ShowSteps, ShowIp, ShowRfid, ShowWeight, ShowTime, ShowVisibility, SnapSteps
    <2>3. UNCHANGED <<rx, sentTo, boots, reply, taken>>
        BY <1>3 DEF ShowSteps, ShowIp, ShowRfid, ShowWeight, ShowTime, ShowVisibility, Shows, rxVars, cliVars, snapVars
    <2> QED BY <1>0, <2>1, <2>2, <2>3, GoesFacts
<1> QED BY <1>1, <1>2, <1>3 DEF WifiTask, ShowSteps

\* What is left of the queue when its head is taken.
LEMMA FramesTail ==
    ASSUME NEW s \in Seq(Frames), s # <<>>
    PROVE  /\ 1 \in DOMAIN s /\ Head(s) = s[1] /\ DOMAIN s \subseteq Nat
           /\ \A i \in DOMAIN Tail(s) : i \in Nat /\ i + 1 \in DOMAIN s /\ Tail(s)[i] = s[i + 1] /\ 1 < i + 1
<1>1. /\ Len(s) \in Nat /\ Len(s) > 0 /\ DOMAIN s = 1 .. Len(s)
      /\ DOMAIN Tail(s) = 1 .. Len(s) - 1 /\ Head(s) = s[1]
      /\ \A i \in 1 .. Len(s) - 1 : Tail(s)[i] = s[i + 1]
    BY HeadTailProperties, LenProperties, EmptySeq
<1> DEFINE h == Tail(s)
<1> HIDE DEF h
<1>2. 1 \in DOMAIN s /\ DOMAIN s \subseteq Nat
    BY <1>1
<1>3. ASSUME NEW i \in DOMAIN h PROVE i \in Nat /\ i + 1 \in DOMAIN s /\ h[i] = s[i + 1] /\ 1 < i + 1
    BY <1>1, <1>3 DEF h
<1> QED BY <1>1, <1>2, <1>3 DEF h

\* What the queue holds when a frame was added.
LEMMA FramesOrder ==
    ASSUME NEW s \in Seq(Frames), NEW f
    PROVE  /\ Len(s) + 1 \in DOMAIN Append(s, f) /\ Append(s, f)[Len(s) + 1] = f
           /\ \A i \in DOMAIN Append(s, f) :
                 \/ i \in DOMAIN s /\ Append(s, f)[i] = s[i] /\ i \in Nat /\ i < Len(s) + 1
                 \/ i = Len(s) + 1
<1>1. /\ Len(s) \in Nat /\ DOMAIN s = 1 .. Len(s) /\ DOMAIN Append(s, f) = 1 .. Len(s) + 1
      /\ \A i \in DOMAIN s : Append(s, f)[i] = s[i]
      /\ Append(s, f)[Len(s) + 1] = f
    BY AppendProperties, LenProperties
<1> DEFINE h == Append(s, f)
<1> HIDE DEF h
<1>2. ASSUME NEW i \in DOMAIN h
      PROVE  \/ i \in DOMAIN s /\ h[i] = s[i] /\ i \in Nat /\ i < Len(s) + 1
             \/ i = Len(s) + 1
    BY <1>1 DEF h
<1>3. Len(s) + 1 \in DOMAIN h
    BY <1>1 DEF h
<1> QED BY <1>1, <1>2, <1>3 DEF h

\* A newer frame never overtakes an older one of its post.
LEMMA RxOrderStep ==
    ASSUME GatewayTyped, RxOrder, SnapInv, [GatewayNext]_gatewayVars
    PROVE  RxOrder'
<1>0. \A i \in DOMAIN rx : rx[i] \in Frames /\ rx[i].n \in Nat /\ rx[i].esp_id \in Ids
    <2>1. \A i \in DOMAIN rx : rx[i] \in Frames
        BY ElementOfSeq, LenProperties DEF GatewayTyped
    <2> QED BY <2>1 DEF Frames
<1>t. /\ \A id \in Ids : sentTo[id] \in Nat /\ taken[id] \in Nat /\ taken[id] <= sentTo[id]
      /\ callback.step # "idle" => Id \in Ids /\ callback.p.n \in Nat /\ callback.p.n <= sentTo[Id]
    BY CallbackFacts DEF GatewayTyped, Numbers, SnapInv, SnapOf
<1>1. ASSUME NEW id \in Ids, NEW type \in {"snapshot", "session", "other"}, NEW state \in States,
             PostSends(id, type, state)
      PROVE  RxOrder'
    <2> DEFINE f == [type |-> type, esp_id |-> id, n |-> sentTo[id] + 1, device_state |-> state]
    <2>1. /\ rx' = rx \/ rx' = Append(rx, f)
          /\ callback' = callback /\ taken' = taken
          /\ sentTo' = [sentTo EXCEPT ![id] = @ + 1]
        BY <1>1 DEF PostSends, snapVars
    <2>2. f.n = sentTo[id] + 1 /\ f.esp_id = id
        OBVIOUS
    <2> HIDE DEF f
    <2>3. \A u \in Ids : sentTo[u] <= sentTo'[u] /\ sentTo'[u] \in Nat /\ sentTo'[id] = sentTo[id] + 1
        BY <1>t, <2>1 DEF GatewayTyped
    <2>4. CASE rx' = rx
        BY <1>0, <1>t, <2>1, <2>3, <2>4 DEF RxOrder, Id
    <2>5. CASE rx' = Append(rx, f)
        <3>1. /\ \A i \in DOMAIN rx' : \/ i \in DOMAIN rx /\ rx'[i] = rx[i] /\ i \in Nat /\ i < Len(rx) + 1
                                       \/ i = Len(rx) + 1 /\ rx'[i] = f
              /\ Len(rx) \in Nat
            BY <2>5, FramesOrder, LenProperties DEF GatewayTyped
        <3>2. ASSUME NEW i \in DOMAIN rx', NEW j \in DOMAIN rx', i < j, rx'[i].esp_id = rx'[j].esp_id
              PROVE  rx'[i].n < rx'[j].n
            <4>1. CASE j \in DOMAIN rx /\ rx'[j] = rx[j]
                BY <3>1, <3>2, <4>1 DEF RxOrder
            <4>2. CASE j = Len(rx) + 1 /\ rx'[j] = f
                BY <1>0, <1>t, <2>2, <3>1, <3>2, <4>2 DEF RxOrder
            <4> QED BY <3>1, <4>1, <4>2
        <3>3. ASSUME NEW i \in DOMAIN rx'
              PROVE  LET u == rx'[i].esp_id IN
                        /\ rx'[i].n <= sentTo'[u] /\ taken'[u] < rx'[i].n
                        /\ callback'.step # "idle" /\ Id' = u => callback'.p.n < rx'[i].n
            <4>1. CASE i \in DOMAIN rx /\ rx'[i] = rx[i]
                BY <1>0, <1>t, <2>1, <2>3, <4>1 DEF RxOrder, Id
            <4>2. CASE rx'[i] = f
                BY <1>t, <2>1, <2>2, <2>3, <4>2 DEF Id
            <4> QED BY <3>1, <4>1, <4>2
        <3> QED BY <3>2, <3>3 DEF RxOrder
    <2> QED BY <2>1, <2>4, <2>5
<1>2. CASE OnReceive
    <2>1. /\ rx # <<>> /\ rx' = Tail(rx) /\ taken' = taken /\ sentTo' = sentTo
          /\ callback'.step = "idle" \/ callback'.p = Head(rx)
        BY <1>2 DEF OnReceive, snapVars, Idle
    <2>2. /\ 1 \in DOMAIN rx /\ Head(rx) = rx[1]
          /\ \A i \in DOMAIN rx' : i \in Nat /\ i + 1 \in DOMAIN rx /\ rx'[i] = rx[i + 1] /\ 1 < i + 1
        BY <2>1, FramesTail DEF GatewayTyped
    <2>3. ASSUME NEW i \in DOMAIN rx', NEW j \in DOMAIN rx', i < j, rx'[i].esp_id = rx'[j].esp_id
          PROVE  rx'[i].n < rx'[j].n
        BY <2>2, <2>3 DEF RxOrder
    <2>4. ASSUME NEW i \in DOMAIN rx'
          PROVE  LET u == rx'[i].esp_id IN
                    /\ rx'[i].n <= sentTo'[u] /\ taken'[u] < rx'[i].n
                    /\ callback'.step # "idle" /\ Id' = u => callback'.p.n < rx'[i].n
        BY <2>1, <2>2 DEF RxOrder, Id
    <2> QED BY <2>3, <2>4 DEF RxOrder
<1>3. CASE WifiTask /\ ~OnReceive
    <2>1. /\ callback.step # "idle" /\ UNCHANGED <<rx, sentTo>>
          /\ callback'.step = "idle" \/ callback'.p = callback.p
          /\ taken' = taken \/ taken' = [taken EXCEPT ![Id] = callback.p.n]
        BY <1>3, CallbackStep DEF Idle
    <2>2. ASSUME NEW i \in DOMAIN rx
          PROVE  /\ taken'[rx[i].esp_id] < rx[i].n
                 /\ callback'.step # "idle" /\ Id' = rx[i].esp_id => callback'.p.n < rx[i].n
        BY <1>0, <2>1 DEF RxOrder, Id, GatewayTyped
    <2> QED BY <2>1, <2>2 DEF RxOrder
<1>4. CASE LoopTask \/ UNCHANGED gatewayVars
    <2>1. UNCHANGED <<rxVars, callback, snapVars>>
        BY <1>4 DEF LoopTask, AskLast, ReadFront, ReadBack, UpdateBegins, UpdateFails, gatewayVars
    <2> QED BY <2>1 DEF RxOrder, rxVars, snapVars, Id
<1>5. CASE Restart
    BY <1>5 DEF Restart, Cleared, RxOrder
<1> QED BY <1>1, <1>2, <1>3, <1>4, <1>5 DEF GatewayNext

\* The memory of each post is made of numbers.
LEMMA SnapFacts ==
    ASSUME GatewayTyped
    PROVE  \A id \in Ids : /\ lastSnap[id] \in Copies /\ taken[id] \in Nat /\ sentTo[id] \in Nat
                           /\ hasSnap[id] \in BOOLEAN /\ stats.snap[id] \in Nat
                           /\ lastSnap[id].front \in Nat /\ lastSnap[id].back \in Nat
    BY DEF GatewayTyped, Copies, Numbers

\* Restarting leaves what was never written.
LEMMA SnapInvCleared ==
    ASSUME GatewayTyped, callback'.step = "idle", sentTo' = sentTo,
           taken' = [id \in Ids |-> 0], lastSnap' = [id \in Ids |-> Zeroed],
           hasSnap' = [id \in Ids |-> FALSE], stats'.snap = [id \in Ids |-> 0]
    PROVE  SnapInv'
    BY SnapFacts DEF SnapInv, SnapOf, Halfway, Ahead, HalfCopied, Zeroed, SnapSteps

\* What the memory holds while the callback goes on.
LEMMA SnapInvStep ==
    ASSUME GatewayTyped, RxOrder, SnapInv, [GatewayNext]_gatewayVars
    PROVE  SnapInv'
<1>f. \A id \in Ids : /\ lastSnap[id] \in Copies /\ taken[id] \in Nat /\ sentTo[id] \in Nat
                      /\ hasSnap[id] \in BOOLEAN /\ stats.snap[id] \in Nat
                      /\ lastSnap[id].front \in Nat /\ lastSnap[id].back \in Nat
    BY SnapFacts
<1>c. callback.step # "idle" => Id \in Ids /\ callback.p.n \in Nat /\ callback.p.n > 0
    BY CallbackFacts DEF Numbers
<1>1. ASSUME NEW id \in Ids, NEW type \in {"snapshot", "session", "other"}, NEW state \in States,
             PostSends(id, type, state)
      PROVE  SnapInv'
    <2>1. UNCHANGED <<callback, lastSnap, hasSnap, stats, taken>>
        BY <1>1 DEF PostSends, snapVars
    <2>2. \A u \in Ids : sentTo[u] <= sentTo'[u] /\ sentTo'[u] \in Nat
        BY <1>1, <1>f DEF PostSends, GatewayTyped
    <2> QED BY <1>f, <1>c, <2>1, <2>2 DEF SnapInv, SnapOf, Halfway, Ahead, HalfCopied, Id
<1>2. CASE OnReceive
    <2>1. /\ rx # <<>> /\ UNCHANGED <<sentTo, lastSnap, hasSnap, stats, taken>> /\ callback.step = "idle"
          /\ \/ callback'.step = "idle"
             \/ callback'.p = Head(rx) /\ callback'.step \in {"front", "session"}
        <3>1. Head(rx) \in Frames
            BY <1>2, HeadTailProperties DEF OnReceive, GatewayTyped
        <3> QED BY <1>2, <3>1 DEF OnReceive, snapVars, Idle, FirstStep, Frames
    <2>2. 1 \in DOMAIN rx /\ Head(rx) = rx[1] /\ rx[1] \in Frames
        BY <2>1, FramesTail, ElementOfSeq, LenProperties DEF GatewayTyped
    <2>3. LET u == Head(rx).esp_id IN
             u \in Ids /\ taken[u] < Head(rx).n /\ Head(rx).n <= sentTo[u] /\ Head(rx).n \in Nat
        BY <2>2 DEF RxOrder, Frames
    <2> QED BY <1>f, <2>1, <2>3 DEF SnapInv, SnapOf, Halfway, Ahead, HalfCopied, Id, SnapSteps
<1>3. CASE CopyFront
    <2>1. /\ callback.step = "front" /\ callback'.step = "back" /\ callback'.p = callback.p
          /\ lastSnap' = [lastSnap EXCEPT ![Id].front = callback.p.n]
          /\ UNCHANGED <<sentTo, hasSnap, stats, taken>>
        BY <1>3, GoesFacts DEF CopyFront, At, rxVars, GatewayTyped, SnapSteps
    <2>2. /\ Id' = Id /\ Id \in Ids
          /\ \A id \in Ids : IF id = Id THEN /\ lastSnap'[id].front = callback.p.n
                                             /\ lastSnap'[id].back = lastSnap[id].back
                             ELSE lastSnap'[id] = lastSnap[id]
        BY <1>f, <1>c, <2>1 DEF Copies, Id, GatewayTyped
    <2> QED BY <1>f, <1>c, <2>1, <2>2 DEF SnapInv, SnapOf, Halfway, Ahead, HalfCopied, SnapSteps
<1>4. CASE CopyBack
    <2>1. /\ callback.step = "back" /\ callback'.step = "flag" /\ callback'.p = callback.p
          /\ lastSnap' = [lastSnap EXCEPT ![Id].back = callback.p.n,
                                            ![Id].device_state = callback.p.device_state]
          /\ taken' = [taken EXCEPT ![Id] = callback.p.n]
          /\ UNCHANGED <<sentTo, hasSnap, stats>>
        BY <1>4, GoesFacts DEF CopyBack, At, rxVars, GatewayTyped, SnapSteps
    <2>2. /\ Id' = Id /\ Id \in Ids
          /\ \A id \in Ids : IF id = Id THEN /\ lastSnap'[id].front = lastSnap[id].front
                                             /\ lastSnap'[id].back = callback.p.n
                                             /\ lastSnap'[id].device_state = callback.p.device_state
                                             /\ taken'[id] = callback.p.n
                             ELSE lastSnap'[id] = lastSnap[id] /\ taken'[id] = taken[id]
        BY <1>f, <1>c, <2>1 DEF Copies, Id, GatewayTyped
    <2>3. ASSUME NEW id \in Ids PROVE SnapOf(id)'
        <3>1. SnapOf(id)
            BY DEF SnapInv
        <3>2. CASE id = Id
            BY <1>f, <1>c, <2>1, <2>2, <3>1, <3>2, ZenonT(30) DEF SnapOf, Halfway, Ahead, HalfCopied, SnapSteps
        <3>3. CASE id # Id
            BY <1>f, <1>c, <2>1, <2>2, <3>1, <3>3 DEF SnapOf, Halfway, Ahead, HalfCopied, SnapSteps
        <3> QED BY <3>2, <3>3
    <2> QED BY <2>3 DEF SnapInv
<1>5. CASE SetHasSnap
    <2>1. /\ callback.step = "flag" /\ callback'.step = "count" /\ callback'.p = callback.p
          /\ hasSnap' = [hasSnap EXCEPT ![Id] = TRUE]
          /\ UNCHANGED <<sentTo, lastSnap, stats, taken>>
        BY <1>5, GoesFacts DEF SetHasSnap, At, rxVars, GatewayTyped, SnapSteps
    <2>2. /\ Id' = Id /\ Id \in Ids
          /\ \A id \in Ids : IF id = Id THEN hasSnap'[id] ELSE hasSnap'[id] = hasSnap[id]
        BY <1>c, <2>1 DEF Id, GatewayTyped
    <2> QED BY <1>f, <1>c, <2>1, <2>2 DEF SnapInv, SnapOf, Halfway, Ahead, HalfCopied, SnapSteps
<1>6. CASE CountSnap
    <2>1. /\ callback.step = "count" /\ callback'.step = "ip" /\ callback'.p = callback.p
          /\ UNCHANGED <<sentTo, lastSnap, hasSnap, taken>>
        BY <1>6, GoesFacts DEF CountSnap, At, rxVars, GatewayTyped, SnapSteps
    <2>2. /\ Id' = Id /\ Id \in Ids
          /\ \A id \in Ids : IF id = Id THEN TRUE ELSE stats'.snap[id] = stats.snap[id]
        <3>1. Id' = Id /\ Id \in Ids
            BY <1>c, <2>1 DEF Id
        <3>2. stats'.snap = [stats.snap EXCEPT ![Id] = @ + 1]
            BY <1>6, <3>1, CountTyped DEF CountSnap
        <3>3. stats.snap \in [Ids -> Nat]
            BY DEF GatewayTyped
        <3> QED BY <3>1, <3>2, <3>3
    <2> QED BY <1>f, <1>c, <2>1, <2>2 DEF SnapInv, SnapOf, Halfway, Ahead, HalfCopied, SnapSteps
<1>7. CASE CountSession \/ ShowSteps
    <2>1. /\ callback.step # "idle" /\ callback.step \notin {"front", "back", "flag", "count"}
          /\ UNCHANGED <<sentTo, lastSnap, hasSnap, taken>>
          /\ stats'.snap = stats.snap
        <3>1. CASE CountSession
            BY <1>c, <3>1, CountTyped DEF CountSession, At, rxVars
        <3>2. CASE ShowSteps
            BY <3>2 DEF ShowSteps, ShowIp, ShowRfid, ShowWeight, ShowTime, ShowVisibility, Shows, At, snapVars, rxVars
        <3> QED BY <1>7, <3>1, <3>2
    <2>2. \/ callback'.step = "idle"
          \/ /\ callback'.p = callback.p /\ callback.step \in SnapSteps
             /\ callback'.step \in SnapSteps \ {"front", "back", "flag", "count"}
        <3>1. CASE callback' = Idle
            BY <3>1 DEF Idle
        <3>2. CASE \E s \in {"rfid", "weight", "time", "vis"} : Goes(s) /\ ShowSteps
            <4>1. callback.step \in SnapSteps
                BY <3>2 DEF ShowSteps, ShowIp, ShowRfid, ShowWeight, ShowTime, ShowVisibility, Shows, At, SnapSteps
            <4> QED BY <2>1, <3>2, <4>1, GoesFacts DEF SnapSteps, GatewayTyped
        <3> QED BY <1>7, <3>1, <3>2 DEF CountSession, ShowSteps, ShowIp, ShowRfid, ShowWeight, ShowTime, ShowVisibility
    <2> QED BY <1>f, <1>c, <2>1, <2>2 DEF SnapInv, SnapOf, Halfway, Ahead, HalfCopied, SnapSteps, Id
<1>8. CASE LoopTask \/ UNCHANGED gatewayVars
    <2>1. UNCHANGED <<rxVars, callback, snapVars>>
        BY <1>8 DEF LoopTask, AskLast, ReadFront, ReadBack, UpdateBegins, UpdateFails, gatewayVars
    <2> QED BY <2>1 DEF SnapInv, SnapOf, Halfway, Ahead, HalfCopied, rxVars, snapVars, Id
<1>9. CASE Restart
    <2>1. /\ callback'.step = "idle" /\ sentTo' = sentTo
          /\ taken' = [id \in Ids |-> 0] /\ lastSnap' = [id \in Ids |-> Zeroed]
          /\ hasSnap' = [id \in Ids |-> FALSE] /\ stats'.snap = [id \in Ids |-> 0]
        BY <1>9 DEF Restart, Cleared, Idle
    <2> QED BY <2>1, SnapInvCleared
<1> QED BY <1>1, <1>2, <1>3, <1>4, <1>5, <1>6, <1>7, <1>8, <1>9 DEF GatewayNext, WifiTask, ShowSteps

\* The steps that leave the memory and the display of all posts but the callback's as they are.
LEMMA ScreenOthers ==
    ASSUME GatewayTyped, DisplayAgrees, callback'.p = callback.p, callback.step # "idle",
           callback'.step \in SnapSteps,
           \A id \in Ids \ {Id} : /\ lastSnap'[id] = lastSnap[id] /\ hasSnap'[id] = hasSnap[id]
                                  /\ display'[id] = display[id]
    PROVE  DisplayAgrees'
    BY DEF DisplayAgrees, Showing, Id, SnapSteps

\* What the display shows while the callback goes on.
LEMMA ScreenStep ==
    ASSUME GatewayTyped, SnapInv, DisplayAgrees, Written, [GatewayNext]_gatewayVars
    PROVE  DisplayAgrees' /\ Written'
<1>c. callback.step # "idle" => Id \in Ids /\ callback.p.n \in Nat /\ callback.p.n > 0
    BY CallbackFacts DEF Numbers
<1>t. callback.step \in SnapSteps => callback.p.type = "snapshot"
    BY DEF GatewayTyped
<1>1. CASE LoopTask \/ UNCHANGED gatewayVars \/
           \E id \in Ids, type \in {"snapshot", "session", "other"}, state \in States :
               PostSends(id, type, state)
    <2>1. UNCHANGED <<callback, snapVars, display>>
        BY <1>1 DEF LoopTask, AskLast, ReadFront, ReadBack, UpdateBegins, UpdateFails, gatewayVars, PostSends
    <2> QED BY <2>1 DEF DisplayAgrees, Showing, Written, snapVars, Id
<1>2. CASE OnReceive
    <2>1. /\ callback.step = "idle" /\ UNCHANGED <<snapVars, display>>
          /\ callback'.step \in {"idle", "front", "session"}
        BY <1>2 DEF OnReceive, FirstStep, Idle
    <2> QED BY <2>1 DEF DisplayAgrees, Showing, Written, snapVars
<1>3. CASE CopyFront \/ CopyBack \/ SetHasSnap \/ CountSnap
    <2>1. /\ callback.step # "idle" /\ callback'.p = callback.p
          /\ callback'.step \in {"back", "flag", "count", "ip"} /\ display' = display
        BY <1>3, <1>t, GoesFacts DEF CopyFront, CopyBack, SetHasSnap, CountSnap, At, SnapSteps
    <2>2. \A id \in Ids \ {Id} : lastSnap'[id] = lastSnap[id] /\ hasSnap'[id] = hasSnap[id]
        BY <1>3, <1>c, <2>1 DEF CopyFront, CopyBack, SetHasSnap, CountSnap, GatewayTyped
    <2>3. DisplayAgrees'
        BY <2>1, <2>2, ScreenOthers DEF SnapSteps
    <2> QED BY <2>1, <2>3 DEF Written
<1>4. CASE CountSession
    BY <1>4 DEF CountSession, At, Idle, DisplayAgrees, Showing, Written
<1>5. CASE ShowIp \/ ShowRfid \/ ShowWeight \/ ShowTime
    <2>1. /\ callback.step \in {"ip", "rfid", "weight", "time"} /\ callback'.p = callback.p
          /\ Id' = Id /\ Id \in Ids /\ UNCHANGED <<lastSnap, hasSnap>>
          /\ callback'.step = CASE callback.step = "ip" -> "rfid" [] callback.step = "rfid" -> "weight"
                                [] callback.step = "weight" -> "time" [] callback.step = "time" -> "vis"
          /\ display' = [display EXCEPT ![Id][callback.step] = callback.p.n]
        BY <1>5, <1>c, <1>t, GoesFacts DEF ShowIp, ShowRfid, ShowWeight, ShowTime, Shows, At, SnapSteps, snapVars, Id
    <2>2. display[Id] \in Screens /\ display \in [Ids -> Screens]
        BY <2>1 DEF GatewayTyped
    <2>3. /\ \A id \in Ids \ {Id} : display'[id] = display[id]
          /\ display'[Id] = [display[Id] EXCEPT ![callback.step] = callback.p.n]
        BY <2>1, <2>2
    <2>4. DisplayAgrees'
        BY <2>1, <2>3, ScreenOthers DEF SnapSteps
    <2>5. Written'
        BY <2>1, <2>2, <2>3 DEF Written, Screens
    <2> QED BY <2>4, <2>5
<1>6. CASE ShowVisibility
    <2>1. /\ callback.step = "vis" /\ callback'.step = "idle"
          /\ Id \in Ids /\ UNCHANGED <<lastSnap, hasSnap>>
          /\ display' = [display EXCEPT ![Id]["vis"] = callback.p.device_state >= 1]
        BY <1>6, <1>c DEF ShowVisibility, Shows, At, snapVars, Idle
    <2>2. display[Id] \in Screens /\ display \in [Ids -> Screens]
        BY <2>1 DEF GatewayTyped
    <2>3. /\ \A id \in Ids \ {Id} : display'[id] = display[id]
          /\ display'[Id] = [ip |-> callback.p.n, rfid |-> callback.p.n, weight |-> callback.p.n,
                             time |-> callback.p.n, vis |-> callback.p.device_state >= 1]
        BY <2>1, <2>2 DEF Written, Screens
    <2>4. /\ lastSnap[Id].front = callback.p.n /\ lastSnap[Id].back = callback.p.n
          /\ lastSnap[Id].device_state = callback.p.device_state
        BY <2>1 DEF SnapInv, SnapOf, Ahead, HalfCopied, SnapSteps
    <2>5. DisplayAgrees'
        BY <2>1, <2>3, <2>4 DEF DisplayAgrees, Showing
    <2> QED BY <2>1, <2>5 DEF Written
<1>7. CASE Restart
    BY <1>7 DEF Restart, Cleared, Idle, DisplayAgrees, Written
<1> QED BY <1>1, <1>2, <1>3, <1>4, <1>5, <1>6, <1>7 DEF GatewayNext, WifiTask

\* What a reader has, when the callback copies and when it looks itself.
LEMMA ReaderStep ==
    ASSUME GatewayTyped, SnapInv, ReaderInv, [GatewayNext]_gatewayVars
    PROVE  ReaderInv'
<1>f. \A id \in Ids : /\ taken[id] \in Nat /\ hasSnap[id] \in BOOLEAN
                      /\ lastSnap[id].front \in Nat /\ lastSnap[id].back \in Nat
    BY SnapFacts
<1>c. callback.step # "idle" => Id \in Ids /\ callback.p.n \in Nat /\ callback.p.n > 0
    BY CallbackFacts DEF Numbers
<1>t. callback.step \in SnapSteps => callback.p.type = "snapshot"
    BY DEF GatewayTyped
<1>r. Reading => /\ cli \in Readers /\ cli.id \in Ids /\ cli.floor \in Nat
                 /\ cli.front \in Nat /\ cli.clean \in BOOLEAN
    BY CliFacts DEF Numbers
<1>1. CASE UNCHANGED gatewayVars \/
           \E id \in Ids, type \in {"snapshot", "session", "other"}, state \in States :
               PostSends(id, type, state)
    <2>1. UNCHANGED <<callback, snapVars, cliVars>>
        BY <1>1 DEF gatewayVars, PostSends
    <2> QED BY <2>1 DEF ReaderInv, Reading, HalfCopied, Id, snapVars, cliVars
<1>2. CASE OnReceive
    <2>1. /\ callback.step = "idle" /\ UNCHANGED <<snapVars, cliVars>> /\ callback'.step # "back"
        BY <1>2 DEF OnReceive, FirstStep, Idle
    <2> QED BY <2>1 DEF ReaderInv, Reading, HalfCopied, snapVars, cliVars
<1>3. CASE CopyFront \/ CopyBack
    <2>1. /\ callback.step \in {"front", "back"} /\ callback.step # "idle" /\ Overlaps
          /\ callback'.p = callback.p /\ Id' = Id /\ Id \in Ids
        BY <1>3, <1>t, <1>c, GoesFacts DEF CopyFront, CopyBack, At, SnapSteps, Id
    <2>2. \A id \in Ids : taken'[id] = IF CopyBack /\ id = Id THEN callback.p.n ELSE taken[id]
        BY <1>3, <2>1 DEF CopyFront, CopyBack, At, GatewayTyped
    <2>3. /\ cli'.step = cli.step
          /\ Reading => /\ cli'.id = cli.id /\ cli'.floor = cli.floor /\ cli'.front = cli.front
                        /\ cli'.clean => cli.clean /\ cli.id # Id
        BY <2>1, OverlapsFacts
    <2>4. taken[Id] < callback.p.n
        BY <2>1 DEF SnapInv, SnapOf, Halfway
    <2>5. SUFFICES ASSUME Reading PROVE ReaderInv'
        BY <2>3 DEF ReaderInv, Reading
    <2>6. taken[cli.id] <= taken'[cli.id] /\ taken'[cli.id] \in Nat
        BY <1>f, <1>c, <1>r, <2>1, <2>2, <2>4, <2>5
    <2>7. cli'.clean => taken'[cli.id] = taken[cli.id] /\ ~HalfCopied(cli.id)'
        BY <1>r, <2>1, <2>2, <2>3, <2>5 DEF HalfCopied
    <2> QED BY <1>f, <1>r, <2>3, <2>5, <2>6, <2>7 DEF ReaderInv, Reading
<1>4. CASE SetHasSnap \/ CountSnap \/ CountSession \/ ShowSteps
    <2>1. /\ callback'.step # "back" /\ callback.step # "back" /\ UNCHANGED <<taken, cli>>
        <3>1. CASE SetHasSnap \/ CountSnap \/ CountSession
            BY <1>t, <3>1, GoesFacts DEF SetHasSnap, CountSnap, CountSession, At, Idle, SnapSteps, cliVars
        <3>2. CASE ShowSteps
            <4>1. callback.step \in SnapSteps \ {"back"} /\ UNCHANGED <<taken, cli>> /\ callback.step # "idle"
                BY <3>2 DEF ShowSteps, ShowIp, ShowRfid, ShowWeight, ShowTime, ShowVisibility, Shows, At, snapVars, cliVars, SnapSteps
            <4>2. (\E s \in SnapSteps \ {"back"} : Goes(s)) \/ callback' = Idle
                BY <3>2 DEF ShowSteps, ShowIp, ShowRfid, ShowWeight, ShowTime, ShowVisibility, SnapSteps
            <4> QED BY <1>t, <4>1, <4>2, GoesFacts DEF Idle
        <3> QED BY <1>4, <3>1, <3>2
    <2> QED BY <2>1 DEF ReaderInv, Reading, HalfCopied
<1>5. ASSUME NEW n \in Asked, AskLast(n) PROVE ReaderInv'
    <2> DEFINE id == SlaveId(n)
    <2>1. UNCHANGED <<callback, taken>> /\ cli.step = "idle"
        BY <1>5 DEF AskLast, snapVars
    <2>2. CASE cli' = cli
        BY <2>1, <2>2 DEF ReaderInv, Reading
    <2>3. CASE id \in Ids /\ hasSnap[id]
        <3>1. cli' = [step |-> "front", id |-> id, floor |-> taken[id],
                      clean |-> ~HalfCopied(id), front |-> 0]
            BY <1>5, <2>3 DEF AskLast
        <3>2. taken[id] > 0 /\ taken[id] \in Nat
            BY <1>f, <2>3 DEF SnapInv, SnapOf
        <3> HIDE DEF id
        <3>3. /\ cli'.step = "front" /\ cli'.id = id /\ cli'.floor = taken[id]
              /\ cli'.clean = ~HalfCopied(id)
            BY <3>1
        <3>4. taken'[id] = taken[id] /\ (HalfCopied(cli.id)' <=> callback.step = "back" /\ Id = cli'.id)
            BY <2>1 DEF HalfCopied, Id
        <3>5. cli'.clean => ~HalfCopied(cli.id)'
            BY <3>3, <3>4, Zenon DEF HalfCopied
        <3> QED BY <3>2, <3>3, <3>4, <3>5 DEF ReaderInv, Reading
    <2> QED BY <1>5, <2>2, <2>3 DEF AskLast
<1>6. CASE ReadFront
    <2>1. /\ Reading /\ cli.step = "front" /\ cli' = [cli EXCEPT !.step = "back", !.front = lastSnap[cli.id].front]
          /\ UNCHANGED <<callback, taken>>
        BY <1>6 DEF ReadFront, Reading, snapVars
    <2>2. /\ cli'.step = "back" /\ cli'.id = cli.id /\ cli'.floor = cli.floor
          /\ cli'.clean = cli.clean /\ cli'.front = lastSnap[cli.id].front
        BY <1>r, <2>1 DEF Readers
    <2>3. /\ taken[cli.id] <= lastSnap[cli.id].front
          /\ ~HalfCopied(cli.id) => lastSnap[cli.id].front = taken[cli.id]
        BY <1>f, <1>r, <1>c, <2>1 DEF SnapInv, SnapOf, Halfway, HalfCopied
    <2> QED BY <1>f, <1>r, <2>1, <2>2, <2>3 DEF ReaderInv, Reading, HalfCopied, Id
<1>7. CASE ReadBack \/ UpdateBegins \/ UpdateFails \/ Restart
    BY <1>7 DEF ReadBack, UpdateBegins, UpdateFails, Restart, Cleared, ReaderInv, Reading, Idle
<1> QED BY <1>1, <1>2, <1>3, <1>4, <1>5, <1>6, <1>7 DEF GatewayNext, WifiTask, LoopTask, ShowSteps

\* What `last' answers.
LEMMA ReplyStep ==
    ASSUME GatewayTyped, SnapInv, ReaderInv, LastIsFresh, NoDataIsTrue, [GatewayNext]_gatewayVars
    PROVE  LastIsFresh' /\ NoDataIsTrue'
<1>f. \A id \in Ids : /\ taken[id] \in Nat /\ hasSnap[id] \in BOOLEAN /\ stats.snap[id] \in Nat
                      /\ lastSnap[id].front \in Nat /\ lastSnap[id].back \in Nat
    BY SnapFacts
<1>1. ASSUME reply' = reply \/ reply' = NoReply PROVE LastIsFresh' /\ NoDataIsTrue'
    <2>1. CASE reply' = reply
        BY <2>1 DEF LastIsFresh, NoDataIsTrue
    <2>2. CASE reply' = NoReply
        BY <2>2 DEF LastIsFresh, NoDataIsTrue, NoReply
    <2> QED BY <1>1, <2>1, <2>2
<1>2. ASSUME NEW n \in Asked, AskLast(n) PROVE LastIsFresh' /\ NoDataIsTrue'
    <2> DEFINE id == SlaveId(n)
    <2>1. CASE reply' = NoReply
        BY <1>1, <2>1
    <2>2. CASE ~(id \in Ids /\ hasSnap[id])
        <3>1. reply' = [kind |-> "no data", id |-> id,
                        counted |-> IF id \in Ids THEN stats.snap[id] ELSE 0]
            BY <1>2, <2>2 DEF AskLast
        <3>2. id \in Ids => stats.snap[id] = 0
            BY <1>f, <2>2 DEF SnapInv, SnapOf
        <3> HIDE DEF id
        <3> QED BY <3>1, <3>2 DEF LastIsFresh, NoDataIsTrue
    <2> QED BY <1>2, <2>1, <2>2 DEF AskLast
<1>3. CASE ReadBack
    <2>1. /\ Reading /\ cli.step = "back"
          /\ reply' = [kind |-> "snapshot", id |-> cli.id, front |-> cli.front,
                       back |-> lastSnap[cli.id].back, floor |-> cli.floor, clean |-> cli.clean]
        BY <1>3 DEF ReadBack, Reading
    <2>2. lastSnap[cli.id].back = taken[cli.id] /\ cli.id \in Ids
        BY <2>1, CliFacts DEF SnapInv, SnapOf
    <2> QED BY <1>f, <2>1, <2>2 DEF LastIsFresh, NoDataIsTrue, ReaderInv
<1>4. \/ reply' = reply \/ reply' = NoReply \/ ReadBack
      \/ \E n \in Asked : AskLast(n)
    <2>1. CASE WifiTask /\ ~OnReceive
        BY <2>1, CallbackStep
    <2>2. CASE OnReceive
        BY <2>2 DEF OnReceive, cliVars
    <2>3. CASE \E id \in Ids, type \in {"snapshot", "session", "other"}, state \in States :
                   PostSends(id, type, state)
        BY <2>3 DEF PostSends, cliVars
    <2>4. CASE LoopTask \/ Restart \/ UNCHANGED gatewayVars
        BY <2>4 DEF LoopTask, ReadFront, UpdateBegins, UpdateFails, Restart, Cleared, gatewayVars, cliVars
    <2> QED BY <2>1, <2>2, <2>3, <2>4 DEF GatewayNext
<1> QED BY <1>1, <1>2, <1>3, <1>4

\* The whole of it is inductive.
LEMMA GatewayInvInit == GatewayInit => GatewayInv
<1> SUFFICES ASSUME GatewayInit PROVE GatewayInv
    OBVIOUS
<1>1. GatewayTyped
    BY GatewayTypedInit
<1>2. RxOrder
    BY DEF GatewayInit, RxOrder
<1>3. SnapInv
    BY DEF GatewayInit, SnapInv, SnapOf, Halfway, Ahead, HalfCopied, Zeroed, Idle, SnapSteps
<1>4. DisplayAgrees /\ Written /\ ReaderInv /\ LastIsFresh /\ NoDataIsTrue
    BY DEF GatewayInit, DisplayAgrees, Written, ReaderInv, Reading, LastIsFresh, NoDataIsTrue, Idle, NoReply
<1> QED BY <1>1, <1>2, <1>3, <1>4 DEF GatewayInv

LEMMA GatewayInvStep == GatewayInv /\ [GatewayNext]_gatewayVars => GatewayInv'
    BY GatewayTypedStep, RxOrderStep, SnapInvStep, ScreenStep, ReaderStep, ReplyStep DEF GatewayInv

LEMMA GatewayInvHolds == GatewaySpec => []GatewayInv
    BY GatewayInvInit, GatewayInvStep, PTL DEF GatewaySpec

\* What `last' prints is never older than the snapshot that was there when it looked, and never
\* memory that was not written, whatever the callback does meanwhile (gateway.cpp 16-22, 37-43).
THEOREM LastAnswersFresh == GatewaySpec => []LastIsFresh
<1>1. GatewayInv => LastIsFresh
    BY DEF GatewayInv
<1> QED BY <1>1, GatewayInvHolds, PTL

\* No post is said to have no data after a snapshot of it was counted (gateway.cpp 18-21, 40).
THEOREM NoDataWhenNone == GatewaySpec => []NoDataIsTrue
<1>1. GatewayInv => NoDataIsTrue
    BY DEF GatewayInv
<1> QED BY <1>1, GatewayInvHolds, PTL

\* What `last' answers is true for any number of posts, frames and restarts, without a lock
\* (gateway.cpp 16-22, 37-43).
THEOREM LastAnswersTruly == GatewaySpec => []LastIsTrue
<1>1. LastIsFresh /\ NoDataIsTrue => LastIsTrue
    BY DEF LastIsTrue
<1> QED BY <1>1, LastAnswersFresh, NoDataWhenNone, PTL

\* The display and the memory show one and the same snapshot when the callback is not at work on
\* one of that post (gateway.cpp 14-23, nextion.cpp 26-61).
THEOREM ScreenIsLast == GatewaySpec => []DisplayAgrees
<1>1. GatewayInv => DisplayAgrees
    BY DEF GatewayInv
<1> QED BY <1>1, GatewayInvHolds, PTL

(***************************************************************************)
(* The cloud upload.  CloudInv is inductive: as long as a call is alone,   *)
(* the bytes before its position are its own.                              *)
(***************************************************************************)
Places == {"idle", "chars", "zero", "post", "answer", "done"}
Codes == {"none", "no WiFi", "begin failed", "201", "200", "4xx", "5xx"}
Calls == [at : Places, log : 0 .. WEIGHT_LOG_MAX_SAMPLES, part : Nat, pos : Bytes,
          clean : BOOLEAN, cut : BOOLEAN, code : Codes]

CloudTyped == /\ call \in [Tasks -> Calls]
              /\ body \in [Bytes -> Tasks \cup {Zero}]
              /\ lastBody \in Tasks \cup {"nobody"}

\* A call that is clean is alone.
Alone == \A t \in Tasks : Active(t) /\ call[t].clean => ~Active(Other(t))

\* What a clean call has written is its own, and ends in a zero when it is whole.
OwnBytes == \A t \in Tasks : call[t].clean =>
    /\ call[t].at \in {"chars", "zero", "post"} => \A b \in Bytes : b < call[t].pos => body[b] = t
    /\ call[t].at = "post" => body[call[t].pos] = Zero

\* What a clean call left as the answer is its own.
OwnLast == \A t \in Tasks :
    call[t].clean /\ call[t].at = "done" /\ call[t].code # "201" => lastBody = t

CloudInv == CloudTyped /\ BodyEnds /\ Alone /\ OwnBytes /\ OwnLast

\* There are two tasks.
LEMMA OtherFacts ==
    ASSUME NEW t \in Tasks
    PROVE  /\ Other(t) \in Tasks /\ Other(t) # t
           /\ \A u \in Tasks : u = t \/ u = Other(t)
           /\ Other(Other(t)) = t
<1>1. \A u \in Tasks : Other(u) \in Tasks /\ Other(u) # u
    <2> SUFFICES ASSUME NEW u \in Tasks PROVE Other(u) \in Tasks /\ Other(u) # u
        OBVIOUS
    <2>1. \E v \in Tasks : v # u
        BY DEF Tasks
    <2> QED BY <2>1 DEF Other
<1> QED BY <1>1 DEF Tasks

\* What is appended stays before the last byte of the body.
LEMMA RoomFacts ==
    ASSUME NEW pos \in Bytes, NEW n \in Nat
    PROVE  /\ Room(pos, n) \in Nat /\ Room(pos, n) <= n
           /\ pos + Room(pos, n) \in Bytes
           /\ pos + Room(pos, n) <= BODY_SIZE - 1
           /\ pos + n <= BODY_SIZE - 1 => Room(pos, n) = n
    BY CloudAssumption DEF Room, Bytes

\* Lengths and logs are numbers.
LEMMA LengthsFacts ==
    ASSUME NEW c \in Calls, NEW n \in Lengths(c)
    PROVE  n \in Nat
    BY CloudAssumption DEF Lengths

LEMMA LogsFacts ==
    ASSUME NEW t \in Tasks, NEW n \in Logs(t)
    PROVE  n \in 0 .. WEIGHT_LOG_MAX_SAMPLES
    BY CloudAssumption DEF Logs

LEMMA NoCallTyped == NoCall \in Calls /\ 0 \in Bytes
    BY CloudAssumption DEF NoCall, Calls, Places, Codes, Bytes

\* What the beginning of a call does to the two.
LEMMA BeginsFacts ==
    ASSUME CloudTyped, NEW t \in Tasks, NEW c \in Calls, Begins(t, c)
    PROVE  /\ ~Active(t) /\ call' \in [Tasks -> Calls]
           /\ call'[t] = [c EXCEPT !.clean = ~Active(Other(t))]
           /\ LET u == Other(t) IN
                 IF Active(u) THEN call'[u] = [call[u] EXCEPT !.clean = FALSE] ELSE call'[u] = call[u]
<1>1. [c EXCEPT !.clean = ~Active(Other(t))] \in Calls
    BY DEF Calls, Active
<1>2. \A u \in Tasks : call[u] \in Calls /\ [call[u] EXCEPT !.clean = FALSE] \in Calls
    BY DEF CloudTyped, Calls
<1>3. \A u \in Tasks : call'[u] = IF u = t THEN [c EXCEPT !.clean = ~Active(Other(t))]
                                  ELSE IF Active(u) THEN [call[u] EXCEPT !.clean = FALSE] ELSE call[u]
    BY DEF Begins
<1>4. call' = [u \in Tasks |-> call'[u]]
    BY DEF Begins
<1>5. \A u \in Tasks : call'[u] \in Calls
    BY <1>1, <1>2, <1>3
<1>6. Other(t) \in Tasks /\ Other(t) # t
    BY OtherFacts
<1> HIDE DEF CloudTyped
<1> QED BY <1>3, <1>4, <1>5, <1>6 DEF Begins

\* How a call begins: what it is then.
LEMMA FirstCalls ==
    ASSUME CloudTyped, NEW t \in Tasks, SendFails(t) \/ SendBegins(t)
    PROVE  \E c \in Calls :
              /\ Begins(t, c) /\ c.pos = 0 /\ ~c.cut /\ c.part = 0 /\ UNCHANGED body
              /\ \/ c.at = "done" /\ lastBody' = t
                 \/ c.at = "chars" /\ lastBody' = "nobody"
<1>1. CASE SendFails(t)
    <2>1. PICK code \in {"no WiFi", "begin failed"} :
             Begins(t, [NoCall EXCEPT !.at = "done", !.code = code])
        BY <1>1 DEF SendFails
    <2>2. [NoCall EXCEPT !.at = "done", !.code = code] \in Calls
        BY NoCallTyped DEF NoCall, Calls, Places, Codes
    <2>3. LET c == [NoCall EXCEPT !.at = "done", !.code = code]
          IN  c.pos = 0 /\ ~c.cut /\ c.part = 0 /\ c.at = "done"
        BY DEF NoCall
    <2> QED BY <1>1, <2>1, <2>2, <2>3 DEF SendFails
<1>2. CASE SendBegins(t)
    <2>1. PICK n \in Logs(t) : Begins(t, [NoCall EXCEPT !.at = "chars", !.log = n])
        BY <1>2 DEF SendBegins
    <2>2. [NoCall EXCEPT !.at = "chars", !.log = n] \in Calls
        BY NoCallTyped, LogsFacts DEF NoCall, Calls, Places
    <2>3. LET c == [NoCall EXCEPT !.at = "chars", !.log = n]
          IN  c.pos = 0 /\ ~c.cut /\ c.part = 0 /\ c.at = "chars"
        BY DEF NoCall
    <2> QED BY <1>2, <2>1, <2>2, <2>3 DEF SendBegins
<1> QED BY <1>1, <1>2

\* What a part writes.
LEMMA CharsFacts ==
    ASSUME CloudTyped, NEW t \in Tasks, AppendChars(t)
    PROVE  \E n \in Lengths(call[t]) :
              LET c == call[t]  r == Room(c.pos, n) IN
              /\ c.at = "chars" /\ n \in Nat /\ r \in Nat /\ c.pos \in Nat
              /\ c.pos + r \in Bytes /\ c.pos + r <= BODY_SIZE - 1
              /\ c.pos + n <= BODY_SIZE - 1 => r = n
              /\ \A b \in Bytes : body'[b] = IF c.pos <= b /\ b < c.pos + r THEN t ELSE body[b]
              /\ body' \in [Bytes -> Tasks \cup {Zero}]
              /\ call' \in [Tasks -> Calls] /\ \A u \in Tasks \ {t} : call'[u] = call[u]
              /\ call'[t] = [c EXCEPT !.at = "zero", !.pos = c.pos + r, !.cut = c.cut \/ r < n]
              /\ lastBody' = lastBody
<1> DEFINE c == call[t]
<1>1. PICK n \in Lengths(c) :
           /\ body' = [b \in Bytes |-> IF c.pos <= b /\ b < c.pos + Room(c.pos, n) THEN t ELSE body[b]]
           /\ call' = [call EXCEPT ![t] = [c EXCEPT !.at = "zero", !.pos = c.pos + Room(c.pos, n),
                                                    !.cut = c.cut \/ Room(c.pos, n) < n]]
    BY DEF AppendChars
<1>2. c \in Calls /\ c.at = "chars" /\ c.pos \in Bytes /\ c.pos \in Nat
    BY DEF AppendChars, CloudTyped, Calls, Bytes
<1>3. n \in Nat
    BY <1>2, LengthsFacts
<1> DEFINE r == Room(c.pos, n)
<1>4. /\ r \in Nat /\ c.pos + r \in Bytes /\ c.pos + r <= BODY_SIZE - 1
      /\ c.pos + n <= BODY_SIZE - 1 => r = n
    BY <1>2, <1>3, RoomFacts
<1>5. /\ \A b \in Bytes : body'[b] = IF c.pos <= b /\ b < c.pos + r THEN t ELSE body[b]
      /\ body' \in [Bytes -> Tasks \cup {Zero}]
    BY <1>1 DEF CloudTyped
<1>6. [c EXCEPT !.at = "zero", !.pos = c.pos + r, !.cut = c.cut \/ r < n] \in Calls
    <2>1. (c.cut \/ r < n) \in BOOLEAN
        BY <1>2 DEF Calls
    <2> HIDE DEF r
    <2> QED BY <1>2, <1>4, <2>1 DEF Calls, Places
<1>7. lastBody' = lastBody
    BY DEF AppendChars
<1>8. /\ call' \in [Tasks -> Calls] /\ \A u \in Tasks \ {t} : call'[u] = call[u]
      /\ call'[t] = [c EXCEPT !.at = "zero", !.pos = c.pos + r, !.cut = c.cut \/ r < n]
    BY <1>1, <1>6 DEF CloudTyped
<1> QED BY <1>2, <1>3, <1>4, <1>5, <1>7, <1>8

\* What the zero behind a part writes.
LEMMA ZeroFacts ==
    ASSUME CloudTyped, NEW t \in Tasks, AppendZero(t)
    PROVE  LET c == call[t] IN
           /\ c.at = "zero" /\ c.pos \in Bytes
           /\ body' = [body EXCEPT ![c.pos] = Zero]
           /\ call' \in [Tasks -> Calls] /\ \A u \in Tasks \ {t} : call'[u] = call[u]
           /\ call'[t] = IF AtTail(c) THEN [c EXCEPT !.at = "post"]
                         ELSE [c EXCEPT !.at = "chars", !.part = c.part + 1]
           /\ lastBody' = lastBody
<1> DEFINE c == call[t]
<1>1. c \in Calls /\ c.at = "zero" /\ c.pos \in Bytes
    BY DEF AppendZero, CloudTyped, Calls
<1> HIDE DEF c
<1>2. [c EXCEPT !.at = "post"] \in Calls
    BY <1>1 DEF Calls, Places
<1>3. [c EXCEPT !.at = "chars", !.part = c.part + 1] \in Calls
    <2>1. c.part + 1 \in Nat
        BY <1>1 DEF Calls
    <2> QED BY <1>1, <2>1 DEF Calls, Places
<1> QED BY <1>1, <1>2, <1>3 DEF AppendZero, CloudTyped, c

\* The steps that write nothing into the body.
LEMMA OtherStepFacts ==
    ASSUME CloudTyped, NEW t \in Tasks, Post(t) \/ Answer(t) \/ Returns(t)
    PROVE  /\ body' = body /\ call' \in [Tasks -> Calls] /\ Active(t)
           /\ \A u \in Tasks \ {t} : call'[u] = call[u]
           /\ \/ /\ call'[t].at = "answer" /\ lastBody' = lastBody
                 /\ call'[t].clean = call[t].clean /\ call'[t].cut = call[t].cut
                 /\ call'[t].log = call[t].log
              \/ /\ call'[t].at = "done" /\ (lastBody' = t \/ (call'[t].code = "201" /\ lastBody' = lastBody))
                 /\ call'[t].clean = call[t].clean /\ call'[t].cut = call[t].cut
                 /\ call'[t].log = call[t].log
              \/ call'[t] = NoCall /\ lastBody' = lastBody
<1> DEFINE c == call[t]
<1>1. c \in Calls
    BY DEF CloudTyped
<1>2. CASE Post(t)
    <2>1. [c EXCEPT !.at = "answer"] \in Calls
        BY <1>1 DEF Calls, Places
    <2> QED BY <1>1, <1>2, <2>1 DEF Post, CloudTyped, Active, Calls
<1>3. CASE Answer(t)
    <2>1. PICK code \in {"201", "200", "4xx", "5xx"} :
             /\ call' = [call EXCEPT ![t].at = "done", ![t].code = code]
             /\ lastBody' = IF code # "201" THEN t ELSE lastBody
        BY <1>3 DEF Answer
    <2>2. [c EXCEPT !.at = "done", !.code = code] \in Calls
        BY <1>1 DEF Calls, Places, Codes
    <2> QED BY <1>1, <1>3, <2>1, <2>2 DEF Answer, CloudTyped, Active, Calls
<1>4. CASE Returns(t)
    BY <1>4, NoCallTyped DEF Returns, CloudTyped, Active
<1> QED BY <1>2, <1>3, <1>4

\* CloudInv is inductive.
LEMMA CloudInvInit == CloudInit => CloudInv
<1> SUFFICES ASSUME CloudInit PROVE CloudInv
    OBVIOUS
<1>1. CloudTyped
    BY NoCallTyped DEF CloudInit, CloudTyped
<1>2. BodyEnds
    BY CloudAssumption DEF CloudInit, BodyEnds, Bytes
<1>3. Alone /\ OwnBytes /\ OwnLast
    BY DEF CloudInit, Alone, OwnBytes, OwnLast, Active, NoCall
<1> QED BY <1>1, <1>2, <1>3 DEF CloudInv

LEMMA CloudInvStep ==
    ASSUME CloudInv, [CloudNext]_cloudVars
    PROVE  CloudInv'
<1> USE DEF CloudInv
<1>e. BODY_SIZE - 1 \in Bytes
    BY CloudAssumption DEF Bytes
<1>1. ASSUME NEW t \in Tasks, SendFails(t) \/ SendBegins(t) PROVE CloudInv'
    <2>1. PICK c \in Calls :
              /\ Begins(t, c) /\ c.pos = 0 /\ ~c.cut /\ c.part = 0 /\ UNCHANGED body
              /\ \/ c.at = "done" /\ lastBody' = t
                 \/ c.at = "chars" /\ lastBody' = "nobody"
        BY <1>1, FirstCalls
    <2> DEFINE u == Other(t)
    <2>2. u \in Tasks /\ u # t /\ Other(u) = t /\ \A v \in Tasks : v = t \/ v = u
        BY OtherFacts
    <2>3. /\ call' \in [Tasks -> Calls]
          /\ call'[t].at = c.at /\ call'[t].pos = 0 /\ (call'[t].clean => ~Active(u))
          /\ Active(u) => call'[u] = [call[u] EXCEPT !.clean = FALSE]
          /\ ~Active(u) => call'[u] = call[u]
        <3>1. /\ call' \in [Tasks -> Calls] /\ call'[t] = [c EXCEPT !.clean = ~Active(u)]
              /\ IF Active(u) THEN call'[u] = [call[u] EXCEPT !.clean = FALSE] ELSE call'[u] = call[u]
            BY <2>1, BeginsFacts
        <3> HIDE DEF u
        <3>2. call'[t].at = c.at /\ call'[t].pos = 0 /\ (call'[t].clean => ~Active(u))
            BY <2>1, <3>1 DEF Calls
        <3> QED BY <3>1, <3>2
    <2>4. /\ call'[u].at = call[u].at
          /\ Active(u) => ~call'[u].clean
          /\ ~Active(u) => call'[u].at = "idle"
        BY <2>2, <2>3 DEF CloudTyped, Calls, Active
    <2> HIDE DEF u
    <2>5. CloudTyped' /\ BodyEnds'
        BY <2>1, <2>3 DEF CloudTyped, BodyEnds
    <2>6. Alone'
        <3>1. \A v \in Tasks : Active(v)' <=> call'[v].at # "idle"
            BY DEF Active
        <3>2. ~(call'[t].clean /\ call'[t].at # "idle" /\ call'[u].at # "idle")
            BY <2>2, <2>3, <2>4 DEF Alone, Active
        <3>3. ~(call'[u].clean /\ call'[u].at # "idle" /\ call'[t].at # "idle")
            BY <2>2, <2>3, <2>4 DEF Alone, Active
        <3>4. ASSUME NEW v \in Tasks, call'[v].at # "idle", call'[v].clean PROVE call'[Other(v)].at = "idle"
            <4>1. CASE v = t
                BY <2>2, <3>2, <3>4, <4>1 DEF u
            <4>2. CASE v = u
                BY <2>2, <3>3, <3>4, <4>2
            <4> QED BY <2>2, <4>1, <4>2
        <3> QED BY <2>3, <3>4 DEF Alone, Active
    <2>7. OwnBytes'
        BY <2>1, <2>2, <2>3, <2>4 DEF OwnBytes, Bytes, Active
    <2>8. OwnLast'
        BY <2>1, <2>2, <2>3, <2>4 DEF OwnLast, Active
    <2> QED BY <2>5, <2>6, <2>7, <2>8
<1>2. ASSUME NEW t \in Tasks, AppendChars(t) PROVE CloudInv'
    <2> DEFINE c == call[t]  u == Other(t)
    <2>1. PICK n \in Lengths(c) : LET r == Room(c.pos, n) IN
              /\ c.at = "chars" /\ n \in Nat /\ r \in Nat /\ c.pos \in Nat
              /\ c.pos + r \in Bytes /\ c.pos + r <= BODY_SIZE - 1
              /\ c.pos + n <= BODY_SIZE - 1 => r = n
              /\ \A b \in Bytes : body'[b] = IF c.pos <= b /\ b < c.pos + r THEN t ELSE body[b]
              /\ body' \in [Bytes -> Tasks \cup {Zero}]
              /\ call' \in [Tasks -> Calls] /\ \A v \in Tasks \ {t} : call'[v] = call[v]
              /\ call'[t] = [c EXCEPT !.at = "zero", !.pos = c.pos + r, !.cut = c.cut \/ r < n]
              /\ lastBody' = lastBody
        BY <1>2, CharsFacts
    <2> DEFINE r == Room(c.pos, n)
    <2>2. /\ call'[t].at = "zero" /\ call'[t].pos = c.pos + r /\ call'[t].clean = c.clean
          /\ \A v \in Tasks \ {t} : call'[v] = call[v]
        BY <2>1 DEF CloudTyped, Calls
    <2>3. u \in Tasks /\ u # t /\ Other(u) = t /\ \A v \in Tasks : v = t \/ v = u
        BY OtherFacts
    <2>4. Active(u) => ~call[u].clean
        BY <2>1, <2>3 DEF Alone, Active
    <2>5. CloudTyped'
        BY <2>1 DEF CloudTyped
    <2>6. BodyEnds'
        BY <1>e, <2>1, CloudAssumption DEF BodyEnds
    <2>7. Alone'
        <3>1. \A v \in Tasks : Active(v)' <=> call'[v].at # "idle"
            BY DEF Active
        <3>2. ~(call'[t].clean /\ call'[t].at # "idle" /\ call'[u].at # "idle")
            BY <2>1, <2>2, <2>3 DEF Alone, Active
        <3>3. ~(call'[u].clean /\ call'[u].at # "idle" /\ call'[t].at # "idle")
            BY <2>1, <2>2, <2>3 DEF Alone, Active
        <3>4. ASSUME NEW v \in Tasks, call'[v].at # "idle", call'[v].clean PROVE call'[Other(v)].at = "idle"
            <4>1. CASE v = t
                BY <3>2, <3>4, <4>1
            <4>2. CASE v = u
                BY <2>3, <3>3, <3>4, <4>2
            <4> QED BY <2>3, <4>1, <4>2
        <3> QED BY <2>3, <3>4 DEF Alone, Active
    <2>8. OwnBytes'
        <3>1. ASSUME c.clean, NEW b \in Bytes, b < c.pos + r PROVE body'[b] = t
            BY <2>1, <3>1 DEF OwnBytes, Bytes
        <3> QED BY <2>2, <2>3, <2>4, <3>1 DEF OwnBytes, Active
    <2>9. OwnLast'
        BY <2>1, <2>2, <2>3, ZenonT(30) DEF OwnLast
    <2> QED BY <2>5, <2>6, <2>7, <2>8, <2>9
<1>3. ASSUME NEW t \in Tasks, AppendZero(t) PROVE CloudInv'
    <2> DEFINE c == call[t]  u == Other(t)
    <2>1. /\ c.at = "zero" /\ c.pos \in Bytes
          /\ body' = [body EXCEPT ![c.pos] = Zero]
          /\ call' \in [Tasks -> Calls] /\ \A v \in Tasks \ {t} : call'[v] = call[v]
          /\ call'[t] = IF AtTail(c) THEN [c EXCEPT !.at = "post"]
                        ELSE [c EXCEPT !.at = "chars", !.part = c.part + 1]
          /\ lastBody' = lastBody
        BY <1>3, ZeroFacts
    <2>2. /\ call'[t].at \in {"chars", "post"} /\ call'[t].pos = c.pos /\ call'[t].clean = c.clean
        BY <2>1 DEF CloudTyped, Calls
    <2>3. u \in Tasks /\ u # t /\ Other(u) = t /\ \A v \in Tasks : v = t \/ v = u
        BY OtherFacts
    <2>4. Active(u) => ~call[u].clean
        BY <2>1, <2>3 DEF Alone, Active
    <2>5. CloudTyped'
        BY <2>1 DEF CloudTyped
    <2>6. BodyEnds'
        BY <1>e, <2>1 DEF BodyEnds, CloudTyped
    <2>7. Alone'
        BY <2>1, <2>2, <2>3 DEF Alone, Active
    <2>8. OwnBytes'
        <3>1. c.clean => \A b \in Bytes : b < c.pos => body[b] = t
            BY <2>1 DEF OwnBytes
        <3>2. body'[c.pos] = Zero /\ \A b \in Bytes : b < c.pos => body'[b] = body[b]
            BY <2>1 DEF CloudTyped, Bytes
        <3>3. ASSUME NEW v \in Tasks, call'[v].clean
              PROVE  /\ call'[v].at \in {"chars", "zero", "post"} => \A b \in Bytes : b < call'[v].pos => body'[b] = v
                     /\ call'[v].at = "post" => body'[call'[v].pos] = Zero
            <4>1. CASE v = t
                BY <2>1, <2>2, <3>1, <3>2, <3>3, <4>1
            <4>2. CASE v = u
                BY <2>1, <2>3, <2>4, <3>3, <4>2 DEF Active
            <4> QED BY <2>3, <4>1, <4>2
        <3> QED BY <3>3 DEF OwnBytes
    <2>9. OwnLast'
        BY <2>1, <2>2, <2>3 DEF OwnLast
    <2> QED BY <2>5, <2>6, <2>7, <2>8, <2>9
<1>4. ASSUME NEW t \in Tasks, Post(t) \/ Answer(t) \/ Returns(t) PROVE CloudInv'
    <2> DEFINE c == call[t]  u == Other(t)
    <2>1. /\ body' = body /\ call' \in [Tasks -> Calls] /\ Active(t)
          /\ \A v \in Tasks \ {t} : call'[v] = call[v]
          /\ \/ /\ call'[t].at = "answer" /\ lastBody' = lastBody
                /\ call'[t].clean = call[t].clean /\ call'[t].cut = call[t].cut
             \/ /\ call'[t].at = "done" /\ (lastBody' = t \/ (call'[t].code = "201" /\ lastBody' = lastBody))
                /\ call'[t].clean = call[t].clean /\ call'[t].cut = call[t].cut
             \/ call'[t] = NoCall /\ lastBody' = lastBody
        BY <1>4, OtherStepFacts
    <2>2. NoCall.at = "idle"
        BY DEF NoCall
    <2>3. u \in Tasks /\ u # t /\ Other(u) = t /\ \A v \in Tasks : v = t \/ v = u
        BY OtherFacts
    <2>4. Active(u) => ~call[u].clean
        BY <2>1, <2>3 DEF Alone
    <2>5. CloudTyped' /\ BodyEnds'
        BY <2>1 DEF CloudTyped, BodyEnds
    <2>7. Alone'
        BY <2>1, <2>2, <2>3 DEF Alone, Active
    <2>8. OwnBytes'
        BY <2>1, <2>2, <2>3 DEF OwnBytes
    <2>9. OwnLast'
        BY <2>1, <2>2, <2>3, <2>4 DEF OwnLast, Active
    <2> QED BY <2>5, <2>7, <2>8, <2>9
<1>5. CASE UNCHANGED cloudVars
    BY <1>5 DEF cloudVars, CloudTyped, BodyEnds, Alone, OwnBytes, OwnLast, Active
<1> QED BY <1>1, <1>2, <1>3, <1>4, <1>5 DEF CloudNext

LEMMA CloudInvHolds == CloudSpec => []CloudInv
    BY CloudInvInit, CloudInvStep, PTL DEF CloudSpec

\* However two calls write into the body at once, there is a zero at its end (cloud.cpp 15-25, 78).
THEOREM PostEnds == CloudSpec => []BodyEnds
<1>1. CloudInv => BodyEnds
    BY DEF CloudInv
<1> QED BY <1>1, CloudInvHolds, PTL

\* A call that was alone posts its own text and no more (cloud.cpp 52-78).
THEOREM CallSendsItsOwn == CloudSpec => []OwnText
<1>1. CloudInv => OwnText
    <2> SUFFICES ASSUME CloudInv, NEW t \in Tasks, call[t].at = "post", call[t].clean
                 PROVE  Taken = 0 .. call[t].pos - 1 /\ \A b \in Taken : body[b] = t
        BY DEF OwnText
    <2> DEFINE p == call[t].pos
    <2>1. p \in Bytes /\ body[p] = Zero /\ \A b \in Bytes : b < p => body[b] = t
        BY DEF CloudInv, OwnBytes, CloudTyped, Calls
    <2>2. t # Zero
        BY DEF Tasks, Zero
    <2> HIDE DEF p
    <2>3. ASSUME NEW b \in Bytes PROVE b \in Taken <=> b < p
        <3>1. CASE b < p
            <4>1. \A a \in 0 .. b : a \in Bytes /\ a < p
                BY <2>1, <3>1, CloudAssumption DEF Bytes
            <4> QED BY <2>1, <2>2, <3>1, <4>1 DEF Taken
        <3>2. CASE ~(b < p)
            <4>1. p \in 0 .. b
                BY <2>1, <3>2 DEF Bytes
            <4> QED BY <2>1, <3>2, <4>1 DEF Taken
        <3> QED BY <3>1, <3>2
    <2>4. Taken \subseteq Bytes
        BY DEF Taken
    <2>5. Taken = 0 .. p - 1
        <3>1. \A b : b \in Bytes /\ b < p <=> b \in 0 .. p - 1
            BY <2>1, CloudAssumption DEF Bytes
        <3> QED BY <2>3, <2>4, <3>1
    <2> QED BY <2>1, <2>3, <2>4, <2>5 DEF p
<1> QED BY <1>1, CloudInvHolds, PTL

\* A call that was alone prints the answer to its own text (cloud.cpp 28-43, 79-82).
THEOREM AnswerIsItsOwn == CloudSpec => []OwnAnswer
<1>1. CloudInv => OwnAnswer
    BY DEF CloudInv, OwnLast, OwnAnswer, Prints
<1> QED BY <1>1, CloudInvHolds, PTL

(***************************************************************************)
(* The room of the body                                                    *)
(***************************************************************************)
Values(k) == k * VALUE_MAX

\* The longest text that the first k parts make, of a record of `log' samples.
Budget(log, k) ==
    CASE k = 0 -> 0
      [] k \in 1 .. log + 1 -> BASE_MAX + Values(k - 1)
      [] k \in log + 2 .. 2 * log + 2 -> BASE_MAX + MID_LEN + Values(k - 2)
      [] OTHER -> BASE_MAX + MID_LEN + TAIL_LEN + Values(2 * log)

WithinBudget == \A t \in Tasks : BodyHolds(call[t].log) =>
    /\ call[t].at \in {"chars", "zero"} => call[t].part <= 2 * call[t].log + 2
    /\ call[t].at = "chars" => call[t].pos <= Budget(call[t].log, call[t].part)
    /\ call[t].at = "zero" => call[t].pos <= Budget(call[t].log, call[t].part + 1)

\* More values are longer.
LEMMA ValuesFacts ==
    ASSUME NEW a \in Nat, NEW b \in Nat
    PROVE  /\ Values(a) \in Nat /\ Values(a + 1) = Values(a) + VALUE_MAX
           /\ a <= b => Values(a) <= Values(b)
<1>1. ASSUME NEW c \in Nat, NEW v \in Nat PROVE c * v \in Nat
    BY <1>1
<1>2. ASSUME NEW c \in Nat, NEW v \in Nat PROVE (c + 1) * v = c * v + v
    BY <1>2
<1>3. ASSUME NEW c \in Nat, NEW d \in Nat, NEW v \in Nat PROVE (c + d) * v = c * v + d * v
    BY <1>3
<1>4. Values(a) \in Nat /\ Values(a + 1) = Values(a) + VALUE_MAX
    BY <1>1, <1>2, CloudAssumption DEF Values
<1>5. ASSUME a <= b PROVE Values(a) <= Values(b)
    <2>1. PICK d \in Nat : b = a + d
        <3>1. b - a \in Nat /\ b = a + (b - a)
            BY <1>5
        <3> QED BY <3>1
    <2>2. Values(b) = Values(a) + d * VALUE_MAX /\ d * VALUE_MAX \in Nat
        BY <2>1, <1>1, <1>3, CloudAssumption DEF Values
    <2> QED BY <1>4, <2>2
<1> QED BY <1>4, <1>5

\* How long a part may be, by its number.
LEMMA LengthsSplit ==
    ASSUME NEW c \in Calls
    PROVE  /\ c.part = 0 => Lengths(c) = 1 .. BASE_MAX
           /\ c.part = c.log + 1 => Lengths(c) = {MID_LEN}
           /\ c.part = 2 * c.log + 2 => Lengths(c) = {TAIL_LEN}
           /\ c.part \notin {0, c.log + 1, 2 * c.log + 2} => Lengths(c) = 1 .. VALUE_MAX
<1>1. c.part \in Nat /\ c.log \in Nat
    BY CloudAssumption DEF Calls
<1> DEFINE k == c.part  l == c.log
<1> HIDE DEF k, l
<1>2. k \in Nat /\ l \in Nat
    BY <1>1 DEF k, l
<1>3. Lengths(c) = CASE k = 0 -> 1 .. BASE_MAX
                     [] k = l + 1 -> {MID_LEN}
                     [] k = 2 * l + 2 -> {TAIL_LEN}
                     [] OTHER -> 1 .. VALUE_MAX
    BY DEF Lengths, AtTail, k, l
<1>4. ASSUME k = 0 PROVE Lengths(c) = 1 .. BASE_MAX
    BY <1>2, <1>3, <1>4
<1>5. ASSUME k = l + 1 PROVE Lengths(c) = {MID_LEN}
    <2>1. k # 0 /\ k # 2 * l + 2
        BY <1>2, <1>5
    <2> QED BY <1>3, <1>5, <2>1
<1>6. ASSUME k = 2 * l + 2 PROVE Lengths(c) = {TAIL_LEN}
    <2>1. k # 0 /\ k # l + 1
        BY <1>2, <1>6
    <2> QED BY <1>3, <1>6, <2>1
<1>7. ASSUME k \notin {0, l + 1, 2 * l + 2} PROVE Lengths(c) = 1 .. VALUE_MAX
    BY <1>3, <1>7
<1> QED BY <1>4, <1>5, <1>6, <1>7 DEF k, l

\* A part adds no more than its share, and all of them fit.
LEMMA BudgetFacts ==
    ASSUME NEW c \in Calls, BodyHolds(c.log), c.part <= 2 * c.log + 2, NEW n \in Lengths(c)
    PROVE  /\ Budget(c.log, c.part) \in Nat /\ Budget(c.log, c.part + 1) \in Nat
           /\ Budget(c.log, c.part) + n <= Budget(c.log, c.part + 1)
           /\ Budget(c.log, c.part + 1) <= BODY_SIZE - 1
<1> DEFINE k == c.part  l == c.log  M == c.log
<1>1. /\ k \in Nat /\ l \in Nat /\ M \in Nat /\ l <= M /\ 2 * l \in Nat /\ 2 * M \in Nat /\ 2 * l <= 2 * M
      /\ n \in Nat /\ k <= 2 * l + 2
    BY LengthsFacts, CloudAssumption DEF Calls
<1>c. /\ BASE_MAX \in Nat /\ MID_LEN \in Nat /\ TAIL_LEN \in Nat /\ VALUE_MAX \in Nat /\ BODY_SIZE \in Nat
    BY CloudAssumption
<1>2. \A a \in Nat : Values(a) \in Nat /\ Values(a + 1) = Values(a) + VALUE_MAX
    BY ValuesFacts
<1>3. \A a \in Nat : a <= 2 * l => Values(a) <= Values(2 * M)
    <2>1. \A a \in Nat : a <= 2 * M => Values(a) <= Values(2 * M)
        BY <1>1, ValuesFacts
    <2> QED BY <1>1, <2>1
<1>4. /\ k = 0 => n \in 1 .. BASE_MAX
      /\ k = l + 1 => n = MID_LEN
      /\ k = 2 * l + 2 => n = TAIL_LEN
      /\ k \notin {0, l + 1, 2 * l + 2} => n \in 1 .. VALUE_MAX
    <2>1. /\ k = 0 => Lengths(c) = 1 .. BASE_MAX
          /\ k = l + 1 => Lengths(c) = {MID_LEN}
          /\ k = 2 * l + 2 => Lengths(c) = {TAIL_LEN}
          /\ k \notin {0, l + 1, 2 * l + 2} => Lengths(c) = 1 .. VALUE_MAX
        BY LengthsSplit
    <2> DEFINE L == Lengths(c)
    <2>2. n \in L
        OBVIOUS
    <2> HIDE DEF L, k, l
    <2>3. /\ k = 0 => L = 1 .. BASE_MAX
          /\ k = l + 1 => L = {MID_LEN}
          /\ k = 2 * l + 2 => L = {TAIL_LEN}
          /\ k \notin {0, l + 1, 2 * l + 2} => L = 1 .. VALUE_MAX
        BY <2>1, Zenon DEF L
    <2>4. (k = 0 => n \in 1 .. BASE_MAX) /\ (k \notin {0, l + 1, 2 * l + 2} => n \in 1 .. VALUE_MAX)
        BY <2>2, <2>3
    <2>5. (k = l + 1 => n \in {MID_LEN}) /\ (k = 2 * l + 2 => n \in {TAIL_LEN})
        BY <2>2, <2>3
    <2>6. (n \in {MID_LEN} => n = MID_LEN) /\ (n \in {TAIL_LEN} => n = TAIL_LEN)
        OBVIOUS
    <2> QED BY <2>4, <2>5, <2>6
<1> HIDE DEF k, l, M
<1>r. BASE_MAX + MID_LEN + TAIL_LEN + Values(2 * M) <= BODY_SIZE - 1 /\ Values(2 * M) \in Nat
    BY <1>1, <1>2, <1>c DEF BodyHolds, Values, M
<1>5. CASE k = 0
    <2>1. n <= BASE_MAX /\ Values(0) = 0
        BY <1>1, <1>4, <1>5, <1>c DEF Values
    <2>2. Budget(l, k) = 0 /\ Budget(l, k + 1) = BASE_MAX + Values(0)
        <3>1. k + 1 # 0 /\ k + 1 \in 1 .. l + 1 /\ k + 1 - 1 = 0 /\ k + 1 \notin l + 2 .. 2 * l + 2
              /\ k \notin 1 .. l + 1 /\ k \notin l + 2 .. 2 * l + 2
            BY <1>1, <1>5
        <3> QED BY <1>5, <3>1 DEF Budget
    <2> QED BY <1>1, <1>5, <1>c, <1>r, <2>1, <2>2 DEF k, l
<1>6. CASE k \in 1 .. l
    <2>1. n <= VALUE_MAX
        <3>1. k \notin {0, l + 1, 2 * l + 2}
            BY <1>1, <1>6
        <3> QED BY <1>4, <1>c, <3>1
    <2>2. Budget(l, k) = BASE_MAX + Values(k - 1) /\ Budget(l, k + 1) = BASE_MAX + Values(k)
        BY <1>1, <1>6 DEF Budget
    <2>3. Values(k) = Values(k - 1) + VALUE_MAX /\ Values(k - 1) \in Nat /\ Values(k) \in Nat /\ Values(k) <= Values(2 * M)
        <3>1. k - 1 \in Nat /\ (k - 1) + 1 = k /\ k <= 2 * l
            BY <1>1, <1>6
        <3> QED BY <1>1, <1>2, <1>3, <3>1
    <2> QED BY <1>1, <1>c, <1>r, <2>1, <2>2, <2>3 DEF k, l
<1>7. CASE k = l + 1
    <2>1. n = MID_LEN
        BY <1>1, <1>4, <1>7
    <2>2. Budget(l, k) = BASE_MAX + Values(l) /\ Budget(l, k + 1) = BASE_MAX + MID_LEN + Values(l)
        <3>1. k - 1 = l /\ k + 1 - 2 = l /\ k \in 1 .. l + 1 /\ k # 0 /\ k + 1 # 0
              /\ k + 1 \in l + 2 .. 2 * l + 2 /\ k + 1 \notin 1 .. l + 1
            BY <1>1, <1>7
        <3> QED BY <3>1 DEF Budget
    <2>3. Values(l) \in Nat /\ Values(l) <= Values(2 * M)
        BY <1>1, <1>2, <1>3
    <2> QED BY <1>1, <1>c, <1>r, <2>1, <2>2, <2>3 DEF k, l
<1>8. CASE k \in l + 2 .. 2 * l + 1
    <2>1. n <= VALUE_MAX
        <3>1. k \notin {0, l + 1, 2 * l + 2}
            BY <1>1, <1>8
        <3> QED BY <1>4, <1>c, <3>1
    <2>2. Budget(l, k) = BASE_MAX + MID_LEN + Values(k - 2) /\ Budget(l, k + 1) = BASE_MAX + MID_LEN + Values(k - 1)
        <3>1. k + 1 - 2 = k - 1 /\ k \notin 1 .. l + 1 /\ k # 0 /\ k + 1 # 0 /\ k \in l + 2 .. 2 * l + 2
              /\ k + 1 \in l + 2 .. 2 * l + 2 /\ k + 1 \notin 1 .. l + 1
            BY <1>1, <1>8
        <3> QED BY <3>1 DEF Budget
    <2>3. Values(k - 1) = Values(k - 2) + VALUE_MAX /\ Values(k - 2) \in Nat /\ Values(k - 1) \in Nat /\ Values(k - 1) <= Values(2 * M)
        <3>1. k - 2 \in Nat /\ (k - 2) + 1 = k - 1 /\ k - 1 <= 2 * l /\ k - 1 \in Nat
            BY <1>1, <1>8
        <3> QED BY <1>1, <1>2, <1>3, <3>1
    <2> QED BY <1>1, <1>c, <1>r, <2>1, <2>2, <2>3 DEF k, l
<1>9. CASE k = 2 * l + 2
    <2>1. n = TAIL_LEN
        BY <1>4, <1>9
    <2>2. /\ Budget(l, k) = BASE_MAX + MID_LEN + Values(2 * l)
          /\ Budget(l, k + 1) = BASE_MAX + MID_LEN + TAIL_LEN + Values(2 * l)
        <3>1. k - 2 = 2 * l /\ k \notin 1 .. l + 1 /\ k # 0 /\ k + 1 # 0 /\ k \in l + 2 .. 2 * l + 2
              /\ k + 1 \notin l + 2 .. 2 * l + 2 /\ k + 1 \notin 1 .. l + 1
            BY <1>1, <1>9
        <3> QED BY <3>1 DEF Budget
    <2>3. Values(2 * l) \in Nat /\ Values(2 * l) <= Values(2 * M)
        BY <1>1, <1>2, <1>3
    <2> QED BY <1>1, <1>c, <1>r, <2>1, <2>2, <2>3 DEF k, l
<1> QED BY <1>1, <1>5, <1>6, <1>7, <1>8, <1>9

\* A call that keeps to its budget is not cut.
LEMMA RoomStep ==
    ASSUME CloudTyped, WithinBudget, NothingCut, [CloudNext]_cloudVars
    PROVE  WithinBudget' /\ NothingCut'
<1> DEFINE Fits(c) == BodyHolds(c.log) =>
                        /\ c.at \in {"chars", "zero"} => c.part <= 2 * c.log + 2
                        /\ c.at = "chars" => c.pos <= Budget(c.log, c.part)
                        /\ c.at = "zero" => c.pos <= Budget(c.log, c.part + 1)
                        /\ ~c.cut
<1>a. \A v \in Tasks : Fits(call[v]) /\ call[v] \in Calls
    BY DEF WithinBudget, NothingCut, CloudTyped
<1> SUFFICES ASSUME NEW v \in Tasks PROVE Fits(call'[v])
    BY DEF WithinBudget, NothingCut
<1>1. ASSUME NEW t \in Tasks, SendFails(t) \/ SendBegins(t) PROVE Fits(call'[v])
    <2>1. PICK c \in Calls :
              /\ Begins(t, c) /\ c.pos = 0 /\ ~c.cut /\ c.part = 0 /\ UNCHANGED body
              /\ \/ c.at = "done" /\ lastBody' = t
                 \/ c.at = "chars" /\ lastBody' = "nobody"
        BY <1>1, FirstCalls
    <2>2. Fits(c)
        BY <2>1, CloudAssumption DEF Calls, Budget
    <2>3. call'[v] = call[v] \/ (\E x \in BOOLEAN : call'[v] = [c EXCEPT !.clean = x])
              \/ (\E x \in BOOLEAN : call'[v] = [call[v] EXCEPT !.clean = x])
        <3> DEFINE x == ~Active(Other(t))
        <3>1. x \in BOOLEAN /\ FALSE \in BOOLEAN
            BY DEF Active
        <3>2. v = t \/ v = Other(t)
            BY OtherFacts
        <3>3. /\ call'[t] = [c EXCEPT !.clean = x]
              /\ \/ call'[Other(t)] = [call[Other(t)] EXCEPT !.clean = FALSE]
                 \/ call'[Other(t)] = call[Other(t)]
            BY <2>1, BeginsFacts
        <3> HIDE DEF x
        <3> QED BY <3>1, <3>2, <3>3
    <2>4. ASSUME NEW d \in Calls, NEW x \in BOOLEAN, Fits(d) PROVE Fits([d EXCEPT !.clean = x])
        <3> DEFINE e == [d EXCEPT !.clean = x]
        <3>1. e.at = d.at /\ e.part = d.part /\ e.log = d.log /\ e.pos = d.pos /\ e.cut = d.cut
            BY DEF Calls
        <3> HIDE DEF e
        <3>2. Fits(e)
            BY <2>4, <3>1
        <3> QED BY <3>2 DEF e
    <2> HIDE DEF Fits
    <2> QED BY <1>a, <2>2, <2>3, <2>4, ZenonT(30)
<1>2. ASSUME NEW t \in Tasks, AppendChars(t) PROVE Fits(call'[v])
    <2> DEFINE c == call[t]
    <2>1. PICK n \in Lengths(c) : LET r == Room(c.pos, n) IN
              /\ c.at = "chars" /\ n \in Nat /\ r \in Nat /\ c.pos \in Nat
              /\ c.pos + r \in Bytes /\ c.pos + r <= BODY_SIZE - 1
              /\ c.pos + n <= BODY_SIZE - 1 => r = n
              /\ \A b \in Bytes : body'[b] = IF c.pos <= b /\ b < c.pos + r THEN t ELSE body[b]
              /\ body' \in [Bytes -> Tasks \cup {Zero}]
              /\ call' \in [Tasks -> Calls] /\ \A w \in Tasks \ {t} : call'[w] = call[w]
              /\ call'[t] = [c EXCEPT !.at = "zero", !.pos = c.pos + r, !.cut = c.cut \/ r < n]
              /\ lastBody' = lastBody
        BY <1>2, CharsFacts
    <2>2. CASE v # t
        BY <1>a, <2>1, <2>2
    <2>3. CASE v = t
        <3> DEFINE e == call'[t]
        <3>0. c \in Calls /\ Fits(c) /\ e.log = c.log /\ e.at = "zero"
            BY <1>a, <2>1 DEF Calls
        <3>n. CASE ~BodyHolds(c.log)
            <4> HIDE DEF c, e
            <4>1. Fits(e)
                BY <3>0, <3>n
            <4> QED BY <2>3, <4>1 DEF e
        <3>h. CASE BodyHolds(c.log)
            <4>1. c.part <= 2 * c.log + 2 /\ c.pos <= Budget(c.log, c.part) /\ ~c.cut
                BY <2>1, <3>0, <3>h
            <4>2. /\ Budget(c.log, c.part) \in Nat /\ Budget(c.log, c.part + 1) \in Nat
                  /\ Budget(c.log, c.part) + n <= Budget(c.log, c.part + 1)
                  /\ Budget(c.log, c.part + 1) <= BODY_SIZE - 1
                BY <3>0, <3>h, <4>1, BudgetFacts
            <4>3. c.pos + n <= Budget(c.log, c.part + 1) /\ c.pos + n <= BODY_SIZE - 1
                BY <2>1, <4>1, <4>2, CloudAssumption
            <4>4. /\ e.pos = c.pos + n /\ e.part = c.part /\ e.cut = (c.cut \/ n < n)
                BY <2>1, <3>0, <4>3 DEF Calls
            <4>5. ~e.cut
                <5>1. ~(n < n) /\ ~c.cut
                    BY <2>1, <4>1
                <5>2. (c.cut \/ n < n) = FALSE
                    BY <5>1
                <5> QED BY <4>4, <5>2
            <4> HIDE DEF c, e
            <4>6. Fits(e)
                BY <3>0, <4>1, <4>3, <4>4, <4>5
            <4> QED BY <2>3, <4>6 DEF e
        <3> QED BY <3>n, <3>h
    <2> QED BY <2>2, <2>3
<1>3. ASSUME NEW t \in Tasks, AppendZero(t) PROVE Fits(call'[v])
    <2> DEFINE c == call[t]
    <2>1. /\ c.at = "zero"
          /\ \A w \in Tasks \ {t} : call'[w] = call[w]
          /\ call'[t] = IF AtTail(c) THEN [c EXCEPT !.at = "post"]
                        ELSE [c EXCEPT !.at = "chars", !.part = c.part + 1]
        BY <1>3, ZeroFacts
    <2>2. CASE v # t
        BY <1>a, <2>1, <2>2
    <2>3. CASE v = t
        <3>1. c \in Calls /\ Fits(c)
            BY <1>a
        <3> HIDE DEF c
        <3>2. CASE AtTail(c)
            BY <2>1, <2>3, <3>1, <3>2 DEF Calls
        <3>3. CASE ~AtTail(c)
            <4> DEFINE e == call'[t]
            <4>1. /\ e.at = "chars" /\ e.pos = c.pos /\ e.part = c.part + 1 /\ e.log = c.log /\ e.cut = c.cut
                BY <2>1, <3>1, <3>3 DEF Calls
            <4>2. BodyHolds(c.log) => c.part + 1 <= 2 * c.log + 2
                <5>1. c.part \in Nat /\ c.log \in Nat /\ c.part # 2 * c.log + 2
                    BY <3>1, <3>3, CloudAssumption DEF AtTail, Calls
                <5>2. BodyHolds(c.log) => c.part <= 2 * c.log + 2
                    BY <2>1, <3>1
                <5> QED BY <5>1, <5>2
            <4> HIDE DEF e
            <4>3. Fits(e)
                BY <2>1, <3>1, <4>1, <4>2
            <4> QED BY <2>3, <4>3 DEF e
        <3> QED BY <3>2, <3>3
    <2> QED BY <2>2, <2>3
<1>4. ASSUME NEW t \in Tasks, Post(t) \/ Answer(t) \/ Returns(t) PROVE Fits(call'[v])
    <2>1. /\ \A w \in Tasks \ {t} : call'[w] = call[w]
          /\ \/ /\ call'[t].at \in {"answer", "done"}
                /\ call'[t].cut = call[t].cut /\ call'[t].log = call[t].log
             \/ call'[t] = NoCall
        BY <1>4, OtherStepFacts
    <2>2. NoCall.at = "idle" /\ ~NoCall.cut
        BY DEF NoCall
    <2> QED BY <1>a, <2>1, <2>2
<1>5. CASE UNCHANGED cloudVars
    BY <1>a, <1>5 DEF cloudVars
<1> QED BY <1>1, <1>2, <1>3, <1>4, <1>5 DEF CloudNext

\* No text is cut that the body has room for: in the code's, with 3072 bytes for 90 samples of two
\* values of at most six characters, none (cloud.cpp 50-76).
THEOREM TextFits == CloudSpec => []NothingCut
<1>1. CloudInit => WithinBudget /\ NothingCut
    BY DEF CloudInit, WithinBudget, NothingCut, NoCall
<1>2. CloudInv => CloudTyped
    BY DEF CloudInv
<1>3. CloudTyped /\ WithinBudget /\ NothingCut /\ [CloudNext]_cloudVars => WithinBudget' /\ NothingCut'
    BY RoomStep
<1> QED BY <1>1, <1>2, <1>3, CloudInvHolds, PTL DEF CloudSpec

\* A call that was alone sends its own text, whole if there is room for it, and prints its own
\* answer, whatever the sizes and whatever was sent before (cloud.cpp 27-85).
THEOREM UploadIsOwn == CloudSpec => []CallIsOwn
<1>1. NothingCut /\ OwnText /\ OwnAnswer => CallIsOwn
    BY DEF CallIsOwn
<1> QED BY <1>1, TextFits, CallSendsItsOwn, AnswerIsItsOwn, PTL
=============================================================================
