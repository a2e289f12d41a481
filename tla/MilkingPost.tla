------------------------------ MODULE MilkingPost ------------------------------
(***************************************************************************)
(* What a milking post promises, seen from the farm: a cow comes and goes; *)
(* every milking that begins is either reported by exactly one record that *)
(* carries the tag and weight it began with, or given up because the       *)
(* operator asked for it, one milking for each request; and a visit is     *)
(* sprayed at most once, never an empty post.  SessionTask implements it   *)
(* (SessionProps!PostImplemented).                                         *)
(***************************************************************************)
CONSTANTS Tags, NoTag, Weights

VARIABLES
    phase,      \* "empty", "present" (a cow, not yet milked) or "milking"
    milking,    \* the milking in progress, None outside one
    record,     \* the last record reported, None since the last milking began
    spray,      \* of this visit: "due", "on" or "done"; "none" at an empty post
    asked       \* the operator has asked for a reset that is still to come

postVars == <<phase, milking, record, spray, asked>>

None == [none |-> TRUE]

PostInit == phase = "empty" /\ milking = None /\ record = None /\ spray = "none"
            /\ asked = FALSE

Arrive ==
    /\ phase = "empty"
    /\ phase' = "present" /\ spray' = "due"
    /\ UNCHANGED <<milking, record, asked>>

Leave ==
    /\ phase = "present"
    /\ phase' = "empty" /\ spray' = "none"
    /\ UNCHANGED <<milking, record, asked>>

BeginMilking ==
    /\ phase = "present"
    /\ phase' = "milking"
    /\ \E t \in Tags \cup {NoTag}, w \in Weights : milking' = [rfid |-> t, wInitial |-> w]
    /\ record' = None
    /\ UNCHANGED <<spray, asked>>

Report(reason) ==
    /\ phase = "milking"
    /\ \E final \in Weights, ok \in BOOLEAN :
         record' = [rfid |-> milking.rfid, wInitial |-> milking.wInitial,
                    wFinal |-> final, reason |-> reason, delivered |-> ok]
    /\ milking' = None
    /\ UNCHANGED asked

ChangeBucket == Report("BUCKET_CHANGE") /\ phase' = "present" /\ UNCHANGED spray

EndMilking == Report("COW_LEFT") /\ phase' = "empty" /\ spray' = "none"

AskReset ==
    /\ asked' = TRUE
    /\ UNCHANGED <<phase, milking, record, spray>>

\* The post is reset, once for each time the operator asked: a milking in
\* progress is not reported.
GiveUp ==
    /\ asked /\ asked' = FALSE
    /\ phase' = "empty" /\ milking' = None /\ spray' = "none"
    /\ UNCHANGED record

\* A spray that is due begins, or is called off because the cow is leaving.
Spray ==
    /\ \/ spray = "due" /\ spray' \in {"on", "done"}
       \/ spray = "on" /\ spray' = "done"
    /\ UNCHANGED <<phase, milking, record, asked>>

PostNext ==
    \/ Arrive \/ Leave \/ BeginMilking \/ ChangeBucket \/ EndMilking
    \/ AskReset \/ GiveUp \/ Spray

PostSpec == PostInit /\ [][PostNext]_postVars
=============================================================================
