-------------------------------- MODULE Cloud --------------------------------
(***************************************************************************)
(* sendToCloud (modules/cloud/cloud.cpp), called by the session task for a *)
(* record and by the Telnet console for `cloud test', at the same time if  *)
(* the operator hits the moment.  The text of the request and the text of  *)
(* the answer are static buffers that both calls share, without a lock.    *)
(*                                                                         *)
(* A byte of the text is the task that wrote it, or Zero.                  *)
(***************************************************************************)
EXTENDS Naturals

CONSTANTS BODY_SIZE,               \* bytes of the static body (3072)
          BASE_MAX,                \* the longest text before the first value
          MID_LEN, TAIL_LEN,       \* the texts between the two logs and after them
          VALUE_MAX,               \* the longest value with its comma (6)
          WEIGHT_LOG_MAX_SAMPLES,  \* samples of a record at most (90)
          TEST_SAMPLES             \* samples that `cloud test' sends (3)

ASSUME CloudAssumption ==
    /\ BODY_SIZE \in Nat \ {0} /\ BASE_MAX \in Nat /\ MID_LEN \in Nat /\ TAIL_LEN \in Nat
    /\ VALUE_MAX \in Nat /\ WEIGHT_LOG_MAX_SAMPLES \in Nat
    /\ TEST_SAMPLES \in 0 .. WEIGHT_LOG_MAX_SAMPLES

VARIABLES call,      \* per task: where its call is, with the locals of it
          body,      \* the text of the request
          lastBody   \* the text of the answer: whose it is

cloudVars == <<call, body, lastBody>>

Tasks == {"session", "console"}
Zero == "zero"
Bytes == 0 .. BODY_SIZE - 1

\* Whether another call was under way at any time of this one, and whether a text did not fit.
NoCall == [at |-> "idle", log |-> 0, part |-> 0, pos |-> 0, clean |-> TRUE, cut |-> FALSE,
           code |-> "none"]

CloudInit == /\ call = [t \in Tasks |-> NoCall]
             /\ body = [b \in Bytes |-> Zero]
             /\ lastBody = "nobody"

Other(t) == CHOOSE u \in Tasks : u # t

Active(t) == call[t].at # "idle"

\* logCount, as the callers give it
Logs(t) == IF t = "console" THEN {TEST_SAMPLES} ELSE 0 .. WEIGHT_LOG_MAX_SAMPLES

\* Both calls lose their claim to the buffers when the second begins.
Begins(t, c) ==
    /\ ~Active(t)
    /\ call' = [u \in Tasks |->
                  IF u = t THEN [c EXCEPT !.clean = ~Active(Other(t))]
                  ELSE IF Active(u) THEN [call[u] EXCEPT !.clean = FALSE] ELSE call[u]]

\* Without WiFi, and when http.begin fails, the call sets the text of its answer and returns.
SendFails(t) == /\ \E code \in {"no WiFi", "begin failed"} :
                       Begins(t, [NoCall EXCEPT !.at = "done", !.code = code])
                /\ lastBody' = t
                /\ UNCHANGED body

SendBegins(t) == /\ \E n \in Logs(t) : Begins(t, [NoCall EXCEPT !.at = "chars", !.log = n])
                 /\ lastBody' = "nobody"
                 /\ UNCHANGED body

(***************************************************************************)
(* The text: part 0 is the base with the first bracket, the values of the  *)
(* first log follow, the middle, the values of the second log, the tail.   *)
(* The characters of a part and the zero after them are written one after  *)
(* the other, and the other task may come between.                         *)
(***************************************************************************)
AtTail(c) == c.part = 2 * c.log + 2

Lengths(c) == CASE c.part = 0 -> 1 .. BASE_MAX
                [] c.part = c.log + 1 -> {MID_LEN}
                [] AtTail(c) -> {TAIL_LEN}
                [] OTHER -> 1 .. VALUE_MAX

\* Mutant: the whole buffer is taken for characters.
RoomWhole(pos, n) == IF n < BODY_SIZE - pos THEN n ELSE BODY_SIZE - pos

\* vsnprintf is given what is left of the buffer, and keeps a byte of it for its zero.
Room(pos, n) == IF n < BODY_SIZE - 1 - pos THEN n ELSE BODY_SIZE - 1 - pos

AppendChars(t) ==
    LET c == call[t] IN
    /\ c.at = "chars"
    /\ \E n \in Lengths(c) :
           /\ body' = [b \in Bytes |->
                         IF c.pos <= b /\ b < c.pos + Room(c.pos, n) THEN t ELSE body[b]]
           /\ call' = [call EXCEPT ![t] = [c EXCEPT !.at = "zero", !.pos = c.pos + Room(c.pos, n),
                                                    !.cut = c.cut \/ Room(c.pos, n) < n]]
    /\ UNCHANGED lastBody

\* Mutant: no zero is written behind the tail.
AppendZeroNotLast(t) ==
    LET c == call[t] IN
    /\ c.at = "zero"
    /\ body' = IF AtTail(c) THEN body ELSE [body EXCEPT ![c.pos] = Zero]
    /\ call' = [call EXCEPT ![t] = IF AtTail(c) THEN [c EXCEPT !.at = "post"]
                                   ELSE [c EXCEPT !.at = "chars", !.part = c.part + 1]]
    /\ UNCHANGED lastBody

AppendZero(t) ==
    LET c == call[t] IN
    /\ c.at = "zero"
    /\ body' = [body EXCEPT ![c.pos] = Zero]
    /\ call' = [call EXCEPT ![t] = IF AtTail(c) THEN [c EXCEPT !.at = "post"]
                                   ELSE [c EXCEPT !.at = "chars", !.part = c.part + 1]]
    /\ UNCHANGED lastBody

Post(t) == /\ call[t].at = "post"
           /\ call' = [call EXCEPT ![t].at = "answer"]
           /\ UNCHANGED <<body, lastBody>>

\* An error of HTTPClient has no text: it counts as an empty one of this call.
Answer(t) == /\ call[t].at = "answer"
             /\ \E code \in {"201", "200", "4xx", "5xx"} :
                    /\ call' = [call EXCEPT ![t].at = "done", ![t].code = code]
                    /\ lastBody' = IF code # "201" THEN t ELSE lastBody
             /\ UNCHANGED body

\* The console looks at the code, and at the text of the answer, when sendToCloud has returned.
Returns(t) == /\ call[t].at = "done"
              /\ call' = [call EXCEPT ![t] = NoCall]
              /\ UNCHANGED <<body, lastBody>>

CloudNext == \E t \in Tasks :
    \/ SendFails(t)
    \/ SendBegins(t)
    \/ AppendChars(t)
    \/ AppendZero(t)
    \/ Post(t)
    \/ Answer(t)
    \/ Returns(t)

CloudSpec == CloudInit /\ [][CloudNext]_cloudVars

(***************************************************************************)
(* Properties                                                              *)
(***************************************************************************)
\* Whatever two calls write into the body at once, POST finds a zero in it: no byte but a zero is
\* ever written to its last place, also when a text does not fit (cloud.cpp 15-25, 52, 78).
BodyEnds == body[BODY_SIZE - 1] = Zero

\* No text is cut that the body is large enough for: the code's is "sized for the base fields plus
\* up to WEIGHT_LOG_MAX_SAMPLES pairs" (cloud.cpp 50-76).
BodyHolds(log) == BASE_MAX + MID_LEN + TAIL_LEN + 2 * log * VALUE_MAX < BODY_SIZE

NothingCut == \A t \in Tasks : BodyHolds(call[t].log) => ~call[t].cut

\* A call that was alone sends its own text to the last byte and nothing that an earlier, longer
\* one left behind it in the static buffer (cloud.cpp 52-78).  POST takes what is before the
\* first zero.
Taken == {b \in Bytes : \A a \in 0 .. b : body[a] # Zero}

OwnText == \A t \in Tasks : call[t].at = "post" /\ call[t].clean =>
               /\ Taken = 0 .. call[t].pos - 1
               /\ \A b \in Taken : body[b] = t

\* What the console prints as the answer of the server is the answer to its own call, if it was
\* alone until then (cloud.cpp 28-43, 79-82, telnet.cpp 615-621).
Prints(t) == t = "console" /\ call[t].at = "done" /\ call[t].code \in {"begin failed", "4xx", "5xx"}

OwnAnswer == \A t \in Tasks : Prints(t) /\ call[t].clean => lastBody = t

\* A call that was alone sends its own text whole and prints its own answer (cloud.cpp 27-85).
CallIsOwn == NothingCut /\ OwnText /\ OwnAnswer
=============================================================================
