----------------------------- MODULE Monitoring ------------------------------
(***************************************************************************)
(* The monitoring scripts (apps/monitoring): a reader writes a JSON packet *)
(* to a serial line every two seconds, the router on the Raspberry Pi      *)
(* reads it line by line and posts it to the API with up to three          *)
(* attempts, and the API inserts a row per request.  A request that the    *)
(* router has given up may still be worked on, and an attempt whose answer *)
(* is lost is repeated although its row is there.                          *)
(*                                                                         *)
(* Packets are numbered; those of the AD7797 scale lack the fields that    *)
(* the router asks for.  What the sensors measure is left out.             *)
(***************************************************************************)
EXTENDS Naturals, Sequences, FiniteSets, SequencesExt

CONSTANTS MAX_PACKETS,  \* bound: packets sent
          UartRoom,     \* packets the serial buffer of the Raspberry Pi holds
          FromScale,    \* the packets that the AD7797 reader sends
          MAX_RESTARTS  \* bound: stops of the API

ASSUME MonitoringAssumption == /\ MAX_PACKETS \in Nat /\ UartRoom \in Nat \ {0}
                               /\ FromScale \subseteq 1..MAX_PACKETS
                               /\ MAX_RESTARTS \in Nat

VARIABLES sent,      \* packets sent so far
          dropped,   \* the packets that found the buffer full
          uart,      \* the packets in the serial buffer
          router,    \* where the router's loop is
          packet,    \* the packet it works on
          attempt,   \* the attempt it is at
          requests,  \* the requests at the API
          pool,      \* "down", "starting" (no pool yet) or "ready"
          rows,      \* rows of the table per packet
          reported,  \* packets the router has printed a warning or an error for
          restarts   \* stops of the API so far

vars == <<sent, dropped, uart, router, packet, attempt, requests, pool, rows, reported, restarts>>

Packets == 1..MAX_PACKETS

\* for attempt in range(3)
Attempts == 0..2

MonitoringInit == /\ sent = 0 /\ dropped = {} /\ uart = <<>>
                  /\ router = "reading" /\ packet = 0 /\ attempt = 0
                  /\ requests = {} /\ pool = "starting"
                  /\ rows = [p \in Packets |-> 0] /\ reported = {} /\ restarts = 0

(***************************************************************************)
(* The readers: nobody waits for an answer, and what finds the serial      *)
(* buffer full is dropped by the driver.                                   *)
(***************************************************************************)
SendPacket == /\ sent < MAX_PACKETS
              /\ sent' = sent + 1
              /\ IF Len(uart) < UartRoom
                 THEN uart' = Append(uart, sent + 1) /\ UNCHANGED dropped
                 ELSE dropped' = dropped \cup {sent + 1} /\ UNCHANGED uart
              /\ UNCHANGED <<router, packet, attempt, requests, pool, rows, reported, restarts>>

(***************************************************************************)
(* The router.  A line that is cut by the two seconds' timeout of readline *)
(* does not parse, a packet without the required fields is refused, and a  *)
(* byte that is not UTF-8 is decoded outside the try: it ends the program. *)
(***************************************************************************)
Reads == router = "reading" /\ uart # <<>>

Rejects == /\ Reads
           /\ uart' = Tail(uart) /\ reported' = reported \cup {Head(uart)}
           /\ UNCHANGED <<sent, dropped, router, packet, attempt, requests, pool, rows, restarts>>

Dies == /\ Reads
        /\ uart' = Tail(uart) /\ router' = "dead"
        /\ UNCHANGED <<sent, dropped, packet, attempt, requests, pool, rows, reported, restarts>>

\* validate_packet: every required field is there
Valid(p) == p \notin FromScale

Request == [packet |-> packet, attempt |-> attempt, answer |-> "none"]

Accepts == /\ Reads /\ Valid(Head(uart))
           /\ uart' = Tail(uart) /\ packet' = Head(uart)
           /\ attempt' = 0 /\ router' = "trying"
           /\ UNCHANGED <<sent, dropped, requests, pool, rows, reported, restarts>>

\* urlopen: the API has the request, or nobody listens.
Posts == /\ router = "trying" /\ pool # "down"
         /\ router' = "waiting" /\ requests' = requests \cup {Request}
         /\ UNCHANGED <<sent, dropped, uart, packet, attempt, pool, rows, reported, restarts>>

\* Mutant: after the last attempt the loop just ends.
AttemptFailsQuietly ==
    IF attempt + 1 \in Attempts
    THEN router' = "trying" /\ attempt' = attempt + 1 /\ UNCHANGED reported
    ELSE router' = "reading" /\ UNCHANGED <<attempt, reported>>

\* Mutant: one attempt more.
AttemptFailsOnceMore ==
    IF attempt \in Attempts
    THEN router' = "trying" /\ attempt' = attempt + 1 /\ UNCHANGED reported
    ELSE router' = "reading" /\ reported' = reported \cup {packet} /\ UNCHANGED attempt

\* The attempt failed and the pause after it is over; the third raises, and loop prints it.
AttemptFails ==
    IF attempt + 1 \in Attempts
    THEN router' = "trying" /\ attempt' = attempt + 1 /\ UNCHANGED reported
    ELSE router' = "reading" /\ reported' = reported \cup {packet} /\ UNCHANGED attempt

Refused == /\ router = "trying" /\ pool = "down"
           /\ AttemptFails
           /\ UNCHANGED <<sent, dropped, uart, packet, requests, pool, rows, restarts>>

Mine == {r \in requests : r.packet = packet /\ r.attempt = attempt}

Delivered == /\ router = "waiting"
             /\ \E r \in Mine : r.answer = "created" /\ requests' = requests \ {r}
             /\ router' = "reading"
             /\ UNCHANGED <<sent, dropped, uart, packet, attempt, pool, rows, reported, restarts>>

HttpError == /\ router = "waiting"
             /\ \E r \in Mine : r.answer = "error" /\ requests' = requests \ {r}
             /\ AttemptFails
             /\ UNCHANGED <<sent, dropped, uart, packet, pool, rows, restarts>>

\* Mutant: urlopen without a timeout waits until the connection breaks.
TimesOutWhenBroken == /\ router = "waiting" /\ Mine = {}
                      /\ AttemptFails
                      /\ UNCHANGED <<sent, dropped, uart, packet, requests, pool, rows, restarts>>

\* Five seconds without an answer, or an answer that is lost: the API may go on.
TimesOut == /\ router = "waiting"
            /\ requests' = requests \ {r \in Mine : r.answer # "none"}
            /\ AttemptFails
            /\ UNCHANGED <<sent, dropped, uart, packet, pool, rows, restarts>>

(***************************************************************************)
(* The API: without a pool a request fails with 500, otherwise it inserts  *)
(* one row, unless the database fails.  An answer that nobody waits for is *)
(* dropped.                                                                *)
(***************************************************************************)
Awaited(r) == router = "waiting" /\ r \in Mine

Answered(r, answer) == requests' = IF Awaited(r) THEN (requests \ {r}) \cup {[r EXCEPT !.answer = answer]}
                                   ELSE requests \ {r}

AddSensorData(r) == /\ pool = "ready" /\ r.answer = "none"
                    /\ rows' = [rows EXCEPT ![r.packet] = @ + 1]
                    /\ Answered(r, "created")
                    /\ UNCHANGED <<sent, dropped, uart, router, packet, attempt, pool, reported, restarts>>

Fails(r) == /\ r.answer = "none"
            /\ Answered(r, "error")
            /\ UNCHANGED <<sent, dropped, uart, router, packet, attempt, pool, rows, reported, restarts>>

Startup == /\ pool' = CASE pool = "down" -> "starting" [] pool = "starting" -> "ready"
           /\ UNCHANGED <<sent, dropped, uart, router, packet, attempt, requests, rows, reported, restarts>>

\* The API stops; its requests are gone with it, answered or not.
Stops == /\ pool # "down" /\ restarts < MAX_RESTARTS
         /\ pool' = "down" /\ requests' = {} /\ restarts' = restarts + 1
         /\ UNCHANGED <<sent, dropped, uart, router, packet, attempt, rows, reported>>

RouterStep == \/ Rejects
              \/ Dies
              \/ Accepts
              \/ Posts
              \/ Refused
              \/ Delivered
              \/ HttpError
              \/ TimesOut

ApiStep == \/ \E r \in requests : AddSensorData(r) \/ Fails(r)
           \/ pool # "ready" /\ Startup
           \/ Stops

MonitoringNext == SendPacket \/ RouterStep \/ ApiStep

\* The router is a loop with timeouts; of the API nothing is assumed.
MonitoringSpec == MonitoringInit /\ [][MonitoringNext]_vars /\ WF_vars(RouterStep)

(***************************************************************************)
(* Properties                                                              *)
(***************************************************************************)
\* A retry is not idempotent and an abandoned request may still insert its row, but no packet
\* gets more rows than it had attempts, nor does one that was refused get any
\* (raspberry_data_router.py 62-77, server_api.py 57-80).
RowsOfAttempts == \A p \in Packets : /\ rows[p] > 0 => p <= sent /\ Valid(p)
                                     /\ rows[p] <= 3

\* Every packet sent is on its way, in the table, reported on the router's console, or was
\* dropped by the serial driver, as long as the router runs: an attempt that is given up is
\* never taken for a delivered one (raspberry_data_router.py 70-91).
UnderWay(p) == p \in ToSet(uart) \/ (router \in {"trying", "waiting"} /\ p = packet)

Accounted == router # "dead" =>
                 \A p \in 1..sent \ dropped : UnderWay(p) \/ rows[p] > 0 \/ p \in reported

\* An API that hangs does not hold the router: whatever it does, each packet in the buffer is
\* in the table or reported in the end, unless the router has died of an undecodable byte
\* (raspberry_data_router.py 70-91).
RouterMovesOn == \A p \in Packets :
    p \in ToSet(uart) ~> rows[p] > 0 \/ p \in reported \/ router = "dead"
=============================================================================
