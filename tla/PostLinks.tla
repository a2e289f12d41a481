------------------------------ MODULE PostLinks ------------------------------
(***************************************************************************)
(* The three ways on which a post is connected: to its sensor node         *)
(* (SensorLink), to the master (Gateway) and to the cloud (Cloud).  They   *)
(* share no variable; each step is one of one way, at any time.            *)
(***************************************************************************)
EXTENDS SensorLink, Gateway, Cloud

postLinkVars == <<linkVars, gatewayVars, cloudVars>>

PostLinksInit == LinkInit /\ GatewayInit /\ CloudInit

NodeLink == LinkNext /\ UNCHANGED <<gatewayVars, cloudVars>>

MasterLink == GatewayNext /\ UNCHANGED <<linkVars, cloudVars>>

CloudLink == CloudNext /\ UNCHANGED <<linkVars, gatewayVars>>

PostLinksNext == NodeLink \/ MasterLink \/ CloudLink

PostLinksSpec == PostLinksInit /\ [][PostLinksNext]_postLinkVars

\* The bound of the run: TLC goes on from the states in which at most one way is
\* out of its initial state.  As no property speaks of two ways and no step of
\* one depends on another, no interleaving beyond it could tell more.
OneWayAtATime ==
    \/ GatewayInit /\ CloudInit
    \/ LinkInit /\ CloudInit
    \/ LinkInit /\ GatewayInit
=============================================================================
