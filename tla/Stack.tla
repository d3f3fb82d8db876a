-------------------------------- MODULE Stack --------------------------------
(***************************************************************************)
(* What a request passes on its way to the code that answers it: the       *)
(* limiter of its client, its session, the routers and the bridge of the   *)
(* VM that renders it.  Each layer calls the next one or answers itself,   *)
(* and they share no state: a behaviour shows the requests of one of them. *)
(***************************************************************************)
EXTENDS RateLimit, JWTSession, FlashSession, Routing, Bridge

VARIABLE layer \* the layer a behaviour shows

vars == <<layer, limitVars, sessionVars, flashVars, routingVars, bridgeVars>>

NoRoutes == [api |-> <<>>, pages |-> <<>>]

Init == /\ layer \in {"ratelimit", "jwt", "session", "routing", "engine"}
        /\ LimitInit /\ SessionInit /\ FlashInit /\ BridgeInit
        /\ layer # "engine" => engine = CHOOSE e \in Engines : TRUE
        /\ RoutingInit(IF layer = "routing" THEN Apps ELSE {NoRoutes})

Next ==
    /\ \/ /\ layer = "ratelimit" /\ LimitNext
          /\ UNCHANGED <<sessionVars, flashVars, routingVars, bridgeVars>>
       \/ /\ layer = "jwt" /\ SessionNext
          /\ UNCHANGED <<limitVars, flashVars, routingVars, bridgeVars>>
       \/ /\ layer = "session" /\ FlashNext
          /\ UNCHANGED <<limitVars, sessionVars, routingVars, bridgeVars>>
       \/ /\ layer = "routing" /\ RoutingNext
          /\ UNCHANGED <<limitVars, sessionVars, flashVars, bridgeVars>>
       \/ /\ layer = "engine" /\ BridgeNext
          /\ UNCHANGED <<limitVars, sessionVars, flashVars, routingVars>>
    /\ UNCHANGED layer

Spec == Init /\ [][Next]_vars
=============================================================================
