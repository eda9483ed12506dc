------------------------------- MODULE MCTimed -------------------------------
(***************************************************************************)
(* Parts that live by the main loop, side by side in one run: its sockets  *)
(* and timers themselves, the choice of gateways, and the qualities of     *)
(* links over PLC and Ethernet, with each metric.  The variable part says  *)
(* which moves.                                                            *)
(***************************************************************************)
EXTENDS Timers, Sockets, Gateway, LinkQuality

VARIABLE part

(* Tunnels for IPv4 over IPv6 only, and gateways with NAT for IPv4.        *)
MCGwConfigs == {<<"niit", FALSE, {}>>, <<"v4", TRUE, {}>>}

(* A link over PLC and one over Ethernet.                                  *)
MCIfMode == <<"plc", "ether">>

(* A part that does not move has one of its configurations.                *)
TimedInit ==
  /\ part \in {"timers", "sockets", "gateways", "qualities"}
  /\ olsr_init_timers /\ SocketsInit /\ PlcInit
  /\ GatewayInit /\ (part # "gateways" => gw_mode = "v4")
  /\ part # "qualities" => lq_algorithm = "etx_ff"

TimedNext ==
  \/ part = "timers" /\ TimersNext /\ UNCHANGED <<socketVars, gatewayVars, plcVars, part>>
  \/ part = "sockets" /\ SocketsNext /\ UNCHANGED <<timerVars, gatewayVars, plcVars, part>>
  \/ part = "gateways" /\ GatewayNext /\ UNCHANGED <<timerVars, socketVars, plcVars, part>>
  \/ part = "qualities" /\ PlcNext /\ UNCHANGED <<timerVars, socketVars, gatewayVars, part>>

TimedSpec == TimedInit /\ [][TimedNext]_<<timerVars, socketVars, gatewayVars, plcVars, part>>
==============================================================================
