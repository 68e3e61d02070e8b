------------------------------ MODULE Gateways ------------------------------
(***************************************************************************)
(* src/router_gateway.py, RouterPortManager and what it is made of: the    *)
(* node asks the routers it discovers to forward a port to it, or whether  *)
(* one is forwarded.  The routers are external; the requests to them,      *)
(* XML in SOAP over HTTP, are abstracted to their action and their port.   *)
(***************************************************************************)
EXTENDS Sequences, Functions

CONSTANTS Routers,   \* UPnP devices that may answer the search
          OpenPorts  \* ports that may be forwarded

VARIABLES
  gateway,  \* what each device is
  mapped    \* the ports each of them forwards

(* "other": no WAN connection service in its profile, or no profile;       *)
(* "malformed": a profile that is no XML, or lacks a part of the service;  *)
(* "refuses": any status but 200, or no answer.                            *)
GatewayKinds == {"maps", "refuses", "other", "malformed"}

InitGateways ==
  /\ gateway \in [Routers -> GatewayKinds]
  /\ mapped = [g \in Routers |-> {}]

FallbackPaths == <<>>

(* The scan takes the first answer to its search and ends: however many    *)
(* devices there are, at most one is found, and not always the same.  It   *)
(* is repeated, until the deadline, while none is.  Without a network it   *)
(* ends in none of these ways: its first packet raises an OSError.         *)
Discoveries(online) ==
  IF online THEN {<<g>> : g \in Routers} \cup {FallbackPaths} ELSE {}

(* _execute_on_gateway: None, True or False, or the parser's exception.    *)
Outcome(g, action, port) ==
  CASE gateway[g] = "other" -> "none"
    [] gateway[g] = "malformed" -> "raises"
    [] gateway[g] = "refuses" -> "false"
    [] action = "AddPortMapping" -> "true"
    [] OTHER -> IF port \in mapped[g] THEN "true" ELSE "false"

(* What is found, if no device that is has a profile that raises; nobody   *)
(* up to the callers of forward_port and is_port_open catches either.      *)
Raises(urls) == \E g \in Range(urls) : gateway[g] = "malformed"
Answers(online) == {urls \in Discoveries(online) : ~Raises(urls)}
MayRaise(online) == ~online \/ \E urls \in Discoveries(online) : Raises(urls)

Action(disable) == IF disable THEN "DeletePortMapping" ELSE "AddPortMapping"

Accepting(urls, port, disable) ==
  {g \in Range(urls) : Outcome(g, Action(disable), port) = "true"}

(* forward_port returns whether any device has accepted it.                *)
ForwardPort(urls, port, disable, result) ==
  LET accepting == Accepting(urls, port, disable)
  IN /\ mapped' = [g \in Routers |->
                     IF g \notin accepting THEN mapped[g]
                     ELSE IF disable THEN mapped[g] \ {port} ELSE mapped[g] \cup {port}]
     /\ result = (accepting # {})
     /\ UNCHANGED gateway

(* is_port_open returns what the last device that answered has said.       *)
IsPortOpen(urls, port) ==
  LET Says(i, what) == Outcome(urls[i], "GetSpecificPortMappingEntry", port) = what
  IN \E i \in DOMAIN urls : /\ Says(i, "true")
                            /\ \A j \in DOMAIN urls : j > i => Says(j, "none")

GatewaysTyped ==
  /\ gateway \in [Routers -> GatewayKinds]
  /\ mapped \in [Routers -> SUBSET OpenPorts]
=============================================================================
