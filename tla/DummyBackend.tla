---------------------------- MODULE DummyBackend ----------------------------
(***************************************************************************)
(* src/mock-server/dummy_backend.py: the tables of the backend that the    *)
(* node is run against, and what each route does to them.  They are in     *)
(* memory: debug/reset and a restart both empty them.  The heartbeat log   *)
(* is left out: only a debug route reads it.                               *)
(*                                                                         *)
(* A handler looks its token up, and is refused with 401 if it is unknown. *)
(* Then it takes the lock, writes its table and looks the host up: not one *)
(* step, and a reset in between makes the second look raise a KeyError,    *)
(* answered with 500.  Its status is a parameter, so that the caller takes *)
(* the step with the answer it gets.                                       *)
(***************************************************************************)
EXTENDS Naturals

CONSTANTS Tokens,     \* tokens that uuid4 may give
          Shards,     \* ids of shards
          Ips,        \* IP addresses that may be reported
          Ports,      \* ports that may be reported
          NoToken,    \* the client has not logged in
          NoAddress   \* what the backend knows of a host that has just done so

ASSUME TokenAssumption == NoToken \notin Tokens
ASSUME AddressAssumption == NoAddress \notin [ip : Ips, port : Ports]

VARIABLES
  issued,   \* tokens that were given out
  hosts,    \* registered_hosts: the tokens in it
  address,  \* the ip_address and port of each of them
  owner,    \* active_shards: the host_token of each shard, NoToken if none
  moving,   \* reports that are past the first look, and not in the table
  storing   \* confirmations, likewise: the token with the shard

tables == <<issued, hosts, address, owner>>
inside == <<moving, storing>>
backend == <<tables, inside>>

InitBackend ==
  /\ issued = {} /\ hosts = {}
  /\ address = [t \in Tokens |-> NoAddress]
  /\ owner = [s \in Shards |-> NoToken]
  /\ moving = {} /\ storing = {}

Authenticated(t) == t \in hosts

(* Each login gives a new token; earlier ones stay valid.                  *)
Signin(t) ==
  /\ t \in Tokens \ issued
  /\ issued' = issued \cup {t}
  /\ hosts' = hosts \cup {t}
  /\ address' = [address EXCEPT ![t] = NoAddress]
  /\ UNCHANGED <<owner, inside>>

Status(t) == IF Authenticated(t) THEN 200 ELSE 500

UpdateConnectionEnters(t, where) ==
  /\ Authenticated(t)
  /\ moving' = moving \cup {<<t, where>>}
  /\ UNCHANGED <<tables, storing>>

(* Here the host is looked up before anything is written.                  *)
UpdateConnection(t, where, status) ==
  /\ <<t, where>> \in moving
  /\ moving' = moving \ {<<t, where>>}
  /\ address' = IF Authenticated(t) THEN [address EXCEPT ![t] = where] ELSE address
  /\ status = Status(t)
  /\ UNCHANGED <<issued, hosts, owner, storing>>

ShardDoneEnters(t, s) ==
  /\ Authenticated(t)
  /\ storing' = storing \cup {<<t, s>>}
  /\ UNCHANGED <<tables, moving>>

(* Mutant: a shard that is known already is not entered again.             *)
ShardDone_Once(t, s, status) ==
  /\ <<t, s>> \in storing
  /\ storing' = storing \ {<<t, s>>}
  /\ owner' = [owner EXCEPT ![s] = IF @ = NoToken THEN t ELSE @]
  /\ status = Status(t)
  /\ UNCHANGED <<issued, hosts, address, moving>>

(* The shard is the host's that confirmed it last, known or not.           *)
ShardDone(t, s, status) ==
  /\ <<t, s>> \in storing
  /\ storing' = storing \ {<<t, s>>}
  /\ owner' = [owner EXCEPT ![s] = t]
  /\ status = Status(t)
  /\ UNCHANGED <<issued, hosts, address, moving>>

(* What active_contracts answers a host that it knows.                     *)
ActiveContracts(t) == {s \in Shards : owner[s] = t}

(* Who is past the first look goes on.                                     *)
Reset ==
  /\ hosts' = {}
  /\ address' = [t \in Tokens |-> NoAddress]
  /\ owner' = [s \in Shards |-> NoToken]
  /\ UNCHANGED <<issued, inside>>

TablesTyped ==
  /\ issued \subseteq Tokens /\ hosts \subseteq Tokens
  /\ address \in [Tokens -> [ip : Ips, port : Ports] \cup {NoAddress}]
  /\ owner \in [Shards -> Tokens \cup {NoToken}]
  /\ moving \subseteq Tokens \X [ip : Ips, port : Ports]
  /\ storing \subseteq Tokens \X Shards
=============================================================================
