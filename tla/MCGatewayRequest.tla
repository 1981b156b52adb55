-------------------------- MODULE MCGatewayRequest --------------------------
(* A small instance of GatewayRequest for TLC. The address that must not be used *)
(* sorts last: an answer with all three is cut before it is looked at.           *)
EXTENDS GatewayRequest

CONSTANTS web, db, shard1, shard2, foreign

MCContainers == {web, db}
MCShardHosts == {shard1, shard2}
MCForeignHosts == {foreign}
MCAddresses == {1, 2, 3}
MCPublicAddresses == {1, 2}
MCDestinations == {1, 2, 3}
MCSafeDestinations == {1, 2}
MCUnroutable == {3}
=============================================================================
