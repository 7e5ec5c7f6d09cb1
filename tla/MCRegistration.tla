---------------------------- MODULE MCRegistration ----------------------------
(***************************************************************************)
(* The host of the examples: a proxy server (http_server.py or            *)
(* rpc_server.py of examples/proxy, which run the same register / serve / *)
(* deregister code), the greeter sidecar_server.py and the greeter        *)
(* rpc_server.py that never registers, each started up to twice.          *)
(***************************************************************************)
EXTENDS Registration, TLC

CONSTANTS proxySrv, sidecarSrv, plainSrv

MCScript == (proxySrv :> "proxy") @@ (sidecarSrv :> "sidecar") @@ (plainSrv :> "plain")

=============================================================================
