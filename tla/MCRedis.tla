------------------------------ MODULE MCRedis ------------------------------
(* Small instances of RedisRequest for TLC. *)
EXTENDS RedisRequest
=============================================================================
