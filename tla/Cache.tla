------------------------------- MODULE Cache -------------------------------
(* cache/service.py over the Redis of docker-compose.yml.  A call that fails  *)
(* is logged and answered like a miss, or like nothing done; Redis evicts     *)
(* keys when it is full and keeps none over a restart.                        *)

\* Chosen once: does every call work, and is every key kept for its time?
VARIABLE reliable

CacheInit == reliable \in BOOLEAN

\* What may happen to a call or to a key besides what is asked for.
MayFail == ~reliable

=============================================================================
