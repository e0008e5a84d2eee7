-------------------------- MODULE MCUploadPipeline --------------------------
(* One instance of UploadPipeline for TLC, with two setups: one request of *)
(* three blocks, two at a time, with every fault; two requests of up to    *)
(* two blocks of known length, larger than their pipe, sharing one slot.   *)
EXTENDS UploadPipeline

CONSTANTS r1, r2

Alone == [concurrency |-> 2, fitsPipe |-> TRUE, requests |-> {r1},
          modes |-> {"known", "spool"}, blocks |-> 3,
          faulty |-> {"client", "telegram", "database"}]
Competing == [concurrency |-> 1, fitsPipe |-> FALSE, requests |-> {r1, r2},
              modes |-> {"known"}, blocks |-> 2, faulty |-> {"client"}]
MCSetup == {Alone, Competing}

============================================================================
