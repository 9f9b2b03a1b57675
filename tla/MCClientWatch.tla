---------------------------- MODULE MCClientWatch ----------------------------
(* ClientWatch on small instances, for TLC.                                  *)
EXTENDS ClientWatch

CONSTANTS g, x

MCSubject == Client \cup Job
MCProducer == {Sweeper, Worker}
MCKind == {"suspected", "resolved", "done", "error", "cancelled"}

\* A game from a known address, or nothing from an unknown one
MCReported == {[games |-> {g}, addr |-> x], [games |-> {}, addr |-> NoAddr]}
=============================================================================
