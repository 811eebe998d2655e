------------------------------ MODULE MCProcess ------------------------------
(* A small instance of Process for TLC.                                     *)
EXTENDS Process

CONSTANTS i1, i2, userEventsAvro, userEventsProto
=============================================================================
