---------------------------- MODULE MCReservations ----------------------------
(* Two primary remedies of one pact compete for primary_compensation.       *)
EXTENDS Reservations

CONSTANTS refund, replacement, primary_compensation

MCSlotOf == [o \in Operation |-> primary_compensation]
=============================================================================
