-------------------------- MODULE MCApplyDelivery --------------------------
(* ApplyDelivery for TLC.                                                  *)
EXTENDS ApplyDelivery
=============================================================================
