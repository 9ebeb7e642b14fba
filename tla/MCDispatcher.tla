------------------------------ MODULE MCDispatcher ------------------------------
(* The dispatcher, with every delivery going to one channel.                  *)
EXTENDS Dispatcher

CONSTANTS d1, d2, c1, w1, w2, tick, api

OneChannel == [d \in Deliveries |-> c1]
================================================================================
