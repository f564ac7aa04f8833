----------------------------- MODULE MCPortEvents -----------------------------
(* Three tracks: with messages of two objects an event has one to open it, one *)
(* to join it, and one that makes its leave too long to be sent.               *)
EXTENDS PortEvents, TLC

MCTracks == 1..3
===============================================================================
