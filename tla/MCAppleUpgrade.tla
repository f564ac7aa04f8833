---------------------------- MODULE MCAppleUpgrade -----------------------------
(* Two upgrades, so that one may begin where a recovery ended.                 *)
EXTENDS AppleUpgrade, TLC

CONSTANT Nobody
===============================================================================
