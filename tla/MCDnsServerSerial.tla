-------------------------- MODULE MCDnsServerSerial --------------------------
(* The instance with one update at a time; it is one of those that the      *)
(* theorems of DnsServerSerialProofs are about.                             *)
EXTENDS MCDnsServer

ASSUME SerialWorkload == OneUpdater /\ NoRemovals /\ ZonesStay
==============================================================================
