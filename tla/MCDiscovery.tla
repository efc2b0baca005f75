---------------------------- MODULE MCDiscovery ----------------------------
(* Instance of Discovery for TLC: an internal nvme0, and two numbers for a  *)
(* Mini SSD that is removed and comes back while its old one is mounted.    *)
EXTENDS Discovery
=============================================================================
