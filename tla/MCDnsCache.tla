----------------------------- MODULE MCDnsCache -----------------------------
(***************************************************************************)
(* Instance of DnsCache for TLC: one host, two callers, and two refresh    *)
(* tasks, so that a task that close() has lost sight of and the next one   *)
(* can run together.                                                       *)
(***************************************************************************)
EXTENDS DnsCache

CONSTANTS h1, c1, c2, k1, k2
=============================================================================
