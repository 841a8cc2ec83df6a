--------------------------- MODULE MCServerStartup ---------------------------
(* Instances of ServerStartup for TLC.  Two servers, so that one starts over *)
(* the file of the other; one client; two ports to search.                   *)
EXTENDS ServerStartup
=============================================================================
