--------------------------- MODULE MCIpcPingpong ----------------------------
(* Small instances of IpcPingpong. *)
EXTENDS IpcPingpong
=============================================================================
