----------------------------- MODULE MCHmiHeartbeat ----------------------------
(* --heartbeat with sound settings, and a malformed tag with and without it. *)
EXTENDS HmiHeartbeat

MCSettings == {<<TRUE, 0>>} \cup BOOLEAN \X (1 .. HbTags)
===============================================================================
