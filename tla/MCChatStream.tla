---------------------------- MODULE MCChatStream ----------------------------
(* One tab, two turns of its own or of others, two connections at a time. *)
EXTENDS ChatStream
============================================================================
