---- MODULE MCPluginStreams ----
(* One stream of three frames beside another call, over queues of one frame. *)
EXTENDS PluginStreams
====
