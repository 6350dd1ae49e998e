---------------------------- MODULE MCEventQueue ----------------------------
(* The two bounded queues of a process for TLC: the terminal event queue and  *)
(* the native event sink.  They share nothing, so the behaviours of each are  *)
(* checked with the other at rest.                                            *)
EXTENDS EventQueue, EventSink

QueuesInit == QueueInit /\ SinkInit

QueuesSpec ==
    /\ QueuesInit
    /\ [][\/ QueueNext /\ SinkInit /\ UNCHANGED sinkVars
          \/ SinkNext /\ QueueInit /\ UNCHANGED queueVars]_<<queueVars, sinkVars>>

=============================================================================
