--------------------------- MODULE MCTextBuffers ---------------------------
(* Text buffers and images for TLC.  They share nothing, so the behaviours of *)
(* each are checked with the other at rest.                                   *)
EXTENDS TextBuffers, ImageLoading

OwnersInit == TextInit /\ ImageInit

OwnersSpec ==
    /\ OwnersInit
    /\ [][\/ TextNext /\ ImageInit /\ UNCHANGED imageVars
          \/ ImageNext /\ TextInit /\ UNCHANGED textVars]_<<textVars, imageVars>>
============================================================================
