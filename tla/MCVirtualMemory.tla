--------------------------- MODULE MCVirtualMemory ---------------------------
(* Small instances of the virtual memory calls for TLC.                    *)
EXTENDS VirtualMemory

\* Free frames are interchangeable: nothing refers to one, as
\* NoStaleTranslation and FramesHaveOneOwner say.  So it is enough to explore
\* the behaviours in which the firmware hands out the lowest one.
LowestFrameFirst ==
  \A f \in ledger' \ ledger : \A g \in Frames \ ledger : f <= g

RootIsLowest == \A g \in Frames : tables[Root] <= g
=============================================================================
