------------------------------ MODULE MCMmio ------------------------------
(* Mmio with a client that keeps to one device or to the memory: no device  *)
(* reads another's state.                                                   *)
EXTENDS Mmio

VARIABLE focus

Offsets == {0, 4, 8, 12, 16}
Values == {0, 1, 2, 3, 4, 5, 7}

MCInit == MmioInit /\ focus \in Devices \cup {"memory"}
MCNext ==
  /\ \/ Manage
     \/ \E width \in DOMAIN Widths, offset \in Offsets, value \in Values :
          Write(width, focus, offset, value)
     \/ \E width \in DOMAIN Widths, address \in 0..MemorySize, value \in {1, 7, 10} :
          focus = "memory" /\ Write(width, focus, address, value)
     \/ \E offset \in Offsets : Read(focus, offset)
     \/ DumpDeviceRegisters
     \/ focus = "timer" /\ Tick
  /\ UNCHANGED focus

MCSpec ==
  /\ MCInit /\ [][MCNext]_<<mmioVars, focus>>
  /\ WF_mmioVars(PollTimer) /\ WF_mmioVars(focus = "timer" /\ Tick)
===========================================================================
