------------------------------ MODULE MC_Units ------------------------------
(***************************************************************************)
(* The units the larger models rest on, each on its own: the event FIFO    *)
(* (GenericFifo), the byte FIFO of the I2C slave (I2csFifo), the arbiter   *)
(* for every number of lines up to MaxLines (EventArbiter) and the CRC of  *)
(* the boot frames (CrcUnit).  A behaviour exercises one of them; the      *)
(* registers of the others keep their reset values.                        *)
(***************************************************************************)
EXTENDS GenericFifo, I2csFifo, ArbiterUnit, CrcUnit

VARIABLE unit           \* the unit this behaviour is about

unitVars  == <<unit, vars, bytesVars, arbiterVars, frameVars>>

UnitInit == /\ unit \in {"fifo", "bytes", "arbiter", "frame"}
            /\ Init
            /\ BytesInit
            /\ ArbiterInit
            /\ unit # "arbiter" => width = 2 /\ ~grant_ack_i
            /\ FrameInit

FifoStep == /\ unit = "fifo"
            /\ Next
            /\ UNCHANGED <<unit, bytesVars, arbiterVars, frameVars>>

BytesStep == /\ unit = "bytes"
             /\ BytesNext
             /\ UNCHANGED <<unit, vars, arbiterVars, frameVars>>

ArbiterStep == /\ unit = "arbiter"
               /\ ArbiterNext
               /\ UNCHANGED <<unit, vars, bytesVars, frameVars>>

FrameStep == /\ unit = "frame"
             /\ FrameNext
             /\ UNCHANGED <<unit, vars, bytesVars, arbiterVars>>

UnitNext == FifoStep \/ BytesStep \/ ArbiterStep \/ FrameStep

UnitSpec == UnitInit /\ [][UnitNext]_unitVars
=============================================================================
