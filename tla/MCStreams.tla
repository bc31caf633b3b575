------------------------------ MODULE MCStreams ------------------------------
(***************************************************************************)
(* InStream and OutStream for TLC.  A behaviour is one of one of them,     *)
(* `kind`, and nothing of the other moves in it.                           *)
(***************************************************************************)
EXTENDS InStream, OutStream

CONSTANT Kinds

VARIABLE kind

streamVars == <<kind, vars, outVars>>

MCInit == kind \in Kinds /\ Init /\ OutInit
NextIn == kind = "in" /\ Next /\ UNCHANGED <<kind, outVars>>
NextOut == kind = "out" /\ OutNext /\ UNCHANGED <<kind, vars>>
MCNext == NextIn \/ NextOut

(* The fairness of the two modules.                                        *)
MCSpec ==
  /\ MCInit /\ [][MCNext]_streamVars
  /\ WF_streamVars(Continue /\ UNCHANGED <<kind, outVars>>)
  /\ WF_streamVars(OutContinue /\ UNCHANGED <<kind, vars>>)

(* Every call of a codec returns.                                          *)
CallsReturn == ReadsReturn /\ WritesReturn
==============================================================================
