---------------------------- MODULE MCConnector ----------------------------
(* Constants of the model-checking runs of Connector. *)
EXTENDS Connector

MCBlocks == {1, 2}
MCLoads  == {{}, {1}}
MCFinishes == {{1}}
=============================================================================
