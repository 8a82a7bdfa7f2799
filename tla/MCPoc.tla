-------------------------------- MODULE MCPoc --------------------------------
(* Small instances of decode_poc.                                            *)
EXTENDS Poc

\* A cycle of two reference pictures, with different steps.
TwoSteps == <<4, 2>>
MinusOne == -1
=============================================================================
