------------------------------ MODULE MCAdTape ------------------------------
(* AdTape on bodies of up to three operations over two parameters.           *)
EXTENDS AdTape

TwoParams == <<2, 3>>
=============================================================================
