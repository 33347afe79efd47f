------------------------------ MODULE MCWireCodec ------------------------------
(***************************************************************************)
(* Frames that are passed on between two agents, of names of one byte, and *)
(* a broadcast: the values of the constants that a .cfg cannot write.      *)
(***************************************************************************)
EXTENDS WireCodec

MCAgentNames == {<<>>, <<1>>, <<2>>}

\* A checksum that reads as an extension without names, one that reads as a
\* name of one byte, and one that no extension begins with.
MCCrcBytes == {<<0, 0, 0, 0>>, <<1, 9, 1, 0>>, <<200, 0, 0, 1>>}

MCPatches == {-500}
=============================================================================
