---------------------------- MODULE MCRegisterPath ----------------------------
(* An odd and an even set register, so that stores use either lane; the    *)
(* first two words of the ROM.                                             *)
EXTENDS RegisterPath

MCSetRegister == {1, 2}
MCConfig == {7}
MCWord == {1, 2}
MCOutputs == {0, 1}
MCRom == [r \in {0, 1} |-> 2 + r]
=============================================================================
