------------------------------ MODULE MCRegisters ------------------------------
EXTENDS Registers
===============================================================================
