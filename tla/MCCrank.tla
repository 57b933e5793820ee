-------------------------------- MODULE MCCrank --------------------------------
EXTENDS Crank, TLC
================================================================================
