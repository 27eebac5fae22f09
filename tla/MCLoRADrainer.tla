---------------------------- MODULE MCLoRADrainer ----------------------------
EXTENDS LoRADrainer

CONSTANTS x, y, z
=============================================================================
