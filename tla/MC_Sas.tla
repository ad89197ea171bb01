-------------------------------- MODULE MC_Sas --------------------------------
EXTENDS Sas, TLC

CONSTANTS alice1, alice2, mallory

MCCrossSigning == {alice1}

=============================================================================
