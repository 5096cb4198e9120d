-------------------------- MODULE MCRadioWatchdog --------------------------
EXTENDS RadioWatchdog
=============================================================================
