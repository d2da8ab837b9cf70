-------------------------- MODULE MCGuestfsSession --------------------------
EXTENDS GuestfsSession
=============================================================================
