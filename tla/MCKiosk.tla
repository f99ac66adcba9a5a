------------------------------ MODULE MCKiosk ------------------------------
(* The instance TLC checks: small bounds, named in the configuration.      *)
EXTENDS KioskNavigation
=============================================================================
