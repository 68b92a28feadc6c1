------------------------------ MODULE MCSetup ------------------------------
(* An instance of Setup for TLC: one browser, all the pages of the wizard.  *)
EXTENDS Setup

OneBrowser == {"browser"}
OneName == {"administrator"}
=============================================================================
