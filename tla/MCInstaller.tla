------------------------------ MODULE MCInstaller ------------------------------
(* The installer for TLC: Tears and MaxFaults are given in the cfg files. *)
EXTENDS Installer
================================================================================
