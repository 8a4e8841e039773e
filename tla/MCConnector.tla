----------------------------- MODULE MCConnector -----------------------------
(* Small instance of Connector for TLC: every kind of user.                *)
EXTENDS Connector

AllUsers == [patient : BOOLEAN, settings : BOOLEAN]
=============================================================================
