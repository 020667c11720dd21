----------------------- MODULE MCProtocolCertificates -----------------------
(***************************************************************************)
(* A small instance of the certificate life cycle for TLC.                 *)
(***************************************************************************)
EXTENDS ProtocolCertificates
=============================================================================
