------------------------------ MODULE MCUploads ------------------------------
(* Small instances of Uploads for TLC.                                      *)
EXTENDS Uploads
=============================================================================
