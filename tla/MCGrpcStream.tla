---------------------------- MODULE MCGrpcStream ----------------------------
(* The stream for model checking; bounds in MCGrpcStream.cfg.              *)
EXTENDS GrpcStream
=============================================================================
