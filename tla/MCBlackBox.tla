----------------------------- MODULE MCBlackBox -----------------------------
(* TLC instance of BlackBox: the loggers are interchangeable.              *)
EXTENDS BlackBox, TLC

LoggerSymmetry == Permutations(Loggers)
=============================================================================
