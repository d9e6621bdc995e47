---------------------------- MODULE MCTcpServer ----------------------------
(* TLC instance of TcpServer: documented commands, one longer than the     *)
(* buffer, an incomplete one, an unknown one and empty lines.              *)
EXTENDS TcpServer

MCLines ==
    {<<"FAULT", "GPS_LOSS", "5000">>, <<"FAULT", "BATT_SAG", "9.5", "5000">>,
     <<"FAULT", "CLEAR", "CR">>, <<"FAULT">>, <<"CLEAR">>, <<"QUIT">>, <<"CR">>}
=============================================================================
