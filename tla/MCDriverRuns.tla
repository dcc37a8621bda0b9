---------------------------- MODULE MCDriverRuns ----------------------------
(* Instances of DriverRuns for TLC.                                        *)
EXTENDS DriverRuns

CONSTANTS one, two

(* Pairs of drivers: what shares the Zenoh session or the bus is together. *)
MCSetups ==
  {[d \in {one, two} |-> IF d = one THEN p[1] ELSE p[2]] :
     p \in {<<"tcp_server", "tcp_client">>, <<"ws_server", "udp_client">>,
            <<"serial", "ws_client">>, <<"zenoh", "zenohraw">>,
            <<"fake_source", "zenoh">>, <<"tlog_reader", "fake_sink">>, <<"rest", "fake_source">>}}
=============================================================================
