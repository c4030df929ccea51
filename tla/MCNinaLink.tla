----------------------------- MODULE MCNinaLink -----------------------------
(***************************************************************************)
(* Instances of NinaLink for TLC: sets of exchanges and of reply shapes.   *)
(***************************************************************************)
EXTENDS NinaLink

Shape(lens, good) == [lens |-> lens, end |-> TRUE, good |-> good]

\* One status-like command, one with 16-bit lengths: enough to have replies with
\* the same and with another opcode.
TwoCalls == {disconnect, tcp_recv(2)}

\* A usable reply and one that is too long for either buffer.
TwoShapes == {Shape(<<1>>, TRUE), Shape(<<3>>, TRUE)}

\* One exchange for every receive function, framing and payload check, and one
\* that send_cmd_mixed refuses.
ManyCalls ==
    {disconnect, status, mac_addr, tcp_open_socket, tcp_listen, tcp_recv(8), tcp_send_chunk(64),
     tcp_start_client, ip_config, udp_remote, udp_write(247), udp_write(253)}

ManyShapes ==
    {Shape(<<>>, TRUE), Shape(<<0>>, TRUE), Shape(<<1>>, TRUE), Shape(<<1>>, FALSE),
     Shape(<<6>>, TRUE), Shape(<<9>>, TRUE), Shape(<<4, 2>>, TRUE), Shape(<<4, 4, 4>>, TRUE),
     [lens |-> <<1>>, end |-> FALSE, good |-> TRUE]}

NoFaults == {}
HostFaults == {"pin", "spi", "cancel"}
BusFaults == {"spi", "lag", "high"}
OnlyCancel == {"cancel"}

=============================================================================
