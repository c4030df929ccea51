------------------------------ MODULE NinaOps ------------------------------
(***************************************************************************)
(* The command exchanges of the public methods of Nina (driver.rs): what   *)
(* each sends, which receive function it calls with which buffer, and what *)
(* it makes of the payload.  A method that takes bytes from its caller is  *)
(* an operator of their number.                                            *)
(***************************************************************************)
EXTENDS NinaFrame

\* The command opcodes of proto.rs.
Opcode ==
    [SET_NET |-> 16, SET_PASSPHRASE |-> 17, SET_DNS_CONFIG |-> 21, SET_HOSTNAME |-> 22,
     SET_POWER_MODE |-> 23, SET_AP_NET |-> 24, SET_AP_PASSPHRASE |-> 25,
     GET_TEMPERATURE |-> 27, GET_REASON_CODE |-> 31, GET_CONN_STATUS |-> 32,
     GET_IPADDR |-> 33, GET_MAC_ADDR |-> 34, GET_CURR_SSID |-> 35, GET_CURR_BSSID |-> 36,
     GET_CURR_RSSI |-> 37, GET_CURR_ENCT |-> 38, SCAN_NETWORKS |-> 39,
     START_SERVER_TCP |-> 40, DATA_SENT_TCP |-> 42, AVAIL_DATA_TCP |-> 43,
     START_CLIENT_TCP |-> 45, STOP_CLIENT_TCP |-> 46, GET_CLIENT_STATE_TCP |-> 47,
     DISCONNECT |-> 48, GET_IDX_RSSI |-> 50, GET_IDX_ENCT |-> 51, REQ_HOST_BY_NAME |-> 52,
     GET_HOST_BY_NAME |-> 53, START_SCAN_NETWORKS |-> 54, GET_FW_VERSION |-> 55,
     SEND_UDP_DATA |-> 57, GET_REMOTE_DATA |-> 58, GET_IDX_BSSID |-> 60,
     GET_IDX_CHANNEL |-> 61, PING |-> 62, GET_SOCKET |-> 63, SEND_DATA_TCP |-> 68,
     GET_DATABUF_TCP |-> 69, INSERT_DATABUF |-> 70, SET_PIN_MODE |-> 80,
     SET_DIGITAL_WRITE |-> 81, SET_ANALOG_WRITE |-> 82, GET_DIGITAL_READ |-> 83,
     GET_ANALOG_READ |-> 84]

\* How a method reads the payload: "any" takes every value, "one" wants the
\* first byte to be 1, "free" refuses one reserved value (0xFF, 0xFFFF).
Values == {"any", "one", "free"}

Exchange(cmd, mixed, params, recv, out, lens, value) ==
    [cmd |-> cmd, mixed |-> mixed, params |-> params, recv |-> recv, out |-> out,
     lens |-> lens, value |-> value]

\* send_cmd and a one-byte answer whose length the method does not look at.
Get(cmd, params) == Exchange(cmd, FALSE, params, "one", 1, 0..1, "any")

\* The same for a method that wants the answer 1.
Set(cmd, params) == Exchange(cmd, FALSE, params, "one", 1, 0..1, "one")

\* A method that takes payloads of the lengths lens.
Query(cmd, params, out, lens) == Exchange(cmd, FALSE, params, "one", out, lens, "any")

-----------------------------------------------------------------------------
(* Station, access point, scan *)

connect_wpa(ssid, pass) == Get(Opcode.SET_PASSPHRASE, <<ssid, pass>>)
disconnect == Get(Opcode.DISCONNECT, <<1>>)
status == Get(Opcode.GET_CONN_STATUS, <<1>>)
start_ap_open(ssid) == Set(Opcode.SET_AP_NET, <<ssid, 1>>)
start_ap_wpa(ssid, pass) == Set(Opcode.SET_AP_PASSPHRASE, <<ssid, pass, 1>>)
scan_start == Get(Opcode.START_SCAN_NETWORKS, <<>>)
scan_results(scratch) == Exchange(Opcode.SCAN_NETWORKS, FALSE, <<>>, "into", scratch, {}, "any")
scan_rssi == Query(Opcode.GET_IDX_RSSI, <<1>>, 4, {4})
scan_enct == Get(Opcode.GET_IDX_ENCT, <<1>>)
scan_channel == Get(Opcode.GET_IDX_CHANNEL, <<1>>)
scan_bssid == Query(Opcode.GET_IDX_BSSID, <<1>>, 8, {6})

(* Chip information and configuration *)

get_fw_version(buf) == Query(Opcode.GET_FW_VERSION, <<>>, buf, 0..buf)
mac_addr == Query(Opcode.GET_MAC_ADDR, <<1>>, 8, {6})
current_ssid(buf) == Query(Opcode.GET_CURR_SSID, <<1>>, buf, 0..buf)
get_temperature == Query(Opcode.GET_TEMPERATURE, <<>>, 4, {4})
get_current_rssi == Query(Opcode.GET_CURR_RSSI, <<1>>, 4, {4})
get_current_bssid == Query(Opcode.GET_CURR_BSSID, <<1>>, 8, {6})
get_current_enct == Get(Opcode.GET_CURR_ENCT, <<1>>)
get_reason_code == Get(Opcode.GET_REASON_CODE, <<1>>)
ip_config == Exchange(Opcode.GET_IPADDR, FALSE, <<1>>, "into", 32, {}, "any")
set_hostname(name) == Set(Opcode.SET_HOSTNAME, <<name>>)
set_net_config == Set(Opcode.SET_NET, <<1, 4, 4, 4>>)
set_dns_config == Set(Opcode.SET_DNS_CONFIG, <<1, 4, 4>>)
set_power_save == Set(Opcode.SET_POWER_MODE, <<1>>)

(* GPIO of the chip *)

pin_mode == Set(Opcode.SET_PIN_MODE, <<1, 1>>)
digital_write == Set(Opcode.SET_DIGITAL_WRITE, <<1, 1>>)
analog_write == Set(Opcode.SET_ANALOG_WRITE, <<1, 1>>)
digital_read == Get(Opcode.GET_DIGITAL_READ, <<1>>)
analog_read == Query(Opcode.GET_ANALOG_READ, <<1>>, 4, {1, 2, 4})

(* IP, TCP and UDP *)

ping == Exchange(Opcode.PING, FALSE, <<4, 1>>, "one", 4, {1, 2}, "free")
dns_request(name) == Set(Opcode.REQ_HOST_BY_NAME, <<name>>)
dns_result == Query(Opcode.GET_HOST_BY_NAME, <<>>, 4, 0..4)
tcp_listen == Set(Opcode.START_SERVER_TCP, <<2, 1, 1>>)
tcp_accept == Query(Opcode.AVAIL_DATA_TCP, <<1, 1>>, 4, {1, 2})
tcp_open_socket == Exchange(Opcode.GET_SOCKET, FALSE, <<>>, "one", 1, 0..1, "free")
tcp_start_client == Exchange(Opcode.START_CLIENT_TCP, FALSE, <<4, 2, 1, 1>>, "into", 4, {}, "any")
tcp_start_client_hostname(name) ==
    Exchange(Opcode.START_CLIENT_TCP, FALSE, <<name, 4, 2, 1, 1>>, "into", 4, {}, "any")
tcp_state == Get(Opcode.GET_CLIENT_STATE_TCP, <<1>>)
tcp_avail == Query(Opcode.AVAIL_DATA_TCP, <<1>>, 4, {1, 2})
tcp_send_chunk(n) == Exchange(Opcode.SEND_DATA_TCP, TRUE, <<1, n>>, "one", 4, {1, 2}, "any")
data_sent == Get(Opcode.DATA_SENT_TCP, <<1>>)
tcp_recv(buf) == Exchange(Opcode.GET_DATABUF_TCP, TRUE, <<1, 2>>, "one16", buf, 0..buf, "any")
tcp_close == Get(Opcode.STOP_CLIENT_TCP, <<1>>)
udp_bind == Set(Opcode.START_SERVER_TCP, <<2, 1, 1>>)
udp_begin_packet == tcp_start_client
udp_write(n) == Exchange(Opcode.INSERT_DATABUF, TRUE, <<1, n>>, "one", 1, 0..1, "one")
udp_end_packet == Set(Opcode.SEND_UDP_DATA, <<1>>)
udp_remote == Exchange(Opcode.GET_REMOTE_DATA, FALSE, <<1>>, "into", 16, {}, "any")

-----------------------------------------------------------------------------
(* What a method makes of a reply it has read to the end *)

\* The three addresses ip_config takes out of the packed parameters.
ThreeV4(lens) == Len(lens) >= 3 /\ \A i \in 1..3 : lens[i] = 4

\* udp_remote: address and port.
AddrPort(lens) == Packed(1, lens) >= 8 /\ lens[1] = 4 /\ lens[2] = 2

Accepts(c, lens) ==
    CASE c.cmd = Opcode.GET_IPADDR      -> ThreeV4(lens)
      [] c.cmd = Opcode.GET_REMOTE_DATA -> AddrPort(lens)
      [] c.recv = "into" /\ c.cmd \notin {Opcode.GET_IPADDR, Opcode.GET_REMOTE_DATA} -> TRUE
      [] c.recv # "into" /\ c.cmd \notin {Opcode.GET_IPADDR, Opcode.GET_REMOTE_DATA} ->
             lens[1] \in c.lens

\* An empty payload leaves the zeroed buffer as it is: the value 0.
Decode(c, shape) ==
    IF ~shape.end \/ ~Accepts(c, shape.lens) THEN "Framing"
    ELSE IF c.value = "any" THEN "Ok"
    ELSE IF shape.lens[1] = 0 THEN (IF c.value = "one" THEN "Nina" ELSE "Ok")
    ELSE IF shape.good THEN "Ok" ELSE "Nina"

=============================================================================
