------------------------------- MODULE ConfMgr -------------------------------
(***************************************************************************)
(* app_frame::ConfMgr: the typed values of the application's configuration.*)
(* Load empties all of them and reads them again from ConfCenter, in the   *)
(* order of the sections below, under the write lock; every getter takes   *)
(* the read lock.  No GetConf of Load can fail: each gives a default.      *)
(***************************************************************************)
EXTENDS ConfCenter, TLC

VARIABLES
    conf,     \* the values of the members
    wlock,    \* rwlock_ is held by Load
    section   \* the section Load reads next

mgrVars == <<conf, wlock, section>>

Flag(value) == [kind |-> "flag", value |-> value]
Num(value) == [kind |-> "num", value |-> value]
Str == [kind |-> "str", value |-> ""]
Group == [kind |-> "group", value |-> ""]

\* The members by section, each with its kind and default.
GlobalConf ==
    [enable_cpu_profiling |-> Flag(0), enable_heap_profiling |-> Flag(0),
     release_free_mem |-> Flag(0), global_logic_so |-> Str]
WorkConf ==
    [work_thread_count |-> Num(0), work_common_logic_so |-> Str,
     work_logic_so |-> Group]
BurdenConf ==
    [burden_thread_count |-> Num(0), burden_common_logic_so |-> Str,
     burden_logic_so |-> Group]
TCPConf ==
    [tcp_conn_count_limit |-> Num(0), tcp_inactive_conn_check_interval_sec |-> Num(60),
     tcp_inactive_conn_check_interval_usec |-> Num(0), tcp_inactive_conn_life |-> Num(1800),
     tcp_storm_interval |-> Num(10), tcp_storm_threshold |-> Num(1000)]
RawTCPConf ==
    [raw_tcp_use_bufferevent |-> Flag(1), raw_tcp_addr |-> Str, raw_tcp_port |-> Num(0),
     raw_tcp_thread_count |-> Num(0), raw_tcp_common_logic_so |-> Str,
     raw_tcp_logic_so |-> Group]
ProtoTCPConf ==
    [proto_tcp_use_bufferevent |-> Flag(1), proto_do_checksum |-> Flag(1),
     proto_max_msg_body_len |-> Num(1048576), proto_part_msg_check_interval |-> Num(5),
     proto_part_msg_conn_life |-> Num(60), proto_tcp_addr |-> Str,
     proto_tcp_port |-> Num(0), proto_tcp_thread_count |-> Num(0),
     proto_tcp_common_logic_so |-> Str, proto_tcp_logic_so |-> Group]
WebConf ==
    [web_use_bufferevent |-> Flag(1), web_part_msg_check_interval |-> Num(5),
     web_part_msg_conn_life |-> Num(60), web_addr |-> Str, web_port |-> Num(0),
     web_security_port |-> Num(0), web_certificate_chain_file_path |-> Str,
     web_private_key_file_path |-> Str, web_thread_count |-> Num(0),
     web_common_logic_so |-> Str, web_logic_so |-> Group]
UDPConf ==
    [udp_inactive_conn_check_interval_sec |-> Num(60),
     udp_inactive_conn_check_interval_usec |-> Num(0), udp_inactive_conn_life |-> Num(1800),
     udp_addr |-> Str, udp_port |-> Num(0), udp_thread_count |-> Num(0),
     udp_common_logic_so |-> Str, udp_logic_so |-> Group]
PeerConf ==
    [peer_rsp_check_interval |-> Num(1), peer_proto_tcp_reconn_interval_sec |-> Num(0),
     peer_proto_tcp_reconn_interval_usec |-> Num(0), peer_proto_tcp_reconn_limit |-> Num(0),
     peer_http_conn_timeout |-> Num(0), peer_http_conn_max_retry |-> Num(0)]

Sections == <<GlobalConf, WorkConf, BurdenConf, TCPConf, RawTCPConf, ProtoTCPConf,
              WebConf, UDPConf, PeerConf>>

\* The section that reads x; the last one, if a member were read twice.
SectionOf(x) ==
    CHOOSE i \in DOMAIN Sections :
        /\ x \in DOMAIN Sections[i]
        /\ \A j \in DOMAIN Sections : j > i => x \notin DOMAIN Sections[j]

\* All members.
Members == [x \in UNION {DOMAIN Sections[i] : i \in DOMAIN Sections} |-> Sections[SectionOf(x)][x]]

\* What the members are emptied to.
Emptied(m) ==
    CASE m.kind = "flag" -> FALSE
      [] m.kind = "num" -> 0
      [] m.kind = "str" -> ""
      [] m.kind = "group" -> <<>>

Zero == [x \in DOMAIN Members |-> Emptied(Members[x])]

MgrInit == conf = Zero /\ wlock = FALSE /\ section = 1

TypeOf(m) == IF m.kind \in {"flag", "num"} THEN "i64" ELSE "str"

NonEmpty(values) == SelectSeq(values, LAMBDA s : s # "")

\* The value of member x: a number other than 0 is TRUE for a flag, and empty
\* strings are left out of a group.
Member(m, x) ==
    CASE m.kind = "flag" -> GetNumber(x, "i64", m.value) # 0
      [] m.kind = "num" -> GetNumber(x, "i64", m.value)
      [] m.kind = "str" -> GetStr(x, m.value)
      [] OTHER -> NonEmpty(GetStrGroup(x, m.value))

BeginLoadUnlocked ==
    /\ conf' = Zero /\ section' = 1 /\ wlock' = FALSE
    /\ UNCHANGED centerVars

\* Load up to its first read.
BeginLoad ==
    /\ ~wlock /\ wlock' = TRUE
    /\ conf' = Zero
    /\ section' = 1
    /\ UNCHANGED centerVars

\* The Load... functions of one section.
LoadSection ==
    LET s == Sections[section]
        of(type) == {x \in DOMAIN s : TypeOf(s[x]) = type}
    IN  /\ conf' = [x \in DOMAIN conf |-> IF x \in DOMAIN s THEN Member(s[x], x) ELSE conf[x]]
        /\ cached' = Remember(Remember(cached, of("i64"), "i64"), of("str"), "str")
        /\ section' = section + 1
        /\ wlock' = (wlock /\ section < Len(Sections))
        /\ UNCHANGED doc

\* The getters.
Readable == ~wlock
=============================================================================
