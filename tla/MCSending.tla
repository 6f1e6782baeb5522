----------------------------- MODULE MCSending ------------------------------
(* Sending on small instances. *)
EXTENDS Sending

MCSockets == <<"/dev/log", "/var/run/log">>
MCMails == {<<"a">>, <<"a", "b">>}
AMail == {<<"a">>}

Plain == [spec |-> "stderr", debug |-> FALSE, to_stderr |-> FALSE, node |-> "none",
          room |-> TRUE, socks |-> [p \in Range(MCSockets) |-> "missing"]]

\* Every destination at every kind of path, some of them with --debug.
Paths(kinds) == [p \in Range(MCSockets) |-> kinds[SelectInSeq(MCSockets, LAMBDA q : q = p)]]
OnSyslog(kinds) == [Plain EXCEPT !.spec = "syslog", !.socks = Paths(kinds)]
InFile(there) == [Plain EXCEPT !.spec = "file", !.node = there]
MCLogSetups ==
  {OnSyslog(<<kind, "missing">>) : kind \in SocketKinds}
    \union {OnSyslog(<<"refused", "dgram">>), OnSyslog(<<"full", "stream">>)}
    \union {InFile(there) : there \in Nodes}
    \union {[InFile("file") EXCEPT !.room = FALSE, !.debug = debug] : debug \in BOOLEAN}
    \union {[InFile("file") EXCEPT !.to_stderr = TRUE], [Plain EXCEPT !.spec = "udp"]}
    \union {[setup EXCEPT !.debug = TRUE] :
              setup \in {Plain, OnSyslog(<<"dgram", "missing">>), InFile("file")}}

AllLogs == MCLogSetups \union {Plain}

\* Every transport beside one log, every log beside one transport.
MCInstances == {<<Plain, t>> : t \in {"sendmail", "smtp", "starttls"}}
                 \union {<<log, "smtp">> : log \in MCLogSetups}

OnStderr == {Plain}
HeldInstances == {<<Plain, "sendmail">>}
=============================================================================
