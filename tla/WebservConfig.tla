---------------------------- MODULE WebservConfig ----------------------------
(***************************************************************************)
(* The configuration a running server consults (src/config/WebservConfig): *)
(* the `server` blocks of the file in the order they were written, and the *)
(* choice of a block for a port and a Host header.  The parser of the file *)
(* itself is module ConfigParser.                                          *)
(***************************************************************************)
EXTENDS Integers, Sequences

CONSTANTS
  Ports,      \* port numbers that may be written after `listen`
  Hosts,      \* what a Host header can say, the missing one included
  NoHost,     \* the host of a header that was never filled in: ""
  Servers     \* serv_confs_: the sequence of [port, names] records

ASSUME PortsAssumption == Ports \subseteq Nat
ASSUME HostsAssumption == NoHost \in Hosts
ASSUME ServersAssumption ==
  Servers \in Seq([port : Ports, names : SUBSET Hosts])

\* A server block is named by its place in the file; 0 stands for a
\* ServerConfig that was default-constructed.
NoConf == 0
Confs == {NoConf} \cup DOMAIN Servers

\* ports_: what the constructor collects, one listening socket each.
ports == {Servers[i].port : i \in DOMAIN Servers}

\* The first index of a non-empty set of them: where a `for` that returns on
\* the first match stops.
First(I) == CHOOSE i \in I : \A j \in I : i <= j

OnPort(port) == {i \in DOMAIN Servers : Servers[i].port = port}
\* (mutant) the port of a block is not asked for
NamedOnAnyPort(port, host) == {i \in DOMAIN Servers : host \in Servers[i].names}
Named(port, host) == {i \in OnPort(port) : host \in Servers[i].names}

\* (mutant) the loop runs off the end of the vector
DefaultIsEnd(port) == Len(Servers) + 1

\* Throws in the code when OnPort(port) is empty.
findDefaultServerConfig(port) == First(OnPort(port))

findServerConfig(port, host) ==
  IF Named(port, host) # {} THEN First(Named(port, host))
                            ELSE findDefaultServerConfig(port)
=============================================================================
