------------------------------ MODULE MCSettings ------------------------------
(* Settings and Rendering for TLC: documents of a selection part and either  *)
(* a listener part or a section part, variables and flags, with values on    *)
(* both sides of every check and the forms older versions wrote.             *)
EXTENDS Rendering

Combined(parts1, parts2) == {a @@ b : a \in parts1, b \in parts2}

\* Without credentials, with them, with half of them, as an access list of one
\* named entry, of two, and of two that collide; hosts of every kind.
SOCKS == [type |-> "socks5", listenPort |-> 1080]
ListenerDocs ==
  {None,
   [proxyMode |-> "http", listenPort |-> 8080],
   [mode |-> "http", listenHost |-> "[::1]", proxyUsername |-> "u", proxyPassword |-> "p"],
   [listenHost |-> "127.0.0.1", proxyUsername |-> "u"],
   [access |-> <<[name |-> "main", listenHost |-> "localhost", listenPort |-> 8080,
                  username |-> "v", password |-> "q"]>>],
   [access |-> <<SOCKS, [type |-> "http", listenHost |-> "127.0.0.1", listenPort |-> 8080]>>],
   [access |-> <<SOCKS, [type |-> "http", listenHost |-> "::1", listenPort |-> 8080]>>],
   [access |-> <<SOCKS, [type |-> "http", listenPort |-> 1080]>>],
   [access |-> <<[type |-> "http"]>>], [access |-> <<[type |-> "tun", listenPort |-> 1080]>>]}
SelectionDocs ==
  {None,
   [transport |-> "masque", runtimeFamily |-> "native"],
   [backend |-> "native-masque", endpointOverride |-> "host:port"]}
SectionDocs ==
  {None,
   [dns |-> None, masque |-> None, rotation |-> None],
   [dns |-> [mode |-> "https", server |-> "s"], daemon |-> [controlSocket |-> "sock"],
    caps |-> [checks |-> <<[probe |-> "warp"]>>]],
   [rotation |-> [enabled |-> TRUE, cooldownSeconds |-> 60], masque |-> [mtu |-> 1280],
    logLevel |-> "debug"]}
MCDocuments == Combined(ListenerDocs \cup SectionDocs, SelectionDocs)

MCStandalones ==
  {None,
   [mode |-> "http", logLevel |-> "bad"],
   [access |-> <<[type |-> "http"]>>],
   [access |-> <<[type |-> "http", listenPort |-> 8080], SOCKS>>, dns |-> [mode |-> "local"]],
   [transport |-> "masque", runtimeFamily |-> "native", masque |-> [useIPv6 |-> TRUE]]}

MCEnvironments ==
  {None,
   [listenPort |-> 8443],
   [proxyMode |-> "http", mode |-> "socks5", listenHost |-> "::1"],
   [proxyUsername |-> "w", backend |-> "native-masque"],
   [transport |-> "masque", runtimeFamily |-> "native", endpointOverride |-> "bad"],
   [dns |-> [mode |-> "udp", server |-> "t"], caps |-> [checks |-> <<"gemini">>]],
   [masque |-> [mtu |-> 0], rotation |-> [enabled |-> FALSE, historySize |-> 2]]}

MCFlagSets ==
  {None,
   [listenPort |-> 0, proxyUsername |-> "", proxyPassword |-> ""],
   [mode |-> "http"],
   [proxyMode |-> "socks5", listenHost |-> "::", listenPort |-> 8081],
   [logLevel |-> "error", runtimeFamily |-> "", transport |-> ""],
   [proxyUsername |-> "x", proxyPassword |-> "y", endpointOverride |-> ""],
   [runtimeFamily |-> "legacy", transport |-> "wireguard", logLevel |-> "warn"]}

\* With both addresses and an endpoint, and as little as a registration returns.
MCAbsent == [absent |-> TRUE]

MCAssigned ==
  {[ipv4 |-> "a", ipv6 |-> "b", endpoint |-> "host:port"], [ipv4 |-> "a", ipv6 |-> "b"]}
===============================================================================
