-------------------------------- MODULE Rendering --------------------------------
(* What becomes of resolved settings: the document sing-box is started with    *)
(* (internal/backend/singbox/renderer.go), the front ends the native process   *)
(* opens, which resolves the settings again for itself, and the listener that  *)
(* rotate and the daemon wait for and send their probes through.               *)
(*                                                                             *)
(* A listener is its type, host, port and the credentials it asks for.         *)
(* Abstracted: keys, tags and constants of the document; the account's prefix  *)
(* lengths; whether the operating system lets two listeners bind side by side. *)
EXTENDS Settings

CONSTANTS
  Assigned,   \* what the renderer reads of account.json: addresses, endpoint
  BareIPv6,   \* IPv6 addresses, which a port can be joined to but not appended to
  Bracketed,  \* IPv6 addresses in brackets: the other way round
  HostNames

\* Registration returns an IPv4 address, and an endpoint to dial if any.
ASSUME AssignedAssumption ==
  \A account \in Assigned :
    /\ "ipv4" \in DOMAIN account
    /\ "endpoint" \in DOMAIN account => account.endpoint \in Endpoints

ASSUME HostAssumption ==
  /\ {"::", "::1"} \subseteq BareIPv6 /\ "[::]" \in Bracketed
  /\ BareIPv6 \cap Bracketed = {} /\ HostNames \cap (BareIPv6 \cup Bracketed) = {}
  /\ {"0.0.0.0", "127.0.0.1"} \cap (BareIPv6 \cup Bracketed \cup HostNames) = {}

Hosts(s) == {entry.listenHost : entry \in Range(s.access)}

-----------------------------------------------------------------------------
(* sing-box                                                                    *)

ResolvePeerEndpoint(s, account) ==
  Get(s, "endpointOverride", Get(account, "endpoint", "host:port"))

\* No DNS section, no servers; a local resolver has no address.
BuildDNSConfig(dns) ==
  LET kept == CASE Get(dns, "mode", Unset) = "https" -> {"mode", "server", "serverPort", "path"}
                [] Get(dns, "mode", Unset) = "local" -> {"mode"}
                [] OTHER                          -> {"mode", "server", "serverPort"}
  IN IF "mode" \in DOMAIN dns THEN {Restrict(dns, DOMAIN dns \cap kept)} ELSE {}

\* Only the user name decides whether an inbound asks for credentials.
BuildUsers(entry) ==
  IF "username" \in DOMAIN entry
  THEN [username |-> entry.username, password |-> Get(entry, "password", Unset)]
  ELSE None

Inbound(entry) ==
  [type |-> entry.type, host |-> entry.listenHost, port |-> entry.listenPort,
   users |-> BuildUsers(entry)]

Proxies == {"socks5", "http"}

Renders(s, account) ==
  /\ ResolvePeerEndpoint(s, account) \in Endpoints
  /\ "ipv4" \in DOMAIN account
  /\ \A i \in DOMAIN s.access : s.access[i].type \in Proxies

\* sing-box, which is external, listens on addresses alone, and takes a document
\* with anything else for invalid.
Accepts(s) == Hosts(s) \cap (Bracketed \cup HostNames) = {}

SingBox(s) ==
  [inbounds |-> {Inbound(s.access[i]) : i \in DOMAIN s.access},
   servers  |-> BuildDNSConfig(Get(s, "dns", None))]

-----------------------------------------------------------------------------
(* The native process                                                          *)

\* It is started with the state directory alone: flags do not reach it, a
\* standalone file does if a variable names it.
ServiceSettings(c, standalone) == Layered(c.stored, standalone, c.env, None)

\* Credentials are asked for if there is a user name or a password.  A front end
\* that cannot listen ends the process, and so all of them.
FrontEnds(s) ==
  IF Hosts(s) \cap BareIPv6 # {} THEN {}
  ELSE {[type |-> entry.type, host |-> entry.listenHost, port |-> entry.listenPort,
         users |-> Restrict(entry, DOMAIN entry \cap Credentials)] :
          entry \in Range(s.access)}

RunsNative(s) ==
  Validate(s) /\ s.runtimeFamily = "native" /\ s.transport = "masque"

-----------------------------------------------------------------------------
(* What is waited for, and probed                                              *)

\* Mutant: the loop does not stop at the first.
LastProxyAccess(s) ==
  LET proxies == {i \in DOMAIN s.access : s.access[i].type \in Proxies}
  IN s.access[CHOOSE i \in proxies : \A j \in proxies : j <= i]

FirstProxyAccess(s) ==
  LET proxies == {i \in DOMAIN s.access : s.access[i].type \in Proxies}
  IN s.access[CHOOSE i \in proxies : \A j \in proxies : i <= j]

\* The loopback address of an unspecified one.
Local(host) ==
  CASE host \in {Unset, "0.0.0.0"} -> "127.0.0.1"
    [] host \in {"::", "[::]"}  -> "::1"
    [] OTHER                    -> host

ProbeTarget(s) ==
  LET access == FirstProxyAccess(s)
  IN [type |-> access.type, host |-> Local(access.listenHost),
      port |-> access.listenPort,
      users |-> Restrict(access, DOMAIN access \cap Credentials)]

\* waitForProxyReachable and waitForPrimaryAccess.
Awaited(s) ==
  {[host |-> s.listenHost, port |-> s.listenPort],
   [host |-> FirstProxyAccess(s).listenHost, port |-> FirstProxyAccess(s).listenPort]}

\* A dial of an unspecified address goes to the loopback one, and one of an
\* address in brackets fails, as it is put into brackets again.
Reaches(address, listener) ==
  /\ address.host \notin Bracketed
  /\ Local(address.host) = Local(listener.host) /\ address.port = listener.port

-----------------------------------------------------------------------------
(* Properties                                                                  *)

\* What the native process does not hear of: flags about what it runs or where
\* it listens, and a standalone file that a flag has named.
Unheard(c, standalone) ==
  \/ DOMAIN c.flags \cap ({"runtimeFamily", "transport", "proxyMode"} \cup ListenerFields) # {}
  \/ standalone # c.standalone

\* Settings that validate can be rendered for every account, with resolvers
\* that can be asked; and the listener that is waited for, by rotate and by the
\* daemon, is the one that is probed, and one that the backend serves in that
\* type and for those credentials.  Excepted are, for sing-box, a document it does
\* not accept, and for the native process, what it does not hear of, an IPv6
\* address without brackets in any entry, which ends it, and one with brackets in
\* the first, which nothing can dial; a log level or an endpoint that a flag put
\* right for the command stays wrong for it.
ListenersAgree ==
  Finished({"resolve"}) =>
    LET s == command.sett
        target == ProbeTarget(s)
        met(listeners) ==
          \E l \in listeners :
            /\ \A address \in Awaited(s) \cup {target} : Reaches(address, l)
            /\ target.type = l.type /\ l.users \in {None, target.users}
    IN CASE s.backend = "singbox-wireguard" ->
              /\ \A account \in Assigned : Renders(s, account)
              /\ Accepts(s) => met(SingBox(s).inbounds)
              /\ \A server \in SingBox(s).servers :
                   /\ server.mode # "local" => {"server", "serverPort"} \subseteq DOMAIN server
                   /\ server.mode = "https" => "path" \in DOMAIN server
         [] s.backend = "native-masque" ->
              \A standalone \in {NotGiven, command.standalone} :
                \/ Unheard(command, standalone)
                \/ Hosts(s) \cap BareIPv6 # {} \/ s.listenHost \in Bracketed
                \/ /\ \/ RunsNative(ServiceSettings(command, standalone))
                      \/ DOMAIN command.flags \cap {"logLevel", "endpointOverride"} # {}
                   /\ met(FrontEnds(ServiceSettings(command, standalone)))
===============================================================================
