-------------------------------- MODULE Settings --------------------------------
(* How the operator's settings are resolved and stored: the layers defaults, *)
(* settings.json, a standalone settings file, CFWARP_* variables and flags   *)
(* (settings.Load), the normalisation every layer and every file goes        *)
(* through (Settings.Normalize), its JSON form (MarshalJSON, UnmarshalJSON), *)
(* and the commands that rewrite settings.json (transport set, mode set).    *)
(*                                                                           *)
(* Settings, a JSON document, the variables and the flags are partial        *)
(* functions from field names to values: a Go zero value, a nil pointer and  *)
(* an omitted JSON field are all an absent key, and so is a variable that    *)
(* does not parse, which the code passes over. An access entry and each of   *)
(* the optional sections is such a function, too, so that a section that is  *)
(* there and empty differs from none. Only a flag or a number or switch      *)
(* among the variables can hold a zero value. Names are compared in lower    *)
(* case, to which the code converts them; the schema version is constant.    *)
EXTENDS Integers, Sequences, FiniteSets, Functions

CONSTANTS
  Documents,       \* the settings.json documents an operator writes
  Standalones,     \* the documents of --settings-file
  Environments,    \* the CFWARP_* variables of a command
  FlagSets,        \* the flags given to a command
  Transports, Modes,  \* arguments of transport set and mode set
  Absent,          \* no such file
  Corrupt,         \* a file that is not JSON
  NotGiven,        \* no --settings-file
  NoCommand        \* no command runs

VARIABLES
  file,            \* settings.json
  command          \* the running command, with what it was given and resolved

vars == <<file, command>>

-----------------------------------------------------------------------------
(* Partial functions                                                         *)

None == [k \in {} |-> k]
\* As in TLC, spelt out for the provers: the left one prevails.
f @@ g == [k \in DOMAIN f \cup DOMAIN g |-> IF k \in DOMAIN f THEN f[k] ELSE g[k]]
Without(s, keys) == Restrict(s, DOMAIN s \ keys)
Get(s, k, default) == IF k \in DOMAIN s THEN s[k] ELSE default

Unset == ""              \* of a string
Numbers == {"listenPort", "serverPort", "intervalSeconds", "cooldownSeconds",
            "historySize", "maxAttempts", "settleTime", "mtu"}
Switches == {"enabled", "useIPv6", "restoreLastGood"}
IsZero(k, v) ==
  CASE k \in Numbers  -> v = 0
    [] k \in Switches -> ~v
    [] k = "checks"   -> v = <<>>
    [] OTHER          -> v = Unset

\* Assign what is given; a zero value leaves the field unset.
Assign(s, given) ==
  Restrict(given, {k \in DOMAIN given : ~IsZero(k, given[k])})
    @@ Without(s, DOMAIN given)

\* A proxy mode is a mode as well, unless the same source names a mode.
WithMode(given) ==
  IF "proxyMode" \in DOMAIN given
  THEN given @@ [mode |-> given.proxyMode] ELSE given

-----------------------------------------------------------------------------
(* The primary access entry and the legacy listener fields that mirror it    *)

LegacyField == [type |-> "mode", listenHost |-> "listenHost",
                listenPort |-> "listenPort", username |-> "proxyUsername",
                password |-> "proxyPassword"]
AccessField == [mode |-> "type", listenHost |-> "listenHost",
                listenPort |-> "listenPort", proxyUsername |-> "username",
                proxyPassword |-> "password"]
ListenerFields == DOMAIN AccessField

\* The entry the legacy fields describe, and the fields an entry sets.
AsAccess(s) ==
  [k \in {k \in DOMAIN LegacyField : LegacyField[k] \in DOMAIN s} |-> s[LegacyField[k]]]
AsLegacy(entry) ==
  [f \in {f \in ListenerFields : AccessField[f] \in DOMAIN entry} |-> entry[AccessField[f]]]

Entries(s) == Get(s, "access", <<>>)
Credentials == {"username", "password"}

\* Mutant: the list is made anew from the primary entry.
SyncPrimaryAlone(s) ==
  LET entry == IF Entries(s) = <<>> THEN None ELSE s.access[1]
  IN [access |-> <<AsAccess(s) @@ entry>>] @@ s

\* syncPrimaryAccessFromLegacy: username and password go over together.
SyncPrimaryAccess(s) ==
  LET entries == IF Entries(s) = <<>> THEN <<None>> ELSE Entries(s)
      legacy  == AsAccess(s)
      kept    == IF DOMAIN legacy \cap Credentials = {} THEN entries[1]
                 ELSE Without(entries[1], Credentials)
      typed   == legacy @@ kept @@ [type |-> "socks5"]
      primary == IF typed.type = "tun" THEN typed
                 ELSE typed @@ [listenHost |-> "0.0.0.0", listenPort |-> 1080]
  IN [access |-> [entries EXCEPT ![1] = primary]] @@ s

-----------------------------------------------------------------------------
(* Normalisation                                                             *)

DefaultSettings ==
  [runtimeFamily |-> "legacy", transport |-> "wireguard", mode |-> "socks5",
   listenHost |-> "0.0.0.0", listenPort |-> 1080, logLevel |-> "info",
   backend |-> "singbox-wireguard", proxyMode |-> "socks5"]

Selections ==
  {[runtimeFamily |-> "legacy", transport |-> "wireguard", backend |-> "singbox-wireguard"],
   [runtimeFamily |-> "native", transport |-> "masque",    backend |-> "native-masque"],
   [runtimeFamily |-> "native", transport |-> "wireguard", backend |-> "native-wireguard"]}

\* What the backend says of the family and the transport, and the other way
\* round; nothing when there is no such selection.
InferRuntimeSelection(s) ==
  IF \E sel \in Selections : Get(s, "backend", Unset) = sel.backend
  THEN CHOOSE sel \in Selections : sel.backend = s.backend
  ELSE None
DeriveBackendTag(s) ==
  LET fits(sel) == /\ Get(s, "runtimeFamily", Unset) = sel.runtimeFamily
                   /\ Get(s, "transport", Unset) = sel.transport
  IN IF \E sel \in Selections : fits(sel)
     THEN [backend |-> (CHOOSE sel \in Selections : fits(sel)).backend]
     ELSE None

\* A proxy mode other than the default wins over the mode.
ModeOf(s) ==
  LET proxyMode == Get(s, "proxyMode", Unset)
      mode == IF proxyMode \in {Unset, "socks5"} THEN Get(s, "mode", proxyMode)
              ELSE proxyMode
  IN IF mode = Unset THEN "socks5" ELSE mode

NormalCheck(check) == check @@ [timeoutSeconds |-> 15]
NormalSection(name, opts) ==
  CASE name = "caps" ->
         [k \in DOMAIN opts |->
            IF k = "checks"
            THEN [i \in DOMAIN opts.checks |-> NormalCheck(opts.checks[i])]
            ELSE opts[k]]
           @@ [intervalSeconds |-> 300]
    [] name = "dns" /\ Get(opts, "mode", Unset) = "https" ->
         opts @@ [serverPort |-> 443, path |-> "/dns-query"]
    [] name = "dns" /\ Get(opts, "mode", Unset) = "udp" ->
         opts @@ [serverPort |-> 53]
    [] name = "rotation" /\ "enabled" \in DOMAIN opts ->
         opts @@ [maxAttempts |-> 3, settleTime |-> 12,
                  distinctness |-> "either", historySize |-> 128]
    [] OTHER -> opts

SectionNames == {"masque", "caps", "dns", "rotation", "daemon"}
NormalSections(s) ==
  [k \in DOMAIN s \cap SectionNames |-> NormalSection(k, s[k])]

NormalEntry(entry) ==
  IF Get(entry, "type", Unset) = "tun" THEN entry
  ELSE entry @@ [listenHost |-> "0.0.0.0"]

\* An incomplete selection is completed from the backend.
Selected(s) == s @@ Without(InferRuntimeSelection(s), {"backend"})

MadeEntry(s) ==
  AsAccess([mode |-> ModeOf(s)] @@ s) @@ [listenHost |-> "0.0.0.0", listenPort |-> 1080]
NormalEntries(s) ==
  IF Entries(s) = <<>> THEN <<MadeEntry(s)>>
  ELSE [i \in DOMAIN s.access |-> NormalEntry(s.access[i])]

\* The primary entry prevails over the mode and the legacy fields in the end.
Normalize(s) ==
  LET selected == Selected(s)
      entries  == NormalEntries(selected)
      primary  == entries[1] @@ [type |-> ModeOf(selected)]
  IN AsLegacy(primary)
       @@ [proxyMode |-> primary.type, access |-> [entries EXCEPT ![1] = primary]]
       @@ DeriveBackendTag(selected)
       @@ NormalSections(selected)
       @@ Without(selected, ListenerFields)

-----------------------------------------------------------------------------
(* Validation: the first error of Validate is FALSE                          *)

Families == {"legacy", "native"}
LogLevels == {"debug", "info", "warn", "error"}
LastPort == 65535
Endpoints == {"host:port"}        \* stands for what ValidateEndpoint accepts
Probes == {"internet", "warp", "gemini", "chatgpt", "claude", "netflix", "youtube"}
Strategies == {"prefer_ipv4", "prefer_ipv6", "ipv4_only", "ipv6_only"}
Distinctness == {"either", "ipv4", "ipv6", "both"}

\* Entries of type tun are refused here, and so is every mode but these two.
ValidEntry(entry) ==
  /\ Get(entry, "type", Unset) \in {"socks5", "http"}
  /\ "listenHost" \in DOMAIN entry
  /\ Get(entry, "listenPort", 0) \in 1..LastPort
  /\ "username" \in DOMAIN entry <=> "password" \in DOMAIN entry
ValidAccess(entries) ==
  /\ \A i \in DOMAIN entries : ValidEntry(entries[i])
  /\ \A i, j \in DOMAIN entries :
       i # j => \/ entries[i].listenHost # entries[j].listenHost
                \/ entries[i].listenPort # entries[j].listenPort

ValidCaps(caps) ==
  /\ caps.intervalSeconds > 0
  /\ \A i \in DOMAIN Get(caps, "checks", <<>>) :
       /\ Get(caps.checks[i], "probe", Unset) \in Probes
       /\ caps.checks[i].timeoutSeconds > 0
ValidDNS(dns) ==
  /\ Get(dns, "strategy", Unset) \in Strategies \cup {Unset}
  /\ CASE Get(dns, "mode", Unset) = "local" ->
            DOMAIN dns \cap {"server", "serverPort", "path"} = {}
       [] Get(dns, "mode", Unset) = "udp" ->
            /\ "server" \in DOMAIN dns /\ "path" \notin DOMAIN dns
            /\ dns.serverPort \in 0..LastPort
       [] Get(dns, "mode", Unset) = "https" ->
            "server" \in DOMAIN dns /\ dns.serverPort \in 0..LastPort
       [] OTHER -> FALSE
ValidRotation(rotation) ==
  /\ Get(rotation, "distinctness", Unset) \in Distinctness \cup {Unset}
  /\ "enabled" \in DOMAIN rotation =>
       /\ rotation.maxAttempts > 0 /\ rotation.settleTime > 0
       /\ rotation.historySize > 0
  /\ Get(rotation, "cooldownSeconds", 0) >= 0
  /\ Get(rotation, "historySize", 0) >= 0

Validate(sett) ==
  LET s == Normalize(sett)
  IN /\ <<Get(s, "runtimeFamily", Unset), Get(s, "transport", Unset)>>
          \in {<<"legacy", "wireguard">>, <<"native", "masque">>}
     /\ Get(s, "logLevel", Unset) \in LogLevels
     /\ "endpointOverride" \in DOMAIN s => s.endpointOverride \in Endpoints
     /\ ValidAccess(s.access)
     /\ "caps" \in DOMAIN s => ValidCaps(s.caps)
     /\ "dns" \in DOMAIN s => ValidDNS(s.dns)
     /\ "rotation" \in DOMAIN s => ValidRotation(s.rotation)

-----------------------------------------------------------------------------
(* The JSON form and the layers                                              *)

\* Mutant: any single entry is taken for what the legacy fields say.
MarshalSingle(sett) ==
  LET s == Normalize(sett)
      single == IF Len(s.access) = 1 THEN {"access"} ELSE {}
  IN Without(s, {"backend", "proxyMode"} \cup single)

\* Mutant: the deprecated aliases are written with the other fields.
MarshalAliases(sett) ==
  LET s == Normalize(sett)
      empty == {k \in {"dns", "rotation", "daemon"} \cap DOMAIN s : DOMAIN s[k] = {}}
      legacyOnly == IF s.access = <<AsAccess(s)>> THEN {"access"} ELSE {}
  IN Without(s, empty \cup legacyOnly)

\* MarshalJSON: empty sections and an access list that says no more than the
\* legacy fields are left out, and so are the deprecated aliases.
Marshal(sett) ==
  LET s == Normalize(sett)
      empty == {k \in {"dns", "rotation", "daemon"} \cap DOMAIN s : DOMAIN s[k] = {}}
      legacyOnly == IF s.access = <<AsAccess(s)>> THEN {"access"} ELSE {}
  IN Without(s, {"backend", "proxyMode"} \cup empty \cup legacyOnly)

\* UnmarshalJSON: a document is laid over the defaults, and its mode and its
\* proxy mode stand for each other.
Unmarshal(doc) ==
  LET aliased == IF "mode" \in DOMAIN doc THEN doc @@ [proxyMode |-> doc.mode]
                 ELSE WithMode(doc)
  IN Normalize(aliased @@ DefaultSettings)

LoadSettingsFile(doc) == Normalize(Unmarshal(doc))

ApplyPersisted(s, persisted) == WithMode(persisted) @@ s

\* A list of probe names among the variables becomes a list of checks.
CheckOf(probe) == [probe |-> probe, rotateOnFail |-> TRUE, timeoutSeconds |-> 15]
WithChecks(given) ==
  IF "checks" \in DOMAIN given
  THEN [checks |-> [i \in DOMAIN given.checks |-> CheckOf(given.checks[i])]] @@ given
  ELSE given

\* Each section's own variables; an untouched empty MASQUE section and an empty
\* DNS section are dropped.
ApplySections(s, env) ==
  LET names == SectionNames \cap (DOMAIN s \cup DOMAIN env)
      opts == [k \in names |-> Assign(Get(s, k, None), WithChecks(Get(env, k, None)))]
      dropped == {k \in names \cap {"masque", "dns"} :
                    DOMAIN opts[k] = {} /\ (k = "masque" => k \notin DOMAIN env)}
  IN Without(opts, dropped) @@ Without(s, SectionNames)

Touches(given) == DOMAIN given \cap (ListenerFields \cup {"proxyMode"}) # {}
ApplyEnv(s, env) ==
  LET scalars  == Without(env, SectionNames)
      assigned == ApplySections(Assign(s, WithMode(scalars)), env)
  IN IF Touches(env) THEN SyncPrimaryAccess(assigned) ELSE assigned

\* Mutant: flags do not reach the access list.
ApplyLegacyOverrides(s, flags) == Assign(s, WithMode(flags))

ApplyOverrides(s, flags) ==
  LET assigned == Assign(s, WithMode(flags))
  IN IF Touches(flags) THEN SyncPrimaryAccess(assigned) ELSE assigned

Readable(doc) == doc \notin {Absent, Corrupt}

\* What Load computes before it validates, from files that can be read.
Layered(stored, standalone, env, flags) ==
  LET persisted == IF stored = Absent THEN DefaultSettings
                   ELSE ApplyPersisted(DefaultSettings, LoadSettingsFile(stored))
      overlaid == IF standalone = NotGiven THEN persisted
                  ELSE ApplyPersisted(persisted, LoadSettingsFile(standalone))
  IN Normalize(ApplyOverrides(ApplyEnv(overlaid, env), flags))

-----------------------------------------------------------------------------
(* What an operator can write                                                *)

Scalars == DOMAIN DefaultSettings \cup ListenerFields \cup {"endpointOverride"}
SettingsFields == Scalars \cup SectionNames \cup {"access"}
EntryFields == DOMAIN LegacyField \cup {"name", "mtu"}

IsRecord(f) == f = [k \in DOMAIN f |-> f[k]]
IsSequence(q) == Len(q) \in Nat /\ q \in [1..Len(q) -> Range(q)]
NoZeros(s) == \A k \in DOMAIN s : ~IsZero(k, s[k])

IsEntry(entry) == IsRecord(entry) /\ DOMAIN entry \subseteq EntryFields /\ NoZeros(entry)
IsSection(opts) == IsRecord(opts) /\ ("checks" \in DOMAIN opts => IsSequence(opts.checks))
IsSettings(s) ==
  /\ IsRecord(s) /\ DOMAIN s \subseteq SettingsFields
  /\ NoZeros(Without(s, SectionNames \cup {"access"}))
  /\ \A k \in DOMAIN s \cap SectionNames : IsSection(s[k]) /\ NoZeros(s[k])
  /\ IsSequence(Entries(s))
  /\ \A i \in DOMAIN Entries(s) : IsEntry(s.access[i])

IsEnvironment(env) ==
  /\ IsRecord(env) /\ DOMAIN env \subseteq Scalars \cup SectionNames
  /\ \A k \in DOMAIN env \ (Numbers \cup SectionNames) : ~IsZero(k, env[k])
  /\ \A k \in DOMAIN env \cap SectionNames : IsSection(env[k])
IsFlags(flags) == IsRecord(flags) /\ DOMAIN flags \subseteq Scalars

\* An absent file is no settings document: those that are written have a mode.
ASSUME SettingsAssumption ==
  /\ \A doc \in Documents \cup Standalones : IsSettings(doc)
  /\ \A env \in Environments : IsEnvironment(env)
  /\ \A flags \in FlagSets : IsFlags(flags)
  /\ "mode" \notin DOMAIN Absent

-----------------------------------------------------------------------------
(* The commands                                                              *)

Resolved(name, ok, sett, standalone, env, flags) ==
  [name |-> name, ok |-> ok, sett |-> sett, stored |-> file,
   standalone |-> standalone, env |-> env, flags |-> flags]

Init == /\ file = Absent
        /\ command = NoCommand

\* The operator writes or removes the file by hand.
WriteSettings(doc) ==
  /\ command = NoCommand
  /\ file' = doc
  /\ UNCHANGED command

\* Any command that resolves the settings. A standalone file must be there.
Resolve(standalone, env, flags) ==
  /\ command = NoCommand
  /\ IF file = Corrupt \/ ~Readable(standalone)
     THEN command' = Resolved("resolve", FALSE, None, standalone, env, flags)
     ELSE LET s == Layered(file, standalone, env, flags)
          IN command' = Resolved("resolve", Validate(s), s, standalone, env, flags)
  /\ UNCHANGED file

\* loadMutableSettings: no file is the defaults, which are not normalised.
MutableSettings == IF file = Absent THEN DefaultSettings ELSE LoadSettingsFile(file)

\* saveSettingsValidated and SaveSettings; the write may fail.
SaveValidated(name, sett) ==
  LET s == Normalize(sett)
  IN \E ok \in {FALSE, Validate(s)} :
       /\ command' = Resolved(name, ok, s, NotGiven, None, None)
       /\ file' = IF ok THEN Marshal(s) ELSE file

LoadFails(name) ==
  /\ file = Corrupt
  /\ command' = Resolved(name, FALSE, None, NotGiven, None, None)
  /\ UNCHANGED file

\* The family goes with the transport unless the command names one.
TransportSet(transport, family) ==
  /\ command = NoCommand
  /\ \/ LoadFails("transport set")
     \/ /\ file # Corrupt
        /\ LET given == CASE family # Unset           -> [runtimeFamily |-> family]
                          [] transport = "masque"    -> [runtimeFamily |-> "native"]
                          [] transport = "wireguard" -> [runtimeFamily |-> "legacy"]
                          [] OTHER                   -> None
           IN SaveValidated("transport set",
                Assign(MutableSettings, [transport |-> transport] @@ given))

\* Mutant: the access list is made anew from the legacy fields.
ModeSetAfresh(mode) ==
  /\ command = NoCommand /\ file # Corrupt
  /\ LET s == Assign(MutableSettings, [mode |-> mode, proxyMode |-> mode])
     IN SaveValidated("mode set", [access |-> <<AsAccess(s)>>] @@ s)

ModeSet(mode) ==
  /\ command = NoCommand
  /\ \/ LoadFails("mode set")
     \/ /\ file # Corrupt
        /\ LET s == Assign(MutableSettings, [mode |-> mode, proxyMode |-> mode])
               entries == IF Entries(s) = <<>> THEN <<AsAccess(s)>>
                          ELSE [s.access EXCEPT ![1] = Assign(@, [type |-> mode])]
           IN SaveValidated("mode set", [access |-> entries] @@ s)

Exit ==
  /\ command # NoCommand
  /\ command' = NoCommand
  /\ UNCHANGED file

Next ==
  \/ \E doc \in Documents \cup {Absent, Corrupt} : WriteSettings(doc)
  \/ \E standalone \in Standalones \cup {NotGiven, Absent, Corrupt},
        env \in Environments, flags \in FlagSets : Resolve(standalone, env, flags)
  \/ \E transport \in Transports, family \in Families \cup {Unset} :
       TransportSet(transport, family)
  \/ \E mode \in Modes : ModeSet(mode)
  \/ Exit

Spec == Init /\ [][Next]_vars

-----------------------------------------------------------------------------
(* Properties                                                                *)

\* Settings have known fields and a field that is there is not zero; the file
\* never holds the deprecated aliases once a command has written it.
TypeOK ==
  /\ Readable(file) => IsSettings(file)
  /\ command # NoCommand =>
       /\ IsSettings(command.sett)
       /\ command.ok => Entries(command.sett) # <<>>
       /\ command.name # "resolve" /\ command.ok =>
            DOMAIN file \cap {"backend", "proxyMode"} = {}

\* The settings of settings.json, and of the file in force, which is the
\* standalone file if one is given.
Stored(c) == IF c.stored = Absent THEN Normalize(DefaultSettings)
             ELSE LoadSettingsFile(c.stored)
InForce(c) == IF c.standalone = NotGiven THEN Stored(c)
              ELSE LoadSettingsFile(c.standalone)

Finished(names) == command # NoCommand /\ command.name \in names /\ command.ok

\* What a source states: a value of its own for the field.
States(source, k) == k \in DOMAIN source /\ ~IsZero(k, source[k])
\* The first source that states a field, or nothing.
FirstStated(sources, k) ==
  LET stating == {i \in DOMAIN sources : States(sources[i], k)}
  IN IF stating = {} THEN None
     ELSE [x \in {k} |-> sources[CHOOSE i \in stating : \A j \in stating : i <= j][k]]

\* Credentials that an earlier file leaves behind under a standalone file whose
\* listener has none: a variable or flag about the listener brings them back.
Leaking(c) ==
  /\ c.standalone # NotGiven
  /\ Touches(c.env) \/ Touches(c.flags)
  /\ ~(Credentials \subseteq DOMAIN InForce(c).access[1])

\* Precedence: a field of the selection or of the primary listener, and its
\* mirror in the access list, is what the first of flags, variables and file in
\* force says, unless a flag empties it. What a standalone file leaves open comes
\* from settings.json beneath it, an endpoint always and the address of the
\* primary listener if no source empties it, or from the defaults.
SourcesInOrder ==
  Finished({"resolve"}) =>
    LET s == command.sett
        sources == <<WithMode(command.flags), WithMode(command.env),
                     InForce(command), Restrict(Stored(command),
                       DOMAIN Stored(command) \cap {"endpointOverride"})>>
        emptied == {k \in DOMAIN command.flags : IsZero(k, command.flags[k])}
        selection == {"runtimeFamily", "transport", "logLevel", "endpointOverride"} \ emptied
        leaked == IF Leaking(command) THEN {"proxyUsername", "proxyPassword"} ELSE {}
        open == {k \in {"listenHost", "listenPort"} :
                   \A i \in DOMAIN sources : ~States(sources[i], k)}
    IN /\ \A k \in selection \cup (ListenerFields \ (leaked \cup open)) :
            Restrict(s, DOMAIN s \cap {k}) = FirstStated(sources, k)
       /\ \A k \in open : s[k] \in {Get(Stored(command), k, DefaultSettings[k]),
                                    DefaultSettings[k]}
       /\ "endpointOverride" \in emptied => "endpointOverride" \notin DOMAIN s
       /\ AsLegacy(s.access[1]) = Restrict(s, DOMAIN s \cap ListenerFields)

\* Flags and variables about the listener are about the primary one: the others,
\* its name and its MTU stay those of the file in force. A section is that of
\* the last file that has it, changed by its own variables alone.
OthersUntouched ==
  Finished({"resolve"}) =>
    LET s == command.sett
        entries == InForce(command).access
        files == IF command.standalone = NotGiven THEN {command.stored}
                 ELSE {command.standalone, command.stored}
        filed(k) == \E f \in files : Readable(f) /\ k \in DOMAIN f
        section(k) == IF command.standalone # NotGiven /\ k \in DOMAIN command.standalone
                      THEN command.standalone[k] ELSE command.stored[k]
    IN /\ Tail(s.access) = Tail(entries)
       /\ \A k \in {"name", "mtu"} :
            Get(s.access[1], k, Unset) = Get(entries[1], k, Unset)
       /\ \A k \in DOMAIN s \cap SectionNames : filed(k) \/ k \in DOMAIN command.env
       /\ \A k \in SectionNames : filed(k) =>
            \A f \in DOMAIN section(k) \ DOMAIN Get(command.env, k, None) :
              f # "checks" => s[k][f] = section(k)[f]

Trimmed(s) == Without(s, {k \in DOMAIN s \cap SectionNames : DOMAIN s[k] = {}})

\* Valid settings survive being saved: what transport set and mode set have
\* written, and what any resolution would write, is found again by a command
\* without other sources, but for sections that say nothing.
SavedIsFound ==
  Finished({"resolve", "transport set", "mode set"}) =>
    LET doc == IF command.name = "resolve" THEN Marshal(command.sett) ELSE file
        found == Layered(doc, NotGiven, None, None)
    IN Validate(found) /\ Trimmed(found) = Trimmed(command.sett)

\* A set command changes its own part of what later commands resolve: the
\* selection, or the type of the primary listener; and one that was a tun, for
\* which no address is made up, gets one.
SetChangesOnlyItsPart ==
  Finished({"transport set", "mode set"}) =>
    LET before == Layered(command.stored, NotGiven, None, None)
        after == Layered(file, NotGiven, None, None)
        address == IF before.mode = "tun" THEN {"listenHost"} ELSE {}
    IN IF command.name = "transport set"
       THEN LET part == {"runtimeFamily", "transport", "backend"}
            IN Trimmed(Without(after, part)) = Trimmed(Without(before, part))
       ELSE LET part == {"mode", "proxyMode", "access"} \cup address
            IN /\ Trimmed(Without(after, part)) = Trimmed(Without(before, part))
               /\ Tail(after.access) = Tail(before.access)
               /\ Without(after.access[1], {"type"} \cup address)
                    = Without(before.access[1], {"type"} \cup address)
===============================================================================
