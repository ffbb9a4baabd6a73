----------------------------- MODULE SettingsLemmas -----------------------------
(* What the operators of Settings return, field by field, for every document,   *)
(* variable and flag: the lemmas of SettingsProofs.                              *)
EXTENDS Settings, TLAPS

\* The empty string is none of the names the code compares with.
LEMMA UnsetIs ==
  Unset \notin {"socks5", "http", "tun", "0.0.0.0", "either", "/dns-query", "https", "udp",
               "local", "legacy", "native", "wireguard", "masque", "info",
               "singbox-wireguard", "native-masque", "native-wireguard"}
  BY Zenon DEF Unset

\* Two settings agree about a field.
Same(s, t, k) == (k \in DOMAIN s <=> k \in DOMAIN t) /\ (k \in DOMAIN s => s[k] = t[k])

\* @@ has the fields of both; the left one prevails.
LEMMA MergeIs ==
  ASSUME NEW f, NEW g
  PROVE  /\ IsRecord(f @@ g)
         /\ DOMAIN (f @@ g) = DOMAIN f \cup DOMAIN g
         /\ \A k \in DOMAIN f : (f @@ g)[k] = f[k]
         /\ \A k \in DOMAIN g \ DOMAIN f : (f @@ g)[k] = g[k]
  BY DEF @@, IsRecord

\* Without leaves out just these fields.
LEMMA WithoutIs ==
  ASSUME NEW s, NEW keys
  PROVE  /\ IsRecord(Without(s, keys))
         /\ DOMAIN Without(s, keys) = DOMAIN s \ keys
         /\ \A k \in DOMAIN s \ keys : Without(s, keys)[k] = s[k]
  BY DEF Without, Restrict, IsRecord

\* None has no field.
LEMMA NoneIs == IsRecord(None) /\ DOMAIN None = {}
  BY DEF None, IsRecord

\* Records that agree about every field are equal.
LEMMA SameIsEqual ==
  ASSUME NEW s, NEW t, IsRecord(s), IsRecord(t), \A k : Same(s, t, k)
  PROVE  s = t
  <1>1. DOMAIN s = DOMAIN t  BY DEF Same
  <1>2. \A k \in DOMAIN s : s[k] = t[k]  BY DEF Same
  <1>3. QED  BY <1>1, <1>2 DEF IsRecord

\* Assign, field by field: a zero value removes the field.
LEMMA AssignIs ==
  ASSUME NEW s, NEW given
  PROVE  /\ IsRecord(Assign(s, given))
         /\ \A k : k \in DOMAIN Assign(s, given) <=>
              IF k \in DOMAIN given THEN ~IsZero(k, given[k]) ELSE k \in DOMAIN s
         /\ \A k \in DOMAIN Assign(s, given) :
              Assign(s, given)[k] = IF k \in DOMAIN given THEN given[k] ELSE s[k]
  BY DEF Assign, @@, Without, Restrict, IsRecord

\* Nothing given, nothing changed.
LEMMA AssignNone ==
  ASSUME NEW s, IsRecord(s)
  PROVE  Assign(s, None) = s
  BY AssignIs, NoneIs, SameIsEqual DEF Same

\* WithMode touches the mode alone, and only with a proxy mode and no mode given.
LEMMA WithModeIs ==
  ASSUME NEW given, IsRecord(given)
  PROVE  /\ IsRecord(WithMode(given))
         /\ \A k : k # "mode" => Same(WithMode(given), given, k)
         /\ "mode" \in DOMAIN WithMode(given) <=> DOMAIN given \cap {"mode", "proxyMode"} # {}
         /\ "mode" \in DOMAIN given => WithMode(given).mode = given.mode
         /\ "mode" \notin DOMAIN given /\ "proxyMode" \in DOMAIN given
              => WithMode(given).mode = given.proxyMode
  BY DEF WithMode, @@, IsRecord, Same

\* The entry of the legacy fields, field by field.
LEMMA AsAccessIs ==
  ASSUME NEW s
  PROVE  /\ IsRecord(AsAccess(s))
         /\ DOMAIN AsAccess(s) \subseteq DOMAIN LegacyField
         /\ \A k \in DOMAIN LegacyField :
              /\ k \in DOMAIN AsAccess(s) <=> LegacyField[k] \in DOMAIN s
              /\ k \in DOMAIN AsAccess(s) => AsAccess(s)[k] = s[LegacyField[k]]
  BY DEF AsAccess, IsRecord

\* The legacy fields of an entry, field by field.
LEMMA AsLegacyIs ==
  ASSUME NEW entry
  PROVE  /\ IsRecord(AsLegacy(entry))
         /\ DOMAIN AsLegacy(entry) \subseteq ListenerFields
         /\ \A f \in ListenerFields :
              /\ f \in DOMAIN AsLegacy(entry) <=> AccessField[f] \in DOMAIN entry
              /\ f \in DOMAIN AsLegacy(entry) => AsLegacy(entry)[f] = entry[AccessField[f]]
  BY DEF AsLegacy, IsRecord

\* The two name tables are each other's inverse.
LEMMA FieldsAre ==
  /\ DOMAIN LegacyField = {"type", "listenHost", "listenPort", "username", "password"}
  /\ ListenerFields = {"mode", "listenHost", "listenPort", "proxyUsername", "proxyPassword"}
  /\ \A k \in DOMAIN LegacyField : LegacyField[k] \in ListenerFields /\
         AccessField[LegacyField[k]] = k
  /\ \A f \in ListenerFields : AccessField[f] \in DOMAIN LegacyField /\
         LegacyField[AccessField[f]] = f
  BY DEF LegacyField, AccessField, ListenerFields

\* The scalar fields, spelt out.
LEMMA ScalarsAre ==
  Scalars = {"runtimeFamily", "transport", "mode", "listenHost", "listenPort", "logLevel",
             "backend", "proxyMode", "proxyUsername", "proxyPassword", "endpointOverride"}
  BY FieldsAre DEF Scalars, DefaultSettings

\* A field and the field that mirrors it are zero alike.
LEMMA MirrorZero ==
  ASSUME NEW f \in ListenerFields, NEW v
  PROVE  IsZero(f, v) <=> IsZero(AccessField[f], v)
  BY FieldsAre DEF IsZero, Numbers, Switches, AccessField, ListenerFields

-----------------------------------------------------------------------------
(* The pieces of Normalize *)

Backends == {"singbox-wireguard", "native-masque", "native-wireguard"}

\* A selection names a family, a transport and a backend.
LEMMA SelectionIs ==
  ASSUME NEW sel \in Selections
  PROVE  /\ IsRecord(sel) /\ DOMAIN sel = {"runtimeFamily", "transport", "backend"}
         /\ sel.runtimeFamily # Unset /\ sel.transport # Unset
         /\ sel.backend # Unset /\ sel.backend \in Backends
  <1>1. /\ DOMAIN sel = {"runtimeFamily", "transport", "backend"}
        /\ sel.backend # Unset /\ sel.backend \in Backends
    <2>1. DOMAIN sel = {"runtimeFamily", "transport", "backend"}
      BY DEF Selections
    <2>2. sel.backend \in Backends
      BY DEF Selections, Backends
    <2>3. QED
      BY UnsetIs, <2>1, <2>2 DEF Backends
  <1>a. sel.runtimeFamily \in Families /\ sel.transport \in {"wireguard", "masque"}
    <2>1. sel.runtimeFamily \in Families
      BY DEF Selections, Families
    <2>2. sel.transport \in {"wireguard", "masque"}
      BY DEF Selections
    <2>3. QED
      BY <2>1, <2>2
  <1>b. sel.runtimeFamily # Unset /\ sel.transport # Unset
    BY UnsetIs, <1>a DEF Families
  <1>2. PICK x, y, z : sel = [runtimeFamily |-> x, transport |-> y, backend |-> z]
    BY DEF Selections
  <1>3. IsRecord(sel)
    BY <1>2 DEF IsRecord
  <1>4. QED
    BY <1>1, <1>a, <1>b, <1>3

\* What a backend implies has those three fields, or none.
LEMMA InferIs ==
  ASSUME NEW s
  PROVE  /\ IsRecord(InferRuntimeSelection(s))
         /\ DOMAIN InferRuntimeSelection(s) =
              IF Get(s, "backend", Unset) \in Backends
              THEN {"runtimeFamily", "transport", "backend"} ELSE {}
         /\ \A k \in DOMAIN InferRuntimeSelection(s) : ~IsZero(k, InferRuntimeSelection(s)[k])
  <1>1. CASE Get(s, "backend", Unset) \in Backends
    <2>1. PICK sel \in Selections : sel.backend = Get(s, "backend", Unset)
      BY <1>1 DEF Backends, Selections
    <2>2. "backend" \in DOMAIN s /\ sel.backend = s.backend
      BY <2>1, SelectionIs DEF Get
    <2>3. InferRuntimeSelection(s) = (CHOOSE x \in Selections : x.backend = s.backend)
      BY <2>1 DEF InferRuntimeSelection
    <2>4. InferRuntimeSelection(s) \in Selections
      BY <2>2, <2>3
    <2>5. \A k \in {"runtimeFamily", "transport", "backend"} : \A v : IsZero(k, v) => v = Unset
      BY DEF IsZero, Numbers, Switches
    <2>6. QED
      BY <1>1, <2>4, <2>5, SelectionIs
  <1>2. CASE Get(s, "backend", Unset) \notin Backends
    <2>1. InferRuntimeSelection(s) = None
      BY <1>2, SelectionIs DEF InferRuntimeSelection
    <2>2. QED
      BY <1>2, <2>1, NoneIs
  <1>3. QED
    BY <1>1, <1>2

\* A derived backend is one of the three.
LEMMA DeriveIs ==
  ASSUME NEW s
  PROVE  /\ IsRecord(DeriveBackendTag(s))
         /\ DOMAIN DeriveBackendTag(s) \subseteq {"backend"}
         /\ "backend" \in DOMAIN DeriveBackendTag(s)
              => /\ DeriveBackendTag(s).backend \in Backends
                 /\ DeriveBackendTag(s) = [backend |-> DeriveBackendTag(s).backend]
                 /\ {"runtimeFamily", "transport"} \subseteq DOMAIN s
  <1> DEFINE fits(sel) == /\ Get(s, "runtimeFamily", Unset) = sel.runtimeFamily
                          /\ Get(s, "transport", Unset) = sel.transport
  <1>1. CASE \E sel \in Selections : fits(sel)
    <2>1. PICK sel \in Selections : sel = (CHOOSE x \in Selections : fits(x)) /\ fits(sel)
      BY <1>1
    <2>2. DeriveBackendTag(s) = [backend |-> sel.backend]
      BY <1>1, <2>1 DEF DeriveBackendTag
    <2>3. {"runtimeFamily", "transport"} \subseteq DOMAIN s
      BY <2>1, SelectionIs DEF Get
    <2>4. /\ DOMAIN DeriveBackendTag(s) = {"backend"}
          /\ DeriveBackendTag(s).backend = sel.backend
          /\ IsRecord(DeriveBackendTag(s))
      BY <2>2 DEF IsRecord
    <2>5. QED
      BY <2>2, <2>3, <2>4, SelectionIs
  <1>2. CASE ~ \E sel \in Selections : fits(sel)
    <2>1. DeriveBackendTag(s) = None
      BY <1>2 DEF DeriveBackendTag
    <2>2. QED
      BY <2>1, NoneIs
  <1>3. QED
    BY <1>1, <1>2

\* The derived backend depends on family and transport alone.
LEMMA DeriveSame ==
  ASSUME NEW s, NEW t, Same(s, t, "runtimeFamily"), Same(s, t, "transport")
  PROVE  DeriveBackendTag(s) = DeriveBackendTag(t)
  <1>1. /\ Get(s, "runtimeFamily", Unset) = Get(t, "runtimeFamily", Unset)
        /\ Get(s, "transport", Unset) = Get(t, "transport", Unset)
    BY DEF Same, Get
  <1>2. QED
    BY <1>1 DEF DeriveBackendTag

\* Selected adds to family and transport alone, and overwrites nothing.
LEMMA SelectedIs ==
  ASSUME NEW s
  PROVE  /\ IsRecord(Selected(s))
         /\ \A k : k \notin {"runtimeFamily", "transport"} => Same(Selected(s), s, k)
         /\ \A k \in DOMAIN s : k \in DOMAIN Selected(s) /\ Selected(s)[k] = s[k]
         /\ Get(s, "backend", Unset) \in Backends
              => {"runtimeFamily", "transport"} \subseteq DOMAIN Selected(s)
         /\ \A k \in DOMAIN Selected(s) \ DOMAIN s : ~IsZero(k, Selected(s)[k])
  <1> DEFINE inferred == Without(InferRuntimeSelection(s), {"backend"})
  <1>1. /\ DOMAIN inferred = DOMAIN InferRuntimeSelection(s) \ {"backend"}
        /\ \A k \in DOMAIN inferred : inferred[k] = InferRuntimeSelection(s)[k]
    BY DEF Without, Restrict
  <1>a. /\ DOMAIN inferred \subseteq {"runtimeFamily", "transport"}
        /\ Get(s, "backend", Unset) \in Backends
             => {"runtimeFamily", "transport"} \subseteq DOMAIN inferred
        /\ \A k \in DOMAIN inferred : ~IsZero(k, inferred[k])
    BY <1>1, InferIs
  <1>2. Selected(s) = s @@ inferred
    BY DEF Selected
  <1> HIDE DEF inferred
  <1>3. QED
    BY <1>a, <1>2 DEF Same, @@, IsRecord

\* A complete selection is left as it is.
LEMMA SelectedAlready ==
  ASSUME NEW s, IsRecord(s),
         Get(s, "backend", Unset) \in Backends
           => {"runtimeFamily", "transport"} \subseteq DOMAIN s
  PROVE  Selected(s) = s
  <1> DEFINE inferred == Without(InferRuntimeSelection(s), {"backend"})
  <1>0. DOMAIN inferred = DOMAIN InferRuntimeSelection(s) \ {"backend"}
    BY DEF Without, Restrict
  <1>1. DOMAIN inferred \subseteq DOMAIN s
    BY <1>0, InferIs
  <1>2. s @@ inferred = s
    BY <1>1 DEF @@, IsRecord
  <1>3. QED
    BY <1>2 DEF Selected

-----------------------------------------------------------------------------
(* Normalize, field by field *)

Settled == {"logLevel", "endpointOverride"}
Selecting == {"runtimeFamily", "transport"}

\* The kinds of fields make up all of them and do not overlap.
LEMMA NamesAreApart ==
  /\ SettingsFields = ListenerFields \cup SectionNames \cup Settled
                        \cup Selecting \cup {"access", "proxyMode", "backend"}
  /\ ListenerFields \cap (SectionNames \cup Settled \cup
        Selecting \cup {"access", "proxyMode", "backend"}) = {}
  /\ SectionNames \cap (Settled \cup
        Selecting \cup {"access", "proxyMode", "backend"}) = {}
  BY ScalarsAre, FieldsAre DEF SettingsFields, SectionNames, Settled, Selecting

\* The list Normalize works on is never empty.
LEMMA NormalEntriesAre ==
  ASSUME NEW s, IsSequence(Entries(s))
  PROVE  /\ IsSequence(NormalEntries(s))
         /\ 1 \in DOMAIN NormalEntries(s)
         /\ Entries(s) = <<>> => NormalEntries(s) = <<MadeEntry(s)>>
         /\ Entries(s) # <<>> => /\ "access" \in DOMAIN s
                                /\ DOMAIN NormalEntries(s) = DOMAIN s.access
                                /\ \A i \in DOMAIN s.access :
                                     NormalEntries(s)[i] = NormalEntry(s.access[i])
  <1>1. CASE Entries(s) = <<>>
    <2>1. NormalEntries(s) = <<MadeEntry(s)>>
      BY <1>1 DEF NormalEntries
    <2>2. QED
      BY <1>1, <2>1 DEF IsSequence, Range
  <1>2. CASE Entries(s) # <<>>
    <2>1. "access" \in DOMAIN s /\ Entries(s) = s.access
      BY <1>2 DEF Entries, Get
    <2>2. NormalEntries(s) = [i \in DOMAIN s.access |-> NormalEntry(s.access[i])]
      BY <1>2 DEF NormalEntries
    <2>3. /\ s.access \in Seq(Range(s.access)) /\ DOMAIN s.access = 1..Len(s.access)
          /\ Len(s.access) \in Nat /\ Len(s.access) # 0
      BY <1>2, <2>1 DEF IsSequence
    <2>4. NormalEntries(s) \in Seq(Range(NormalEntries(s)))
      BY <2>2, <2>3 DEF Range
    <2>5. QED
      BY <1>2, <2>1, <2>2, <2>3, <2>4 DEF IsSequence
  <1>3. QED
    BY <1>1, <1>2

Primary(s) == NormalEntries(Selected(s))[1] @@ [type |-> ModeOf(Selected(s))]
NormalAccess(s) == [NormalEntries(Selected(s)) EXCEPT ![1] = Primary(s)]

\* The primary entry is the first one, with a type.
LEMMA PrimaryIs ==
  ASSUME NEW s
  PROVE  /\ IsRecord(Primary(s)) /\ "type" \in DOMAIN Primary(s)
         /\ DOMAIN Primary(s) = DOMAIN NormalEntries(Selected(s))[1] \cup {"type"}
         /\ \A k \in DOMAIN NormalEntries(Selected(s))[1] :
              Primary(s)[k] = NormalEntries(Selected(s))[1][k]
         /\ "type" \notin DOMAIN NormalEntries(Selected(s))[1]
              => Primary(s).type = ModeOf(Selected(s))
  BY DEF Primary, @@, IsRecord

\* Normalize, field by field.
LEMMA NormalizeIs ==
  ASSUME NEW s
  PROVE  LET n == Normalize(s)
             derived == DeriveBackendTag(Selected(s))
         IN /\ IsRecord(n)
            /\ "access" \in DOMAIN n /\ n.access = NormalAccess(s)
            /\ \A f \in ListenerFields :
                 /\ f \in DOMAIN n <=> AccessField[f] \in DOMAIN Primary(s)
                 /\ f \in DOMAIN n => n[f] = Primary(s)[AccessField[f]]
            /\ "proxyMode" \in DOMAIN n /\ n.proxyMode = Primary(s).type
            /\ "backend" \in DOMAIN derived
                 => "backend" \in DOMAIN n /\ n.backend = derived.backend
            /\ "backend" \notin DOMAIN derived => Same(n, s, "backend")
            /\ \A k \in SectionNames :
                 /\ k \in DOMAIN n <=> k \in DOMAIN s
                 /\ k \in DOMAIN n => n[k] = NormalSection(k, s[k])
            /\ \A k \in Selecting : Same(n, Selected(s), k)
            /\ \A k : k \notin ListenerFields \cup SectionNames \cup Selecting
                            \cup {"access", "proxyMode", "backend"} => Same(n, s, k)
  <1> DEFINE a == AsLegacy(Primary(s))
             b == [proxyMode |-> Primary(s).type, access |-> NormalAccess(s)]
             c == DeriveBackendTag(Selected(s))
             d == NormalSections(Selected(s))
             e == Without(Selected(s), ListenerFields)
             n == Normalize(s)
  <1>1. n = a @@ b @@ c @@ d @@ e
    BY DEF Normalize, Primary, NormalAccess
  <1>2. /\ IsRecord(n)
        /\ DOMAIN n = DOMAIN a \cup DOMAIN b \cup DOMAIN c \cup DOMAIN d \cup DOMAIN e
        /\ \A k \in DOMAIN n :
             n[k] = IF k \in DOMAIN a THEN a[k] ELSE IF k \in DOMAIN b THEN b[k]
                    ELSE IF k \in DOMAIN c THEN c[k] ELSE IF k \in DOMAIN d THEN d[k] ELSE e[k]
    <2> HIDE DEF a, b, c, d, e, n
    <2>1. QED
      BY <1>1 DEF @@, IsRecord
  <1>3. /\ DOMAIN a \subseteq ListenerFields
        /\ \A f \in ListenerFields :
              /\ f \in DOMAIN a <=> AccessField[f] \in DOMAIN Primary(s)
              /\ f \in DOMAIN a => a[f] = Primary(s)[AccessField[f]]
    BY AsLegacyIs
  <1>4. /\ DOMAIN b = {"proxyMode", "access"}
        /\ b.proxyMode = Primary(s).type /\ b.access = NormalAccess(s)
    OBVIOUS
  <1>5. DOMAIN c \subseteq {"backend"}
    BY DeriveIs
  <1>6. /\ \A k \in SectionNames : k \in DOMAIN d <=> k \in DOMAIN s
        /\ DOMAIN d \subseteq SectionNames
        /\ \A k \in DOMAIN d : d[k] = NormalSection(k, s[k])
    <2>1. \A k \in SectionNames : Same(Selected(s), s, k)
      BY SelectedIs, NamesAreApart DEF Selecting
    <2>2. /\ DOMAIN d = DOMAIN Selected(s) \cap SectionNames
          /\ \A k \in DOMAIN d : d[k] = NormalSection(k, Selected(s)[k])
      BY DEF NormalSections
    <2>3. QED
      BY <2>1, <2>2 DEF Same
  <1>7. /\ DOMAIN e = DOMAIN Selected(s) \ ListenerFields
        /\ \A k \in DOMAIN e : e[k] = Selected(s)[k]
    BY DEF Without, Restrict
  <1>8. \A k : k \notin Selecting => Same(Selected(s), s, k)
    BY SelectedIs DEF Selecting
  <1> HIDE DEF a, b, c, d, e, n
  <1>9. \A f \in ListenerFields :
          /\ f \in DOMAIN n <=> AccessField[f] \in DOMAIN Primary(s)
          /\ f \in DOMAIN n => n[f] = Primary(s)[AccessField[f]]
    BY <1>2, <1>3, <1>4, <1>5, <1>6, <1>7, NamesAreApart
  <1>10. /\ "access" \in DOMAIN n /\ n.access = NormalAccess(s)
         /\ "proxyMode" \in DOMAIN n /\ n.proxyMode = Primary(s).type
    BY <1>2, <1>3, <1>4, NamesAreApart
  <1>11. /\ "backend" \in DOMAIN c => "backend" \in DOMAIN n /\ n.backend = c.backend
         /\ "backend" \notin DOMAIN c => Same(n, s, "backend")
    BY <1>2, <1>3, <1>4, <1>6, <1>7, <1>8, NamesAreApart DEF Same, Selecting
  <1>12. \A k \in SectionNames :
           /\ k \in DOMAIN n <=> k \in DOMAIN s
           /\ k \in DOMAIN n => n[k] = NormalSection(k, s[k])
    BY <1>2, <1>3, <1>4, <1>5, <1>6, <1>7, <1>8, NamesAreApart DEF Same
  <1>13. \A k \in Selecting : Same(n, Selected(s), k)
    BY <1>2, <1>3, <1>4, <1>5, <1>6, <1>7, NamesAreApart DEF Same, Selecting
  <1>14. \A k : k \notin ListenerFields \cup SectionNames \cup Selecting
                            \cup {"access", "proxyMode", "backend"} => Same(n, s, k)
    BY <1>2, <1>3, <1>4, <1>5, <1>6, <1>7, <1>8 DEF Same
  <1>15. QED
    BY <1>2, <1>9, <1>10, <1>11, <1>12, <1>13, <1>14 DEF c, n

-----------------------------------------------------------------------------
(* Sections *)

\* What counts as zero, by the kind of field.
LEMMA ZeroIs ==
  ASSUME NEW k, NEW v
  PROVE  /\ k \in Numbers => (IsZero(k, v) <=> v = 0)
         /\ k = "checks" => (IsZero(k, v) <=> v = <<>>)
         /\ k \notin Numbers \cup Switches \cup {"checks"} => (IsZero(k, v) <=> v = Unset)
  BY DEF IsZero, Numbers, Switches

\* Defaults laid beneath twice are laid beneath once.
LEMMA MergeTwice ==
  ASSUME NEW f, NEW g
  PROVE  (f @@ g) @@ g = f @@ g
  BY DEF @@

HTTPS == [serverPort |-> 443, path |-> "/dns-query"]
UDP == [serverPort |-> 53]
Rotates == [maxAttempts |-> 3, settleTime |-> 12, distinctness |-> "either", historySize |-> 128]
NormalChecks(opts) ==
  [k \in DOMAIN opts |->
     IF k = "checks" THEN [i \in DOMAIN opts.checks |-> NormalCheck(opts.checks[i])]
     ELSE opts[k]]

\* The defaults of the sections are no zero values.
LEMMA GivenAre ==
  /\ DOMAIN HTTPS = {"serverPort", "path"} /\ \A k \in DOMAIN HTTPS : ~IsZero(k, HTTPS[k])
  /\ DOMAIN UDP = {"serverPort"} /\ \A k \in DOMAIN UDP : ~IsZero(k, UDP[k])
  /\ DOMAIN Rotates = {"maxAttempts", "settleTime", "distinctness", "historySize"}
  /\ \A k \in DOMAIN Rotates : ~IsZero(k, Rotates[k])
  /\ ~IsZero("intervalSeconds", 300)
  <1>1. DOMAIN HTTPS = {"serverPort", "path"} /\ HTTPS.serverPort = 443 /\ HTTPS.path = "/dns-query"
    BY DEF HTTPS
  <1>2. DOMAIN UDP = {"serverPort"} /\ UDP.serverPort = 53
    BY DEF UDP
  <1>3. /\ DOMAIN Rotates = {"maxAttempts", "settleTime", "distinctness", "historySize"}
        /\ Rotates.maxAttempts = 3 /\ Rotates.settleTime = 12
        /\ Rotates.distinctness = "either" /\ Rotates.historySize = 128
    BY DEF Rotates
  <1>4. /\ \A v : IsZero("serverPort", v) => v = 0
        /\ \A v : IsZero("maxAttempts", v) => v = 0
        /\ \A v : IsZero("settleTime", v) => v = 0
        /\ \A v : IsZero("historySize", v) => v = 0
        /\ \A v : IsZero("intervalSeconds", v) => v = 0
    BY ZeroIs DEF Numbers
  <1>5. /\ \A v : IsZero("path", v) => v = Unset
        /\ \A v : IsZero("distinctness", v) => v = Unset
    BY ZeroIs DEF Numbers, Switches
  <1>6. \A k \in DOMAIN HTTPS : ~IsZero(k, HTTPS[k])
    BY UnsetIs, <1>1, <1>4, <1>5
  <1>7. \A k \in DOMAIN UDP : ~IsZero(k, UDP[k])
    BY <1>2, <1>4
  <1>8. \A k \in DOMAIN Rotates : ~IsZero(k, Rotates[k])
    BY UnsetIs, <1>3, <1>4, <1>5
  <1>9. ~IsZero("intervalSeconds", 300)
    BY <1>4
  <1>10. QED
    BY <1>1, <1>2, <1>3, <1>6, <1>7, <1>8, <1>9

\* Normalising a section, by its name.
LEMMA NormalSectionIs ==
  ASSUME NEW opts
  PROVE  /\ NormalSection("caps", opts) = NormalChecks(opts) @@ [intervalSeconds |-> 300]
         /\ NormalSection("dns", opts) = CASE Get(opts, "mode", Unset) = "https" -> opts @@ HTTPS
                                           [] Get(opts, "mode", Unset) = "udp" -> opts @@ UDP
                                           [] OTHER -> opts
         /\ NormalSection("rotation", opts) = IF "enabled" \in DOMAIN opts
                                              THEN opts @@ Rotates ELSE opts
         /\ NormalSection("masque", opts) = opts
         /\ NormalSection("daemon", opts) = opts
  BY DEF NormalSection, NormalChecks, HTTPS, UDP, Rotates

\* The ways a section comes out of its normalisation.
Forms(name, opts) ==
  LET normal == NormalSection(name, opts)
  IN \/ name = "caps" /\ normal = NormalChecks(opts) @@ [intervalSeconds |-> 300]
     \/ name # "caps" /\ normal = opts
     \/ name = "dns" /\ Get(opts, "mode", Unset) = "https" /\ normal = opts @@ HTTPS
     \/ name = "dns" /\ Get(opts, "mode", Unset) = "udp" /\ normal = opts @@ UDP
     \/ name = "rotation" /\ "enabled" \in DOMAIN opts /\ normal = opts @@ Rotates

\* Normalising a section is one of these two forms.
LEMMA NormalSectionForms ==
  ASSUME NEW name \in SectionNames, NEW opts
  PROVE  Forms(name, opts)
  <1>1. CASE name = "caps"
    BY <1>1, NormalSectionIs DEF Forms
  <1>2. CASE name = "dns"
    <2>1. NormalSection("dns", opts) = CASE Get(opts, "mode", Unset) = "https" -> opts @@ HTTPS
                                         [] Get(opts, "mode", Unset) = "udp" -> opts @@ UDP
                                         [] OTHER -> opts
      BY NormalSectionIs
    <2>2. QED
      BY <1>2, <2>1 DEF Forms
  <1>3. CASE name = "rotation"
    BY <1>3, NormalSectionIs DEF Forms
  <1>4. CASE name = "masque"
    BY <1>4, NormalSectionIs DEF Forms
  <1>5. CASE name = "daemon"
    BY <1>5, NormalSectionIs DEF Forms
  <1>6. QED
    BY <1>1, <1>2, <1>3, <1>4, <1>5 DEF SectionNames

\* A normal section keeps what was written, but for the form of the checks.
LEMMA NormalSectionKeeps ==
  ASSUME NEW name \in SectionNames, NEW opts
  PROVE  /\ DOMAIN opts \subseteq DOMAIN NormalSection(name, opts)
         /\ \A k \in DOMAIN opts : k # "checks" => NormalSection(name, opts)[k] = opts[k]
         /\ name = "caps" => "intervalSeconds" \in DOMAIN NormalSection(name, opts)
         /\ name # "caps" /\ DOMAIN opts = {} => DOMAIN NormalSection(name, opts) = {}
         /\ IsRecord(opts) => IsRecord(NormalSection(name, opts))
  <1> DEFINE normal == NormalSection(name, opts)
  <1>1. CASE name = "caps" /\ normal = NormalChecks(opts) @@ [intervalSeconds |-> 300]
    BY <1>1 DEF NormalChecks, @@, IsRecord
  <1>2. CASE name # "caps" /\ normal = opts
    BY <1>2
  <1>3. CASE name = "dns" /\ Get(opts, "mode", Unset) = "https" /\ normal = opts @@ HTTPS
    BY UnsetIs, <1>3 DEF @@, IsRecord, Get
  <1>4. CASE name = "dns" /\ Get(opts, "mode", Unset) = "udp" /\ normal = opts @@ UDP
    BY UnsetIs, <1>4 DEF @@, IsRecord, Get
  <1>5. CASE name = "rotation" /\ "enabled" \in DOMAIN opts /\ normal = opts @@ Rotates
    BY <1>5 DEF @@, IsRecord, Get
  <1>6. Forms(name, opts)
    BY NormalSectionForms
  <1>7. QED
    BY <1>1, <1>2, <1>3, <1>4, <1>5, <1>6 DEF Forms

\* A normal section is a section, without zero values.
LEMMA NormalSectionTyped ==
  ASSUME NEW name \in SectionNames, NEW opts, IsSection(opts), NoZeros(opts)
  PROVE  IsSection(NormalSection(name, opts)) /\ NoZeros(NormalSection(name, opts))
  <1> DEFINE normal == NormalSection(name, opts)
  <1>0. IsRecord(normal)
    BY NormalSectionKeeps DEF IsSection
  <1>1. CASE name = "caps" /\ normal = NormalChecks(opts) @@ [intervalSeconds |-> 300]
    <2>1. CASE "checks" \in DOMAIN opts
      <3>1. opts.checks \in Seq(Range(opts.checks)) /\ opts.checks # <<>>
        BY <2>1, ZeroIs DEF IsSection, NoZeros, IsSequence
      <3>2. normal.checks = [i \in DOMAIN opts.checks |-> NormalCheck(opts.checks[i])]
        BY <1>1, <2>1 DEF @@, NormalChecks
      <3>3. DOMAIN opts.checks = 1..Len(opts.checks) /\ Len(opts.checks) \in Nat \ {0}
        BY <3>1
      <3>4. normal.checks \in Seq(Range(normal.checks)) /\ normal.checks # <<>>
        BY <3>2, <3>3 DEF Range
      <3>5. \A k \in DOMAIN normal : k # "checks" => ~IsZero(k, normal[k])
        BY <1>1, GivenAre DEF @@, NormalChecks, NoZeros
      <3>6. QED
        BY <1>0, <3>4, <3>5, ZeroIs DEF IsSection, IsSequence, NoZeros
    <2>2. CASE "checks" \notin DOMAIN opts
      <3>1. "checks" \notin DOMAIN normal
        BY <1>1, <2>2 DEF @@, NormalChecks
      <3>2. \A k \in DOMAIN normal : ~IsZero(k, normal[k])
        BY <1>1, <2>2, GivenAre DEF @@, NormalChecks, NoZeros
      <3>3. QED
        BY <1>0, <3>1, <3>2 DEF IsSection, NoZeros
    <2>3. QED
      BY <2>1, <2>2
  <1>2. CASE name # "caps" /\ normal = opts
    BY <1>2
  <1>3. CASE name = "dns" /\ Get(opts, "mode", Unset) = "https" /\ normal = opts @@ HTTPS
    BY <1>0, <1>3, GivenAre DEF @@, IsSection, NoZeros
  <1>4. CASE name = "dns" /\ Get(opts, "mode", Unset) = "udp" /\ normal = opts @@ UDP
    BY <1>0, <1>4, GivenAre DEF @@, IsSection, NoZeros
  <1>5. CASE name = "rotation" /\ "enabled" \in DOMAIN opts /\ normal = opts @@ Rotates
    BY <1>0, <1>5, GivenAre DEF @@, IsSection, NoZeros
  <1>6. Forms(name, opts)
    BY NormalSectionForms
  <1>7. QED
    BY <1>1, <1>2, <1>3, <1>4, <1>5, <1>6 DEF Forms

\* Normalising a section twice is normalising it once.
LEMMA NormalSectionTwice ==
  ASSUME NEW name \in SectionNames, NEW opts, IsSection(opts)
  PROVE  NormalSection(name, NormalSection(name, opts)) = NormalSection(name, opts)
  <1> DEFINE normal == NormalSection(name, opts)
  <1>1. CASE name = "caps"
    <2>1. /\ normal = NormalChecks(opts) @@ [intervalSeconds |-> 300]
          /\ NormalSection("caps", normal) = NormalChecks(normal) @@ [intervalSeconds |-> 300]
      BY <1>1, NormalSectionIs
    <2>2. NormalChecks(normal) = normal
      <3>1. /\ DOMAIN NormalChecks(normal) = DOMAIN normal /\ IsRecord(NormalChecks(normal))
            /\ IsRecord(normal)
            /\ \A k \in DOMAIN normal : k # "checks" => NormalChecks(normal)[k] = normal[k]
        BY <2>1 DEF NormalChecks, IsRecord, @@
      <3>2. ASSUME "checks" \in DOMAIN normal
            PROVE  NormalChecks(normal).checks = normal.checks
        <4>1. normal.checks = [i \in DOMAIN opts.checks |-> NormalCheck(opts.checks[i])]
          BY <2>1, <3>2 DEF NormalChecks, @@
        <4>2. \A check : NormalCheck(NormalCheck(check)) = NormalCheck(check)
          BY DEF NormalCheck, @@
        <4>3. NormalChecks(normal).checks
                = [i \in DOMAIN normal.checks |-> NormalCheck(normal.checks[i])]
          BY <3>2 DEF NormalChecks
        <4>4. QED
          BY <4>1, <4>2, <4>3
      <3>3. QED
        BY <3>1, <3>2, SameIsEqual DEF Same
    <2>3. QED
      BY <1>1, <2>1, <2>2, MergeTwice
  <1>2. CASE name = "dns"
    <2>1. \A o : NormalSection("dns", o) = CASE Get(o, "mode", Unset) = "https" -> o @@ HTTPS
                                         [] Get(o, "mode", Unset) = "udp" -> o @@ UDP
                                         [] OTHER -> o
      BY NormalSectionIs
    <2>2. /\ Get(opts @@ HTTPS, "mode", Unset) = Get(opts, "mode", Unset)
          /\ Get(opts @@ UDP, "mode", Unset) = Get(opts, "mode", Unset)
      BY GivenAre DEF Get, @@
    <2>3. CASE Get(opts, "mode", Unset) = "https"
      BY <1>2, <2>1, <2>2, <2>3, MergeTwice
    <2>4. CASE Get(opts, "mode", Unset) = "udp"
      BY <1>2, <2>1, <2>2, <2>4, MergeTwice
    <2>5. CASE Get(opts, "mode", Unset) \notin {"https", "udp"}
      BY <1>2, <2>1, <2>5
    <2>6. QED
      BY <2>3, <2>4, <2>5
  <1>3. CASE name = "rotation"
    <2>1. "enabled" \in DOMAIN opts <=> "enabled" \in DOMAIN (opts @@ Rotates)
      BY GivenAre DEF @@
    <2>2. QED
      BY <1>3, <2>1, NormalSectionIs, MergeTwice
  <1>4. CASE name \in {"masque", "daemon"}
    BY <1>4, NormalSectionIs
  <1>5. QED
    BY <1>1, <1>2, <1>3, <1>4 DEF SectionNames

-----------------------------------------------------------------------------
(* Entries *)

\* A scalar that is there is not zero.
LEMMA FieldNotZero ==
  ASSUME NEW s, IsSettings(s), NEW k \in DOMAIN s \ (SectionNames \cup {"access"})
  PROVE  ~IsZero(k, s[k])
  BY DEF IsSettings, NoZeros, Without, Restrict

\* There is always a mode; it is the common one of mode and proxy mode.
LEMMA ModeOfIs ==
  ASSUME NEW s
  PROVE  /\ ModeOf(s) # Unset
         /\ "mode" \in DOMAIN s /\ "proxyMode" \in DOMAIN s /\ s.mode = s.proxyMode
            /\ s.mode # Unset => ModeOf(s) = s.mode
  BY UnsetIs DEF ModeOf, Get

\* Normalising an entry gives it a host at most.
LEMMA NormalEntryIs ==
  ASSUME NEW entry, IsEntry(entry)
  PROVE  /\ IsEntry(NormalEntry(entry))
         /\ \A k : k # "listenHost" => Same(NormalEntry(entry), entry, k)
         /\ Get(entry, "type", Unset) # "tun" => "listenHost" \in DOMAIN NormalEntry(entry)
         /\ "listenHost" \in DOMAIN entry => NormalEntry(entry) = entry
         /\ Get(entry, "type", Unset) = "tun" => NormalEntry(entry) = entry
  <1> DEFINE host == [listenHost |-> "0.0.0.0"]
  <1>1. DOMAIN host = {"listenHost"} /\ ~IsZero("listenHost", host.listenHost)
    BY ZeroIs, UnsetIs DEF Numbers, Switches
  <1>2. CASE Get(entry, "type", Unset) = "tun"
    BY <1>2 DEF NormalEntry, Same
  <1>3. CASE Get(entry, "type", Unset) # "tun"
    <2>1. NormalEntry(entry) = entry @@ host
      BY <1>3 DEF NormalEntry
    <2> HIDE DEF host
    <2>2. IsEntry(NormalEntry(entry))
      BY <1>1, <2>1, FieldsAre DEF @@, IsEntry, IsRecord, NoZeros, EntryFields
    <2>3. /\ \A k : k # "listenHost" => Same(NormalEntry(entry), entry, k)
          /\ "listenHost" \in DOMAIN NormalEntry(entry)
      BY <1>1, <2>1 DEF @@, Same
    <2>4. "listenHost" \in DOMAIN entry => NormalEntry(entry) = entry
      BY <1>1, <2>1 DEF @@, IsEntry, IsRecord
    <2>5. QED
      BY <1>3, <2>2, <2>3, <2>4
  <1>4. QED
    BY <1>2, <1>3

\* Normalising an entry twice is normalising it once.
LEMMA NormalEntryTwice ==
  ASSUME NEW entry, IsEntry(entry)
  PROVE  NormalEntry(NormalEntry(entry)) = NormalEntry(entry)
  <1>1. CASE Get(entry, "type", Unset) = "tun"
    BY <1>1, NormalEntryIs
  <1>2. CASE Get(entry, "type", Unset) # "tun"
    <2>1. IsEntry(NormalEntry(entry)) /\ "listenHost" \in DOMAIN NormalEntry(entry)
      BY <1>2, NormalEntryIs
    <2>2. QED
      BY <2>1, NormalEntryIs
  <1>3. QED
    BY <1>1, <1>2

\* The entry of the legacy fields is one an operator could write.
LEMMA AsAccessTyped ==
  ASSUME NEW s, IsSettings(s)
  PROVE  IsEntry(AsAccess(s))
  <1>1. ASSUME NEW k \in DOMAIN AsAccess(s)
        PROVE  ~IsZero(k, AsAccess(s)[k])
    <2>1. /\ k \in DOMAIN LegacyField /\ LegacyField[k] \in DOMAIN s
          /\ AsAccess(s)[k] = s[LegacyField[k]]
      BY AsAccessIs
    <2>2. LegacyField[k] \in ListenerFields /\ AccessField[LegacyField[k]] = k
      BY <2>1, FieldsAre
    <2>3. LegacyField[k] \notin SectionNames \cup {"access"}
      BY <2>2, NamesAreApart
    <2>4. ~IsZero(LegacyField[k], s[LegacyField[k]])
      BY <2>1, <2>3, FieldNotZero
    <2>5. QED
      BY <2>1, <2>2, <2>4, MirrorZero
  <1>2. QED
    BY <1>1, AsAccessIs DEF IsEntry, NoZeros, EntryFields

\* What an entry is given over what it has.
LEMMA EntryMerged ==
  ASSUME NEW e, NEW f, IsEntry(e), IsEntry(f)
  PROVE  IsEntry(e @@ f)
  BY DEF IsEntry, IsRecord, NoZeros, @@

\* The entries the code itself makes are such entries.
LEMMA GivenEntries ==
  /\ IsEntry(None)
  /\ \A v : v # Unset => IsEntry([type |-> v])
  /\ IsEntry([listenHost |-> "0.0.0.0", listenPort |-> 1080])
  <1>1. /\ \A v : IsZero("type", v) => v = Unset
        /\ \A v : IsZero("listenHost", v) => v = Unset
        /\ \A v : IsZero("listenPort", v) => v = 0
    BY ZeroIs DEF Numbers, Switches
  <1>2. IsEntry(None)
    BY NoneIs DEF IsEntry, NoZeros
  <1>3. ASSUME NEW v, v # Unset
        PROVE  IsEntry([type |-> v])
    BY <1>1, <1>3, FieldsAre DEF IsEntry, NoZeros, IsRecord, EntryFields
  <1>4. IsEntry([listenHost |-> "0.0.0.0", listenPort |-> 1080])
    <2> DEFINE e == [listenHost |-> "0.0.0.0", listenPort |-> 1080]
    <2>1. /\ DOMAIN e = {"listenHost", "listenPort"}
          /\ e.listenHost # Unset /\ e.listenPort # 0 /\ IsRecord(e)
      BY UnsetIs DEF IsRecord
    <2> HIDE DEF e
    <2>2. IsEntry(e)
      BY <1>1, <2>1, FieldsAre DEF IsEntry, NoZeros, EntryFields
    <2>3. QED
      BY <2>2 DEF e
  <1>5. QED
    BY <1>2, <1>3, <1>4

\* Completing the selection leaves settings.
LEMMA SelectedTyped ==
  ASSUME NEW s, IsSettings(s)
  PROVE  IsSettings(Selected(s))
  <1> DEFINE t == Selected(s)
  <1>1. /\ IsRecord(t) /\ \A k : k \notin Selecting => Same(t, s, k)
        /\ \A k \in DOMAIN s : k \in DOMAIN t /\ t[k] = s[k]
        /\ \A k \in DOMAIN t \ DOMAIN s : ~IsZero(k, t[k])
    BY SelectedIs DEF Selecting
  <1> HIDE DEF t
  <1>2. DOMAIN t \subseteq SettingsFields
    BY <1>1, NamesAreApart DEF IsSettings, Same
  <1>3. NoZeros(Without(t, SectionNames \cup {"access"}))
    BY <1>1 DEF IsSettings, NoZeros, Without, Restrict
  <1>4. Entries(t) = Entries(s) /\ ("access" \in DOMAIN s => t.access = s.access)
    BY <1>1 DEF Entries, Get, Same, Selecting
  <1>5. \A k \in DOMAIN t \cap SectionNames : k \in DOMAIN s /\ t[k] = s[k]
    BY <1>1, NamesAreApart DEF Same
  <1>6. \A i \in DOMAIN Entries(t) : t.access[i] = s.access[i]
    <2>1. "access" \notin DOMAIN s => DOMAIN Entries(t) = {}
      BY <1>4 DEF Entries, Get
    <2>2. QED
      BY <1>4, <2>1
  <1>7. IsSettings(t)
    BY <1>1, <1>2, <1>3, <1>4, <1>5, <1>6 DEF IsSettings
  <1>8. QED
    BY <1>7 DEF t

-----------------------------------------------------------------------------
(* Normal settings *)

\* What normalisation leaves alone.
IsNormal(n) ==
  /\ IsSettings(n)
  /\ "access" \in DOMAIN n /\ n.access # <<>>
  /\ "type" \in DOMAIN n.access[1]
  /\ \A f \in ListenerFields :
       /\ f \in DOMAIN n <=> AccessField[f] \in DOMAIN n.access[1]
       /\ f \in DOMAIN n => n[f] = n.access[1][AccessField[f]]
  /\ "proxyMode" \in DOMAIN n /\ n.proxyMode = n.access[1].type
  /\ \A i \in DOMAIN n.access : NormalEntry(n.access[i]) = n.access[i]
  /\ \A k \in SectionNames \cap DOMAIN n : NormalSection(k, n[k]) = n[k]
  /\ Get(n, "backend", Unset) \in Backends => Selecting \subseteq DOMAIN n
  /\ "backend" \in DOMAIN DeriveBackendTag(n)
       => "backend" \in DOMAIN n /\ n.backend = DeriveBackendTag(n).backend

\* The entries of settings with a list are that list.
LEMMA EntriesOf ==
  ASSUME NEW s, "access" \in DOMAIN s
  PROVE  Entries(s) = s.access
  BY DEF Entries, Get

\* A sequence that is not empty has a first member.
LEMMA NonEmptyIs ==
  ASSUME NEW q, IsSequence(q), q # <<>>
  PROVE  1 \in DOMAIN q /\ DOMAIN q = 1..Len(q) /\ Len(q) \in Nat \ {0} /\ IsRecord(q)
  BY DEF IsSequence, IsRecord

\* Normal settings have a typed primary entry.
LEMMA NormalPrimary ==
  ASSUME NEW n, IsNormal(n)
  PROVE  /\ 1 \in DOMAIN n.access /\ IsEntry(n.access[1]) /\ IsSequence(n.access)
         /\ n.access[1].type # Unset
         /\ \A i \in DOMAIN n.access : IsEntry(n.access[i])
  <1>1. Entries(n) = n.access /\ IsSequence(n.access)
    BY EntriesOf DEF IsNormal, IsSettings
  <1>2. 1 \in DOMAIN n.access
    BY <1>1, NonEmptyIs DEF IsNormal
  <1>3. \A i \in DOMAIN n.access : IsEntry(n.access[i])
    BY <1>1 DEF IsNormal, IsSettings
  <1>4. ~IsZero("type", n.access[1].type)
    BY <1>2, <1>3 DEF IsNormal, IsEntry, NoZeros
  <1>5. n.access[1].type # Unset
    BY <1>4, ZeroIs DEF Numbers, Switches
  <1>6. QED
    BY <1>1, <1>2, <1>3, <1>5

\* The entry made of legacy fields has an address and a type.
LEMMA MadeEntryIs ==
  ASSUME NEW s, IsSettings(s)
  PROVE  /\ IsEntry(MadeEntry(s))
         /\ {"listenHost", "listenPort", "type"} \subseteq DOMAIN MadeEntry(s)
         /\ MadeEntry(s).type = ModeOf(s)
  <1> DEFINE t == [mode |-> ModeOf(s)] @@ s
             given == [listenHost |-> "0.0.0.0", listenPort |-> 1080]
  <1>1. /\ "mode" \in DOMAIN t /\ t.mode = ModeOf(s)
        /\ \A k : k # "mode" => Same(t, s, k)
        /\ IsRecord(t)
    BY DEF @@, Same, IsRecord
  <1>2. MadeEntry(s) = AsAccess(t) @@ given
    BY DEF MadeEntry
  <1>3. IsEntry(given) /\ DOMAIN given = {"listenHost", "listenPort"}
    BY GivenEntries
  <1>4. IsSettings(t)
    <2> HIDE DEF t
    <2>0. "mode" \in ListenerFields /\ "mode" \notin SectionNames \cup {"access"}
      BY FieldsAre, NamesAreApart
    <2>1. DOMAIN t \subseteq SettingsFields
      BY <1>1, <2>0, NamesAreApart DEF IsSettings, Same
    <2>2. ~IsZero("mode", t.mode)
      BY <1>1, ModeOfIs, ZeroIs DEF Numbers, Switches
    <2>3. NoZeros(Without(t, SectionNames \cup {"access"}))
      BY <1>1, <2>2 DEF IsSettings, NoZeros, Without, Restrict, Same
    <2>4. Entries(t) = Entries(s) /\ ("access" \in DOMAIN s => t.access = s.access)
      BY <1>1 DEF Entries, Get, Same
    <2>5. \A k \in DOMAIN t \cap SectionNames : k \in DOMAIN s /\ t[k] = s[k]
      BY <1>1, <2>0 DEF Same
    <2>6. \A i \in DOMAIN Entries(t) : t.access[i] = s.access[i]
      <3>1. "access" \notin DOMAIN s => DOMAIN Entries(t) = {}
        BY <2>4 DEF Entries, Get
      <3>2. QED
        BY <2>4, <3>1
    <2>7. QED
      BY <1>1, <2>1, <2>3, <2>4, <2>5, <2>6 DEF IsSettings
  <1>5. "type" \in DOMAIN AsAccess(t) /\ AsAccess(t).type = ModeOf(s)
    <2>1. LegacyField["type"] = "mode" /\ "type" \in DOMAIN LegacyField
      BY DEF LegacyField
    <2>2. QED
      BY <1>1, <2>1, AsAccessIs
  <1> HIDE DEF t, given
  <1>6. IsEntry(MadeEntry(s))
    BY <1>2, <1>3, <1>4, AsAccessTyped, EntryMerged
  <1>7. /\ {"listenHost", "listenPort", "type"} \subseteq DOMAIN MadeEntry(s)
        /\ MadeEntry(s).type = ModeOf(s)
    BY <1>2, <1>3, <1>5 DEF @@
  <1>8. QED
    BY <1>6, <1>7

\* The normalised list is one of normal entries, headed by the primary.
LEMMA NormalAccessIs ==
  ASSUME NEW s, IsSettings(s)
  PROVE  LET q == NormalAccess(s)
         IN /\ IsSequence(q) /\ q # <<>> /\ 1 \in DOMAIN q /\ q[1] = Primary(s)
            /\ IsEntry(Primary(s)) /\ "type" \in DOMAIN Primary(s)
            /\ DOMAIN q = DOMAIN NormalEntries(Selected(s))
            /\ \A i \in DOMAIN q : i # 1 => q[i] = NormalEntries(Selected(s))[i]
            /\ \A i \in DOMAIN q : IsEntry(q[i]) /\ NormalEntry(q[i]) = q[i]
  <1> DEFINE t == Selected(s)
             es == NormalEntries(t)
             q == NormalAccess(s)
             p == Primary(s)
  <1>1. IsSettings(t)
    BY SelectedTyped
  <1>2. /\ IsSequence(es) /\ 1 \in DOMAIN es
        /\ Entries(t) = <<>> => es = <<MadeEntry(t)>>
        /\ Entries(t) # <<>> => /\ "access" \in DOMAIN t
                               /\ DOMAIN es = DOMAIN t.access
                               /\ \A i \in DOMAIN t.access : es[i] = NormalEntry(t.access[i])
    BY <1>1, NormalEntriesAre DEF IsSettings
  <1>3. \A i \in DOMAIN es : IsEntry(es[i]) /\ NormalEntry(es[i]) = es[i]
    <2>1. CASE Entries(t) = <<>>
      <3>1. IsEntry(MadeEntry(t)) /\ "listenHost" \in DOMAIN MadeEntry(t)
        BY <1>1, MadeEntryIs
      <3>2. NormalEntry(MadeEntry(t)) = MadeEntry(t)
        BY <3>1, NormalEntryIs
      <3>3. QED
        BY <1>2, <2>1, <3>1, <3>2
    <2>2. CASE Entries(t) # <<>>
      <3>1. \A i \in DOMAIN t.access : IsEntry(t.access[i])
        BY <1>1, <1>2, <2>2, EntriesOf DEF IsSettings
      <3>2. \A i \in DOMAIN t.access : IsEntry(es[i]) /\ NormalEntry(es[i]) = es[i]
        BY <1>2, <2>2, <3>1, NormalEntryIs, NormalEntryTwice
      <3>3. QED
        BY <1>2, <2>2, <3>2
    <2>3. QED
      BY <2>1, <2>2
  <1>4. p = es[1] @@ [type |-> ModeOf(t)]
    BY DEF Primary
  <1>5. IsEntry(p) /\ "type" \in DOMAIN p
    <2>1. IsEntry([type |-> ModeOf(t)])
      BY ModeOfIs, GivenEntries
    <2>2. IsEntry(es[1])
      BY <1>2, <1>3
    <2> HIDE DEF es, t, p
    <2>3. IsEntry(p)
      BY <1>4, <2>1, <2>2, EntryMerged
    <2>4. QED
      BY <1>4, <2>3 DEF @@
  <1>6. NormalEntry(p) = p
    <2>0. IsEntry(es[1]) /\ NormalEntry(es[1]) = es[1]
      BY <1>2, <1>3
    <2>1. /\ DOMAIN p = DOMAIN es[1] \cup {"type"}
          /\ \A k \in DOMAIN es[1] : p[k] = es[1][k]
      BY PrimaryIs
    <2> HIDE DEF es, t, p
    <2>2. CASE Get(es[1], "type", Unset) = "tun"
      <3>1. "type" \in DOMAIN es[1] /\ es[1].type = "tun"
        BY <2>2, UnsetIs DEF Get
      <3>2. Get(p, "type", Unset) = "tun"
        BY <2>1, <3>1 DEF Get
      <3>3. QED
        BY <1>5, <3>2, NormalEntryIs
    <2>3. CASE Get(es[1], "type", Unset) # "tun"
      <3>1. "listenHost" \in DOMAIN es[1]
        BY <2>0, <2>3, NormalEntryIs
      <3>2. "listenHost" \in DOMAIN p
        BY <2>1, <3>1
      <3>3. QED
        BY <1>5, <3>2, NormalEntryIs
    <2>4. QED
      BY <2>2, <2>3
  <1>7. q = [es EXCEPT ![1] = p]
    BY DEF NormalAccess
  <1> HIDE DEF es, t, p, q
  <1>8. DOMAIN es = 1..Len(es) /\ Len(es) \in Nat \ {0}
    BY <1>2 DEF IsSequence
  <1>9. /\ DOMAIN q = DOMAIN es /\ q[1] = p
        /\ \A i \in DOMAIN q : i # 1 => q[i] = es[i]
    BY <1>2, <1>7
  <1>10. IsSequence(q) /\ q # <<>>
    <2>1. q = [i \in 1..Len(es) |-> q[i]]
      BY <1>7, <1>8
    <2>2. q \in Seq(Range(q))
      BY <1>8, <1>9, <2>1 DEF Range
    <2>3. QED
      BY <1>2, <1>9, <2>2 DEF IsSequence
  <1>11. \A i \in DOMAIN q : IsEntry(q[i]) /\ NormalEntry(q[i]) = q[i]
    BY <1>3, <1>5, <1>6, <1>9
  <1>12. QED
    BY <1>2, <1>5, <1>9, <1>10, <1>11 DEF es, t, p, q

\* Normalisation makes settings normal.
LEMMA NormalizeNormal ==
  ASSUME NEW s, IsSettings(s)
  PROVE  IsNormal(Normalize(s))
  <1> DEFINE n == Normalize(s)
             p == Primary(s)
             t == Selected(s)
             derived == DeriveBackendTag(t)
  <1>1. /\ IsRecord(n)
        /\ "access" \in DOMAIN n /\ n.access = NormalAccess(s)
        /\ \A f \in ListenerFields :
             /\ f \in DOMAIN n <=> AccessField[f] \in DOMAIN p
             /\ f \in DOMAIN n => n[f] = p[AccessField[f]]
        /\ "proxyMode" \in DOMAIN n /\ n.proxyMode = p.type
        /\ "backend" \in DOMAIN derived
             => "backend" \in DOMAIN n /\ n.backend = derived.backend
        /\ "backend" \notin DOMAIN derived => Same(n, s, "backend")
    BY NormalizeIs
  <1>2. /\ \A k \in SectionNames :
             /\ k \in DOMAIN n <=> k \in DOMAIN s
             /\ k \in DOMAIN n => n[k] = NormalSection(k, s[k])
        /\ \A k \in Selecting : Same(n, t, k)
        /\ \A k : k \notin ListenerFields \cup SectionNames \cup Selecting
                            \cup {"access", "proxyMode", "backend"} => Same(n, s, k)
    BY NormalizeIs
  <1>3. /\ IsSequence(n.access) /\ n.access # <<>> /\ 1 \in DOMAIN n.access /\ n.access[1] = p
        /\ IsEntry(p) /\ "type" \in DOMAIN p
        /\ \A i \in DOMAIN n.access : IsEntry(n.access[i]) /\ NormalEntry(n.access[i]) = n.access[i]
    BY <1>1, NormalAccessIs
  <1>4. IsSettings(t)
    BY SelectedTyped
  <1>5. derived = DeriveBackendTag(n)
    BY <1>2, DeriveSame DEF Same, Selecting
  <1>6. /\ "backend" \in DOMAIN derived => /\ derived.backend \in Backends
                                          /\ Selecting \subseteq DOMAIN t
    BY DeriveIs DEF Selecting
  <1>7. Get(n, "backend", Unset) \in Backends => Selecting \subseteq DOMAIN n
    <2>1. CASE "backend" \in DOMAIN derived
      BY <1>2, <1>6, <2>1 DEF Same
    <2>2. CASE "backend" \notin DOMAIN derived
      <3>1. Get(n, "backend", Unset) = Get(s, "backend", Unset)
        BY <1>1, <2>2 DEF Same, Get
      <3>2. Get(s, "backend", Unset) \in Backends => Selecting \subseteq DOMAIN t
        BY SelectedIs DEF Selecting
      <3>3. QED
        BY <1>2, <3>1, <3>2 DEF Same
    <2>3. QED
      BY <2>1, <2>2
  <1>8. IsSettings(n)
    <2>1. DOMAIN n \subseteq SettingsFields
      BY <1>2, NamesAreApart DEF IsSettings, Same
    <2>2. ASSUME NEW k \in DOMAIN n \ (SectionNames \cup {"access"})
          PROVE  ~IsZero(k, n[k])
      <3>1. CASE k \in ListenerFields
        BY <1>1, <1>3, <3>1, MirrorZero DEF IsEntry, NoZeros
      <3>2. CASE k = "proxyMode"
        <4>1. ~IsZero("type", p.type)
          BY <1>3 DEF IsEntry, NoZeros
        <4>2. QED
          BY <1>1, <3>2, <4>1, ZeroIs DEF Numbers, Switches
      <3>3. CASE k = "backend"
        <4>1. CASE "backend" \in DOMAIN derived
          <5>1. derived.backend # Unset
            BY <1>6, <4>1, UnsetIs DEF Backends
          <5>2. QED
            BY <1>1, <3>3, <4>1, <5>1, ZeroIs DEF Numbers, Switches
        <4>2. CASE "backend" \notin DOMAIN derived
          <5>1. "backend" \in DOMAIN s /\ n.backend = s.backend
            BY <1>1, <3>3, <4>2 DEF Same
          <5>2. QED
            BY <2>2, <3>3, <5>1, FieldNotZero
        <4>3. QED
          BY <4>1, <4>2
      <3>4. CASE k \in Selecting
        <4>1. k \in DOMAIN t /\ n[k] = t[k]
          BY <1>2, <3>4 DEF Same
        <4>2. QED
          BY <1>4, <2>2, <4>1, FieldNotZero
      <3>5. CASE k \notin ListenerFields \cup Selecting \cup {"proxyMode", "backend"}
        <4>1. k \in DOMAIN s /\ n[k] = s[k]
          BY <1>2, <2>2, <3>5 DEF Same
        <4>2. QED
          BY <2>2, <4>1, FieldNotZero
      <3>6. QED
        BY <3>1, <3>2, <3>3, <3>4, <3>5
    <2>3. NoZeros(Without(n, SectionNames \cup {"access"}))
      BY <2>2 DEF NoZeros, Without, Restrict
    <2>4. \A k \in DOMAIN n \cap SectionNames : IsSection(n[k]) /\ NoZeros(n[k])
      BY <1>2, NormalSectionTyped DEF IsSettings
    <2>5. Entries(n) = n.access
      BY <1>1, EntriesOf
    <2>6. QED
      BY <1>1, <1>3, <2>1, <2>3, <2>4, <2>5 DEF IsSettings
  <1>9. \A k \in SectionNames \cap DOMAIN n : NormalSection(k, n[k]) = n[k]
    BY <1>2, NormalSectionTwice DEF IsSettings
  <1> HIDE DEF n, p, t, derived
  <1>10. IsNormal(n)
    BY <1>1, <1>3, <1>5, <1>7, <1>8, <1>9 DEF IsNormal
  <1>11. QED
    BY <1>10 DEF n

\* Normal settings are a fixed point.
LEMMA NormalFixed ==
  ASSUME NEW n, IsNormal(n)
  PROVE  Normalize(n) = n
  <1> DEFINE m == Normalize(n)
  <1>1. IsRecord(n) /\ Selected(n) = n
    BY SelectedAlready DEF IsNormal, IsSettings, Selecting
  <1>2. /\ Entries(n) = n.access /\ IsSequence(n.access) /\ 1 \in DOMAIN n.access
        /\ IsRecord(n.access) /\ n.access # <<>>
        /\ \A i \in DOMAIN n.access : IsEntry(n.access[i]) /\ NormalEntry(n.access[i]) = n.access[i]
    BY NormalPrimary, EntriesOf, NonEmptyIs DEF IsNormal
  <1>3. NormalEntries(n) = n.access
    BY <1>2 DEF NormalEntries, IsRecord
  <1>4. Primary(n) = n.access[1]
    <2>1. "type" \in DOMAIN n.access[1] /\ IsRecord(n.access[1])
      BY <1>2 DEF IsNormal, IsEntry
    <2>2. Primary(n) = n.access[1] @@ [type |-> ModeOf(n)]
      BY <1>1, <1>3 DEF Primary
    <2>3. QED
      BY <2>1, <2>2 DEF @@, IsRecord
  <1>5. NormalAccess(n) = n.access
    BY <1>1, <1>2, <1>3, <1>4 DEF NormalAccess, IsRecord
  <1>6. /\ IsRecord(m)
        /\ "access" \in DOMAIN m /\ m.access = n.access
        /\ \A f \in ListenerFields :
             /\ f \in DOMAIN m <=> AccessField[f] \in DOMAIN n.access[1]
             /\ f \in DOMAIN m => m[f] = n.access[1][AccessField[f]]
        /\ "proxyMode" \in DOMAIN m /\ m.proxyMode = n.access[1].type
        /\ "backend" \in DOMAIN DeriveBackendTag(n)
             => "backend" \in DOMAIN m /\ m.backend = DeriveBackendTag(n).backend
        /\ "backend" \notin DOMAIN DeriveBackendTag(n) => Same(m, n, "backend")
        /\ \A k \in SectionNames :
             /\ k \in DOMAIN m <=> k \in DOMAIN n
             /\ k \in DOMAIN m => m[k] = NormalSection(k, n[k])
        /\ \A k \in Selecting : Same(m, n, k)
        /\ \A k : k \notin ListenerFields \cup SectionNames \cup Selecting
                            \cup {"access", "proxyMode", "backend"} => Same(m, n, k)
    BY <1>1, <1>4, <1>5, NormalizeIs
  <1> HIDE DEF m
  <1>7. \A k \in ListenerFields : Same(m, n, k)
    BY <1>6 DEF IsNormal, Same
  <1>8. \A k \in SectionNames : Same(m, n, k)
    BY <1>6 DEF IsNormal, Same
  <1>9. Same(m, n, "access") /\ Same(m, n, "proxyMode") /\ Same(m, n, "backend")
    BY <1>6 DEF IsNormal, Same
  <1>10. \A k : Same(m, n, k)
    BY <1>6, <1>7, <1>8, <1>9
  <1>11. m = n
    BY <1>1, <1>6, <1>10, SameIsEqual
  <1>12. QED
    BY <1>11 DEF m

-----------------------------------------------------------------------------
(* Settings put together from settings *)

\* Settings are recognised field by field.
LEMMA FieldByField ==
  ASSUME NEW s, IsRecord(s), DOMAIN s \subseteq SettingsFields,
         \A k \in DOMAIN s \ (SectionNames \cup {"access"}) : ~IsZero(k, s[k]),
         \A k \in DOMAIN s \cap SectionNames : IsSection(s[k]) /\ NoZeros(s[k]),
         "access" \in DOMAIN s => /\ IsSequence(s.access)
                                 /\ \A i \in DOMAIN s.access : IsEntry(s.access[i])
  PROVE  IsSettings(s)
  <1>1. NoZeros(Without(s, SectionNames \cup {"access"}))
    BY DEF NoZeros, Without, Restrict
  <1>2. CASE "access" \in DOMAIN s
    BY <1>1, <1>2, EntriesOf DEF IsSettings
  <1>3. CASE "access" \notin DOMAIN s
    <2>1. Entries(s) = <<>>
      BY <1>3 DEF Entries, Get
    <2>2. IsSequence(<<>>) /\ DOMAIN <<>> = {}
      BY DEF IsSequence
    <2>3. QED
      BY <1>1, <2>1, <2>2 DEF IsSettings
  <1>4. QED
    BY <1>2, <1>3

\* And so they are taken apart.
LEMMA SettingsAre ==
  ASSUME NEW s, IsSettings(s)
  PROVE  /\ IsRecord(s) /\ DOMAIN s \subseteq SettingsFields
         /\ \A k \in DOMAIN s \ (SectionNames \cup {"access"}) : ~IsZero(k, s[k])
         /\ \A k \in DOMAIN s \cap SectionNames : IsSection(s[k]) /\ NoZeros(s[k])
         /\ "access" \in DOMAIN s => /\ IsSequence(s.access)
                                     /\ \A i \in DOMAIN s.access : IsEntry(s.access[i])
  BY FieldNotZero, EntriesOf DEF IsSettings

\* Settings laid over settings are settings.
LEMMA SettingsMerged ==
  ASSUME NEW s, NEW t, IsSettings(s), IsSettings(t)
  PROVE  IsSettings(s @@ t)
  <1> DEFINE m == s @@ t
  <1>1. /\ IsRecord(m) /\ DOMAIN m = DOMAIN s \cup DOMAIN t
        /\ \A k \in DOMAIN m : m[k] = IF k \in DOMAIN s THEN s[k] ELSE t[k]
    BY DEF @@, IsRecord
  <1> HIDE DEF m
  <1>2. IsSettings(m)
    <2>1. DOMAIN m \subseteq SettingsFields
      BY <1>1, SettingsAre
    <2>2. \A k \in DOMAIN m \ (SectionNames \cup {"access"}) : ~IsZero(k, m[k])
      BY <1>1, SettingsAre
    <2>3. \A k \in DOMAIN m \cap SectionNames : IsSection(m[k]) /\ NoZeros(m[k])
      BY <1>1, SettingsAre
    <2>4. "access" \in DOMAIN m => /\ IsSequence(m.access)
                                  /\ \A i \in DOMAIN m.access : IsEntry(m.access[i])
      BY <1>1, SettingsAre
    <2>5. QED
      BY <1>1, <2>1, <2>2, <2>3, <2>4, FieldByField
  <1>3. QED
    BY <1>2 DEF m

\* Settings without some fields are settings.
LEMMA SettingsWithout ==
  ASSUME NEW s, NEW keys, IsSettings(s)
  PROVE  IsSettings(Without(s, keys))
  <1> DEFINE m == Without(s, keys)
  <1>1. /\ IsRecord(m) /\ DOMAIN m = DOMAIN s \ keys
        /\ \A k \in DOMAIN m : m[k] = s[k]
    BY DEF Without, Restrict, IsRecord
  <1> HIDE DEF m
  <1>2. IsSettings(m)
    <2>1. DOMAIN m \subseteq SettingsFields
      BY <1>1, SettingsAre
    <2>2. \A k \in DOMAIN m \ (SectionNames \cup {"access"}) : ~IsZero(k, m[k])
      BY <1>1, SettingsAre
    <2>3. \A k \in DOMAIN m \cap SectionNames : IsSection(m[k]) /\ NoZeros(m[k])
      BY <1>1, SettingsAre
    <2>4. "access" \in DOMAIN m => /\ IsSequence(m.access)
                                  /\ \A i \in DOMAIN m.access : IsEntry(m.access[i])
      BY <1>1, SettingsAre
    <2>5. QED
      BY <1>1, <2>1, <2>2, <2>3, <2>4, FieldByField
  <1>3. QED
    BY <1>2 DEF m

\* What is given and not zero is assigned; the rest stays.
LEMMA SettingsAssigned ==
  ASSUME NEW s, NEW given, IsSettings(s), DOMAIN given \subseteq Scalars
  PROVE  IsSettings(Assign(s, given))
  <1> DEFINE m == Assign(s, given)
  <1>1. /\ IsRecord(m)
        /\ \A k : k \in DOMAIN m <=>
              IF k \in DOMAIN given THEN ~IsZero(k, given[k]) ELSE k \in DOMAIN s
        /\ \A k \in DOMAIN m : m[k] = IF k \in DOMAIN given THEN given[k] ELSE s[k]
    BY AssignIs
  <1> HIDE DEF m
  <1>2. Scalars \subseteq SettingsFields /\ Scalars \cap (SectionNames \cup {"access"}) = {}
    BY ScalarsAre DEF SettingsFields, SectionNames
  <1>3. IsSettings(m)
    <2>1. DOMAIN m \subseteq SettingsFields
      BY <1>1, <1>2, SettingsAre
    <2>2. \A k \in DOMAIN m \ (SectionNames \cup {"access"}) : ~IsZero(k, m[k])
      BY <1>1, SettingsAre
    <2>3. \A k \in DOMAIN m \cap SectionNames : IsSection(m[k]) /\ NoZeros(m[k])
      BY <1>1, <1>2, SettingsAre
    <2>4. "access" \in DOMAIN m => /\ IsSequence(m.access)
                                  /\ \A i \in DOMAIN m.access : IsEntry(m.access[i])
      BY <1>1, <1>2, SettingsAre
    <2>5. QED
      BY <1>1, <2>1, <2>2, <2>3, <2>4, FieldByField
  <1>4. QED
    BY <1>3 DEF m

\* The defaults, field by field.
LEMMA DefaultSettingsAre ==
  /\ IsSettings(DefaultSettings)
  /\ DOMAIN DefaultSettings = {"runtimeFamily", "transport", "mode", "listenHost",
                               "listenPort", "logLevel", "backend", "proxyMode"}
  /\ DefaultSettings.mode = "socks5" /\ DefaultSettings.proxyMode = "socks5"
  /\ DefaultSettings.listenHost = "0.0.0.0" /\ DefaultSettings.listenPort = 1080
  <1> DEFINE d == DefaultSettings
  <1>1. /\ DOMAIN d = {"runtimeFamily", "transport", "mode", "listenHost",
                      "listenPort", "logLevel", "backend", "proxyMode"}
        /\ d.runtimeFamily = "legacy" /\ d.transport = "wireguard" /\ d.mode = "socks5"
        /\ d.listenHost = "0.0.0.0" /\ d.listenPort = 1080 /\ d.logLevel = "info"
        /\ d.backend = "singbox-wireguard" /\ d.proxyMode = "socks5"
    BY DEF DefaultSettings
  <1>2. IsRecord(d)
    BY DEF DefaultSettings, IsRecord
  <1> HIDE DEF d
  <1>3. \A k \in DOMAIN d : ~IsZero(k, d[k])
    <2>1. /\ \A v : IsZero("listenPort", v) => v = 0
          /\ \A k \in DOMAIN d \ {"listenPort"} : \A v : IsZero(k, v) => v = Unset
      BY <1>1, ZeroIs DEF Numbers, Switches
    <2>2. \A k \in DOMAIN d \ {"listenPort"} : d[k] # Unset
      BY <1>1, UnsetIs
    <2>3. QED
      BY <1>1, <2>1, <2>2
  <1>4. DOMAIN d \subseteq SettingsFields \ (SectionNames \cup {"access"})
    BY <1>1, ScalarsAre DEF SettingsFields, SectionNames
  <1>5. IsSettings(d)
    BY <1>2, <1>3, <1>4, FieldByField
  <1>6. QED
    BY <1>1, <1>5 DEF d

\* The parts the commands put in are settings.
LEMMA GivenSettings ==
  /\ IsSettings(None)
  /\ \A v : v # Unset => IsSettings([mode |-> v]) /\ IsSettings([proxyMode |-> v])
  /\ \A q : IsSequence(q) /\ (\A i \in DOMAIN q : IsEntry(q[i])) => IsSettings([access |-> q])
  <1>0. {"mode", "proxyMode"} \subseteq SettingsFields \ (SectionNames \cup {"access"})
    BY ScalarsAre DEF SettingsFields, SectionNames
  <1>1. IsSettings(None)
    BY NoneIs, FieldByField
  <1>2. ASSUME NEW v, v # Unset
        PROVE  IsSettings([mode |-> v]) /\ IsSettings([proxyMode |-> v])
    <2>1. ~IsZero("mode", v) /\ ~IsZero("proxyMode", v)
      BY <1>2, ZeroIs DEF Numbers, Switches
    <2>2. IsSettings([mode |-> v])
      <3> DEFINE m == [mode |-> v]
      <3>1. IsRecord(m) /\ DOMAIN m = {"mode"} /\ m.mode = v
        BY DEF IsRecord
      <3> HIDE DEF m
      <3>2. IsSettings(m)
        BY <1>0, <2>1, <3>1, FieldByField
      <3>3. QED
        BY <3>2 DEF m
    <2>3. IsSettings([proxyMode |-> v])
      <3> DEFINE m == [proxyMode |-> v]
      <3>1. IsRecord(m) /\ DOMAIN m = {"proxyMode"} /\ m.proxyMode = v
        BY DEF IsRecord
      <3> HIDE DEF m
      <3>2. IsSettings(m)
        BY <1>0, <2>1, <3>1, FieldByField
      <3>3. QED
        BY <3>2 DEF m
    <2>4. QED
      BY <2>2, <2>3
  <1>3. ASSUME NEW q, IsSequence(q), \A i \in DOMAIN q : IsEntry(q[i])
        PROVE  IsSettings([access |-> q])
    <2> DEFINE m == [access |-> q]
    <2>1. IsRecord(m) /\ DOMAIN m = {"access"} /\ m.access = q
      BY DEF IsRecord
    <2> HIDE DEF m
    <2>2. "access" \in SettingsFields /\ "access" \notin SectionNames
      BY DEF SettingsFields, SectionNames
    <2>3. IsSettings(m)
      BY <1>3, <2>1, <2>2, FieldByField
    <2>4. QED
      BY <2>3 DEF m
  <1>4. QED
    BY <1>1, <1>2, <1>3

\* A string field that is there is not empty.
LEMMA StringSet ==
  ASSUME NEW s, IsSettings(s), NEW k \in DOMAIN s \cap (Scalars \ {"listenPort"})
  PROVE  s[k] # Unset
  <1>1. k \notin Numbers \cup Switches \cup {"checks"} /\ k \notin SectionNames \cup {"access"}
    BY ScalarsAre DEF Numbers, Switches, SectionNames
  <1>2. ~IsZero(k, s[k])
    BY <1>1, FieldNotZero
  <1>3. QED
    BY <1>1, <1>2, ZeroIs

\* Settings with a mode for their proxy mode are settings.
LEMMA WithModeTyped ==
  ASSUME NEW s, IsSettings(s)
  PROVE  IsSettings(WithMode(s))
  <1>1. CASE "proxyMode" \in DOMAIN s
    <2>1. s.proxyMode # Unset
      BY <1>1, StringSet, ScalarsAre
    <2>2. IsSettings([mode |-> s.proxyMode])
      BY <2>1, GivenSettings
    <2>3. QED
      BY <1>1, <2>2, SettingsMerged DEF WithMode
  <1>2. CASE "proxyMode" \notin DOMAIN s
    BY <1>2 DEF WithMode
  <1>3. QED
    BY <1>1, <1>2

\* A document with its two modes standing for each other.
Aliased(doc) == IF "mode" \in DOMAIN doc THEN doc @@ [proxyMode |-> doc.mode] ELSE WithMode(doc)

\* Aliasing mode and proxy mode changes these two alone.
LEMMA AliasedIs ==
  ASSUME NEW doc, IsSettings(doc)
  PROVE  /\ IsSettings(Aliased(doc))
         /\ \A k : k \notin {"mode", "proxyMode"} => Same(Aliased(doc), doc, k)
         /\ "mode" \in DOMAIN doc => /\ Aliased(doc).mode = doc.mode
                                     /\ "proxyMode" \in DOMAIN Aliased(doc)
                                     /\ "proxyMode" \notin DOMAIN doc
                                          => Aliased(doc).proxyMode = doc.mode
         /\ DOMAIN doc \subseteq DOMAIN Aliased(doc)
  <1>1. CASE "mode" \in DOMAIN doc
    <2>1. doc.mode # Unset
      BY <1>1, StringSet, ScalarsAre
    <2>2. IsSettings(Aliased(doc))
      BY <1>1, <2>1, GivenSettings, SettingsMerged DEF Aliased
    <2>3. QED
      BY <1>1, <2>2 DEF Aliased, @@, Same
  <1>2. CASE "mode" \notin DOMAIN doc
    <2>1. Aliased(doc) = WithMode(doc)
      BY <1>2 DEF Aliased
    <2>2. IsSettings(Aliased(doc))
      BY <2>1, WithModeTyped
    <2>3. /\ \A k : k # "mode" => Same(WithMode(doc), doc, k)
      BY WithModeIs DEF IsSettings
    <2>4. QED
      BY <1>2, <2>1, <2>2, <2>3 DEF Same
  <1>3. QED
    BY <1>1, <1>2

\* A document over the defaults.
Laid(doc) == Aliased(doc) @@ DefaultSettings

\* A document laid over the defaults, and loaded.
LEMMA LaidIs ==
  ASSUME NEW doc, IsSettings(doc)
  PROVE  /\ IsSettings(Laid(doc)) /\ DOMAIN DefaultSettings \subseteq DOMAIN Laid(doc)
         /\ \A k \in DOMAIN doc : k \in DOMAIN Laid(doc)
         /\ \A k \in DOMAIN doc \ {"mode", "proxyMode"} : Laid(doc)[k] = doc[k]
         /\ \A k : k \notin DOMAIN DefaultSettings => Same(Laid(doc), doc, k)
         /\ LoadSettingsFile(doc) = Normalize(Laid(doc))
         /\ IsNormal(LoadSettingsFile(doc))
  <1>1. IsSettings(Laid(doc))
    BY AliasedIs, DefaultSettingsAre, SettingsMerged DEF Laid
  <1>2. /\ DOMAIN Laid(doc) = DOMAIN Aliased(doc) \cup DOMAIN DefaultSettings
        /\ \A k \in DOMAIN Aliased(doc) : Laid(doc)[k] = Aliased(doc)[k]
    BY DEF Laid, @@
  <1>3. Unmarshal(doc) = Normalize(Laid(doc))
    BY DEF Unmarshal, Laid, Aliased
  <1>4. IsNormal(Normalize(Laid(doc)))
    BY <1>1, NormalizeNormal
  <1>5. LoadSettingsFile(doc) = Normalize(Laid(doc))
    BY <1>3, <1>4, NormalFixed DEF LoadSettingsFile
  <1>6. /\ \A k \in DOMAIN doc : k \in DOMAIN Laid(doc)
        /\ \A k \in DOMAIN doc \ {"mode", "proxyMode"} : Laid(doc)[k] = doc[k]
    BY <1>2, AliasedIs DEF Same
  <1>7. \A k : k \notin DOMAIN DefaultSettings => Same(Laid(doc), doc, k)
    BY <1>2, AliasedIs, DefaultSettingsAre DEF Same
  <1>8. QED
    BY <1>1, <1>2, <1>4, <1>5, <1>6, <1>7

\* What normalisation never takes away.
LEMMA NormalizeKeeps ==
  ASSUME NEW s, IsSettings(s)
  PROVE  /\ \A k \in Selecting \cup Settled : k \in DOMAIN s =>
              k \in DOMAIN Normalize(s) /\ Normalize(s)[k] = s[k]
         /\ \A k \in Settled : Same(Normalize(s), s, k)
         /\ "backend" \in DOMAIN s => "backend" \in DOMAIN Normalize(s)
         /\ {"mode", "proxyMode", "access"} \subseteq DOMAIN Normalize(s)
         /\ \A k \in SectionNames :
              /\ k \in DOMAIN Normalize(s) <=> k \in DOMAIN s
              /\ k \in DOMAIN s => Normalize(s)[k] = NormalSection(k, s[k])
  <1>1. \A k \in Selecting : Same(Normalize(s), Selected(s), k)
    BY NormalizeIs
  <1>2. \A k \in Settled : Same(Normalize(s), s, k)
    <2>1. \A k \in Settled : k \notin ListenerFields \cup SectionNames \cup Selecting
                            \cup {"access", "proxyMode", "backend"}
      BY NamesAreApart DEF Settled, Selecting
    <2>2. QED
      BY <2>1, NormalizeIs
  <1>3. \A k \in Selecting \cup Settled : k \in DOMAIN s =>
              k \in DOMAIN Normalize(s) /\ Normalize(s)[k] = s[k]
    BY <1>1, <1>2, SelectedIs DEF Same
  <1>4. "backend" \in DOMAIN s => "backend" \in DOMAIN Normalize(s)
    <2>1. CASE "backend" \in DOMAIN DeriveBackendTag(Selected(s))
      BY <2>1, NormalizeIs
    <2>2. CASE "backend" \notin DOMAIN DeriveBackendTag(Selected(s))
      BY <2>2, NormalizeIs DEF Same
    <2>3. QED
      BY <2>1, <2>2
  <1>5. {"mode", "proxyMode", "access"} \subseteq DOMAIN Normalize(s)
    <2>1. "type" \in DOMAIN Primary(s) /\ "mode" \in ListenerFields /\ AccessField["mode"] = "type"
      BY PrimaryIs, FieldsAre DEF AccessField
    <2>2. QED
      BY <2>1, NormalizeIs
  <1>6. \A k \in SectionNames :
              /\ k \in DOMAIN Normalize(s) <=> k \in DOMAIN s
              /\ k \in DOMAIN s => Normalize(s)[k] = NormalSection(k, s[k])
    BY NormalizeIs
  <1>7. QED
    BY <1>2, <1>3, <1>4, <1>5, <1>6

-----------------------------------------------------------------------------
(* Variables, and the primary entry brought in line                          *)

\* A list of probe names becomes a list of checks, and nothing else changes.
LEMMA WithChecksIs ==
  ASSUME NEW given
  PROVE  /\ DOMAIN WithChecks(given) = DOMAIN given
         /\ \A k \in DOMAIN given : k # "checks" => WithChecks(given)[k] = given[k]
         /\ IsSection(given) => IsSection(WithChecks(given))
  <1>1. CASE "checks" \in DOMAIN given
    <2> DEFINE q == [i \in DOMAIN given.checks |-> CheckOf(given.checks[i])]
               r == [checks |-> q]
    <2>1. DOMAIN r = {"checks"} /\ r.checks = q
      OBVIOUS
    <2>2. WithChecks(given) = r @@ given
      BY <1>1 DEF WithChecks
    <2>3. ASSUME IsSection(given)
          PROVE  IsSequence(q)
      <3>1. given.checks \in Seq(Range(given.checks)) /\ DOMAIN given.checks = 1..Len(given.checks)
            /\ Len(given.checks) \in Nat
        BY <1>1, <2>3 DEF IsSection, IsSequence
      <3>2. q \in Seq(Range(q))
        BY <3>1 DEF Range
      <3>3. QED
        BY <3>2 DEF IsSequence
    <2> HIDE DEF q, r
    <2>4. QED
      BY <1>1, <2>1, <2>2, <2>3 DEF @@, IsSection, IsRecord
  <1>2. CASE "checks" \notin DOMAIN given
    BY <1>2 DEF WithChecks
  <1>3. QED
    BY <1>1, <1>2

\* A section of s under the variables of env, and whether it is dropped.
Opts(s, env, k) == Assign(Get(s, k, None), WithChecks(Get(env, k, None)))
Drops(s, env, k) ==
  k \in {"masque", "dns"} /\ DOMAIN Opts(s, env, k) = {} /\ (k = "masque" => k \notin DOMAIN env)

\* ApplySections, field by field.
LEMMA ApplySectionsIs ==
  ASSUME NEW s, NEW env
  PROVE  LET t == ApplySections(s, env)
         IN /\ IsRecord(t)
            /\ \A k : k \notin SectionNames => Same(t, s, k)
            /\ \A k \in SectionNames :
                 /\ k \in DOMAIN t <=> k \in DOMAIN s \cup DOMAIN env /\ ~Drops(s, env, k)
                 /\ k \in DOMAIN t => t[k] = Opts(s, env, k)
  <1> DEFINE names == SectionNames \cap (DOMAIN s \cup DOMAIN env)
             opts == [k \in names |-> Opts(s, env, k)]
             dropped == {k \in names \cap {"masque", "dns"} :
                           DOMAIN opts[k] = {} /\ (k = "masque" => k \notin DOMAIN env)}
             left == Without(opts, dropped)
             rest == Without(s, SectionNames)
  <1>1. ApplySections(s, env) = left @@ rest
    BY DEF ApplySections, Opts
  <1>2. \A k \in names : k \in dropped <=> Drops(s, env, k)
    BY DEF Drops
  <1>3. /\ DOMAIN left = names \ dropped
        /\ \A k \in names \ dropped : left[k] = Opts(s, env, k)
    BY DEF Without, Restrict
  <1>4. DOMAIN rest = DOMAIN s \ SectionNames /\ \A k \in DOMAIN s \ SectionNames : rest[k] = s[k]
    BY WithoutIs
  <1> HIDE DEF opts, dropped, left, rest
  <1>5. QED
    BY <1>1, <1>2, <1>3, <1>4 DEF @@, IsRecord, Same

\* A section under its variables: what they do not name stays.
LEMMA OptsAre ==
  ASSUME NEW s, NEW env, NEW k
  PROVE  /\ IsRecord(Opts(s, env, k))
         /\ k \notin DOMAIN env =>
              /\ k \in DOMAIN s /\ IsRecord(s[k]) => Opts(s, env, k) = s[k]
              /\ k \notin DOMAIN s => Opts(s, env, k) = None
         /\ \A f : f \notin DOMAIN Get(env, k, None) => Same(Opts(s, env, k), Get(s, k, None), f)
         /\ IsSection(Get(s, k, None)) /\ NoZeros(Get(s, k, None)) /\ IsSection(Get(env, k, None))
              => IsSection(Opts(s, env, k)) /\ NoZeros(Opts(s, env, k))
  <1> DEFINE u == Get(s, k, None)
             g == WithChecks(Get(env, k, None))
             o == Assign(u, g)
  <1>1. /\ IsRecord(o)
        /\ \A f : f \in DOMAIN o <=>
             IF f \in DOMAIN g THEN ~IsZero(f, g[f]) ELSE f \in DOMAIN u
        /\ \A f \in DOMAIN o : o[f] = IF f \in DOMAIN g THEN g[f] ELSE u[f]
    BY AssignIs
  <1>2. DOMAIN g = DOMAIN Get(env, k, None)
    BY WithChecksIs
  <1>3. IsSection(Get(env, k, None)) => IsSection(g)
    BY WithChecksIs
  <1>4. Opts(s, env, k) = o
    BY DEF Opts
  <1>5. ASSUME k \notin DOMAIN env
        PROVE  /\ k \in DOMAIN s /\ IsRecord(s[k]) => Opts(s, env, k) = s[k]
               /\ k \notin DOMAIN s => Opts(s, env, k) = None
    <2>1. g = None
      BY <1>5, NoneIs DEF Get, WithChecks
    <2>2. k \in DOMAIN s /\ IsRecord(s[k]) => Opts(s, env, k) = s[k]
      BY <1>4, <2>1, AssignNone DEF Get
    <2>3. k \notin DOMAIN s => Opts(s, env, k) = None
      BY <1>4, <2>1, AssignNone, NoneIs DEF Get
    <2>4. QED
      BY <2>2, <2>3
  <1> HIDE DEF o, g, u
  <1>6. ASSUME IsSection(u), NoZeros(u), IsSection(g)
        PROVE  IsSection(o) /\ NoZeros(o)
    <2>1. NoZeros(o)
      BY <1>1, <1>6 DEF NoZeros
    <2>2. "checks" \in DOMAIN o => IsSequence(o.checks)
      BY <1>1, <1>6 DEF IsSection
    <2>3. QED
      BY <1>1, <2>1, <2>2 DEF IsSection
  <1>7. \A f : f \notin DOMAIN g => Same(o, u, f)
    BY <1>1 DEF Same
  <1>8. QED
    BY <1>1, <1>2, <1>3, <1>4, <1>5, <1>6, <1>7 DEF u

\* Sections under their variables leave settings.
LEMMA ApplySectionsTyped ==
  ASSUME NEW s, NEW env, IsSettings(s), IsEnvironment(env)
  PROVE  IsSettings(ApplySections(s, env))
  <1> DEFINE t == ApplySections(s, env)
  <1>1. /\ IsRecord(t)
        /\ \A k : k \notin SectionNames => Same(t, s, k)
        /\ \A k \in SectionNames : k \in DOMAIN t =>
              k \in DOMAIN s \cup DOMAIN env /\ t[k] = Opts(s, env, k)
    BY ApplySectionsIs
  <1> HIDE DEF t
  <1>2. \A k \in DOMAIN t \cap SectionNames : IsSection(t[k]) /\ NoZeros(t[k])
    <2> SUFFICES ASSUME NEW k \in DOMAIN t \cap SectionNames
                 PROVE  IsSection(t[k]) /\ NoZeros(t[k])
      OBVIOUS
    <2>1. IsSection(None) /\ NoZeros(None)
      BY NoneIs DEF IsSection, NoZeros
    <2>2. IsSection(Get(s, k, None)) /\ NoZeros(Get(s, k, None))
      BY <2>1, SettingsAre DEF Get
    <2>3. IsSection(Get(env, k, None))
      BY <2>1 DEF Get, IsEnvironment
    <2>4. QED
      BY <1>1, <2>2, <2>3, OptsAre
  <1>3. DOMAIN t \subseteq SettingsFields
    BY <1>1, SettingsAre DEF Same, SettingsFields
  <1>4. \A k \in DOMAIN t \ (SectionNames \cup {"access"}) : ~IsZero(k, t[k])
    BY <1>1, SettingsAre DEF Same
  <1>5. "access" \in DOMAIN t => /\ IsSequence(t.access)
                                /\ \A i \in DOMAIN t.access : IsEntry(t.access[i])
    <2>1. Same(t, s, "access")
      BY <1>1 DEF SectionNames
    <2>2. QED
      BY <2>1, SettingsAre DEF Same
  <1>6. IsSettings(t)
    BY <1>1, <1>2, <1>3, <1>4, <1>5, FieldByField
  <1>7. QED
    BY <1>6 DEF t

\* The primary entry, if there is one, and what synchronising makes of it.
Beneath(s) == IF Entries(s) = <<>> THEN None ELSE Entries(s)[1]
Kept(s) == IF DOMAIN AsAccess(s) \cap Credentials = {} THEN Beneath(s)
           ELSE Without(Beneath(s), Credentials)
Typed(s) == AsAccess(s) @@ Kept(s) @@ [type |-> "socks5"]
Synced(s) == IF Typed(s).type = "tun" THEN Typed(s)
             ELSE Typed(s) @@ [listenHost |-> "0.0.0.0", listenPort |-> 1080]

\* What lies beneath the legacy fields is an entry.
LEMMA BeneathIs ==
  ASSUME NEW s, IsSettings(s)
  PROVE  /\ IsEntry(Beneath(s))
         /\ Entries(s) # <<>> => /\ "access" \in DOMAIN s /\ Entries(s) = s.access
                                 /\ 1 \in DOMAIN s.access /\ Beneath(s) = s.access[1]
         /\ Entries(s) = <<>> => Beneath(s) = None
  <1>1. CASE Entries(s) = <<>>
    BY <1>1, GivenEntries DEF Beneath
  <1>2. CASE Entries(s) # <<>>
    <2>1. "access" \in DOMAIN s /\ Entries(s) = s.access
      BY <1>2 DEF Entries, Get
    <2>2. IsSequence(s.access) /\ \A i \in DOMAIN s.access : IsEntry(s.access[i])
      BY <2>1, SettingsAre
    <2>3. 1 \in DOMAIN s.access
      BY <1>2, <2>1, <2>2, NonEmptyIs
    <2>4. QED
      BY <1>2, <2>1, <2>2, <2>3 DEF Beneath
  <1>3. QED
    BY <1>1, <1>2

\* The primary entry that syncPrimaryAccessFromLegacy makes, field by field.
LEMMA SyncedIs ==
  ASSUME NEW s, IsSettings(s)
  PROVE  LET e == Synced(s)
         IN /\ IsEntry(e) /\ "type" \in DOMAIN e
            /\ \A k \in DOMAIN AsAccess(s) : k \in DOMAIN e /\ e[k] = AsAccess(s)[k]
            /\ \A k \in DOMAIN Beneath(s) \ DOMAIN AsAccess(s) :
                 \/ k \in Credentials /\ DOMAIN AsAccess(s) \cap Credentials # {}
                 \/ k \in DOMAIN e /\ e[k] = Beneath(s)[k]
            /\ \A k \in DOMAIN e \ DOMAIN AsAccess(s) :
                 \/ k \in DOMAIN Beneath(s) /\ e[k] = Beneath(s)[k]
                 \/ k = "type" /\ e[k] = "socks5"
                 \/ k = "listenHost" /\ e[k] = "0.0.0.0"
                 \/ k = "listenPort" /\ e[k] = 1080
            /\ DOMAIN AsAccess(s) \cap Credentials # {}
                 => DOMAIN e \cap Credentials \subseteq DOMAIN AsAccess(s)
            /\ e.type # "tun" => {"listenHost", "listenPort"} \subseteq DOMAIN e
            /\ \A k \in {"name", "mtu"} : Same(e, Beneath(s), k)
  <1> DEFINE l == AsAccess(s)
             b == Beneath(s)
             kept == Kept(s)
             socks == [type |-> "socks5"]
             address == [listenHost |-> "0.0.0.0", listenPort |-> 1080]
             typed == l @@ kept @@ socks
             e == Synced(s)
  <1>1. IsEntry(l) /\ IsEntry(b)
    BY AsAccessTyped, BeneathIs
  <1>2. /\ IsEntry(kept)
        /\ DOMAIN kept = IF DOMAIN l \cap Credentials = {} THEN DOMAIN b
                         ELSE DOMAIN b \ Credentials
        /\ \A k \in DOMAIN kept : kept[k] = b[k]
    <2>1. CASE DOMAIN l \cap Credentials = {}
      BY <1>1, <2>1 DEF Kept
    <2>2. CASE DOMAIN l \cap Credentials # {}
      <3>1. kept = Without(b, Credentials)
        BY <2>2 DEF Kept
      <3>2. /\ IsRecord(kept) /\ DOMAIN kept = DOMAIN b \ Credentials
            /\ \A k \in DOMAIN kept : kept[k] = b[k]
        <4> HIDE DEF kept, b
        <4>1. QED
          BY <3>1 DEF Without, Restrict, IsRecord
      <3> HIDE DEF kept, l, b
      <3>3. QED
        BY <1>1, <2>2, <3>2 DEF IsEntry, NoZeros
    <2>3. QED
      BY <2>1, <2>2
  <1>3. /\ DOMAIN socks = {"type"} /\ socks.type = "socks5" /\ IsEntry(socks)
        /\ DOMAIN address = {"listenHost", "listenPort"} /\ IsEntry(address)
        /\ address.listenHost = "0.0.0.0" /\ address.listenPort = 1080
    BY GivenEntries, UnsetIs
  <1>4. e = IF typed.type = "tun" THEN typed ELSE typed @@ address
    BY DEF Synced, Typed
  <1> HIDE DEF l, b, kept, socks, address, e
  <1>5. IsEntry(typed)
    <2>1. IsEntry(l @@ kept)
      BY <1>1, <1>2, EntryMerged
    <2>2. QED
      BY <1>3, <2>1, EntryMerged
  <1>6. /\ DOMAIN typed = DOMAIN l \cup DOMAIN kept \cup {"type"}
        /\ \A k \in DOMAIN l : typed[k] = l[k]
        /\ \A k \in DOMAIN kept \ DOMAIN l : typed[k] = kept[k]
        /\ "type" \notin DOMAIN l \cup DOMAIN kept => typed.type = "socks5"
    BY <1>3 DEF @@
  <1> HIDE DEF typed
  <1>7. /\ IsEntry(e) /\ DOMAIN typed \subseteq DOMAIN e
        /\ \A k \in DOMAIN typed : e[k] = typed[k]
        /\ \A k \in DOMAIN e \ DOMAIN typed :
             \/ k = "listenHost" /\ e[k] = "0.0.0.0"
             \/ k = "listenPort" /\ e[k] = 1080
        /\ typed.type # "tun" => {"listenHost", "listenPort"} \subseteq DOMAIN e
    <2>1. CASE typed.type = "tun"
      BY <1>4, <1>5, <2>1
    <2>2. CASE typed.type # "tun"
      <3>1. e = typed @@ address
        BY <1>4, <2>2
      <3>2. IsEntry(e)
        BY <1>3, <1>5, <3>1, EntryMerged
      <3>3. QED
        BY <1>3, <2>2, <3>1, <3>2 DEF @@
    <2>3. QED
      BY <2>1, <2>2
  <1>8. DOMAIN l \subseteq {"type", "listenHost", "listenPort", "username", "password"}
    BY AsAccessIs, FieldsAre DEF l
  <1>9. Credentials = {"username", "password"}
    BY DEF Credentials
  <1>10. "type" \in DOMAIN e
    BY <1>6, <1>7
  <1>11. \A k \in DOMAIN l : k \in DOMAIN e /\ e[k] = l[k]
    BY <1>6, <1>7
  <1>12. \A k \in DOMAIN b \ DOMAIN l :
                 \/ k \in Credentials /\ DOMAIN l \cap Credentials # {}
                 \/ k \in DOMAIN e /\ e[k] = b[k]
    BY <1>2, <1>6, <1>7
  <1>13. \A k \in DOMAIN e \ DOMAIN l :
                 \/ k \in DOMAIN b /\ e[k] = b[k]
                 \/ k = "type" /\ e[k] = "socks5"
                 \/ k = "listenHost" /\ e[k] = "0.0.0.0"
                 \/ k = "listenPort" /\ e[k] = 1080
    BY <1>2, <1>6, <1>7
  <1>14. DOMAIN l \cap Credentials # {} => DOMAIN e \cap Credentials \subseteq DOMAIN l
    <2>1. ASSUME DOMAIN l \cap Credentials # {}, NEW k \in DOMAIN e \cap Credentials
          PROVE  k \in DOMAIN l
      <3>1. k \notin DOMAIN kept
        BY <1>2, <2>1
      <3>2. k \in DOMAIN typed
        BY <1>7, <1>9, <2>1
      <3>3. QED
        BY <1>6, <1>9, <2>1, <3>1, <3>2
    <2>2. QED
      BY <2>1
  <1>15. e.type # "tun" => {"listenHost", "listenPort"} \subseteq DOMAIN e
    BY <1>6, <1>7
  <1>16. \A k \in {"name", "mtu"} : Same(e, b, k)
    <2> SUFFICES ASSUME NEW k \in {"name", "mtu"} PROVE Same(e, b, k)
      OBVIOUS
    <2>1. k \notin DOMAIN l /\ k \notin Credentials /\ k \notin {"type", "listenHost", "listenPort"}
      BY <1>8, <1>9
    <2>2. QED
      BY <1>12, <1>13, <2>1 DEF Same
  <1>17. QED
    BY <1>7, <1>10, <1>11, <1>12, <1>13, <1>14, <1>15, <1>16 DEF l, b, e

\* It changes the head of the list alone.
LEMMA SyncPrimaryAccessIs ==
  ASSUME NEW s, IsSettings(s)
  PROVE  LET t == SyncPrimaryAccess(s)
         IN /\ IsSettings(t)
            /\ \A k : k # "access" => Same(t, s, k)
            /\ "access" \in DOMAIN t /\ IsSequence(t.access) /\ t.access # <<>>
            /\ 1 \in DOMAIN t.access /\ t.access[1] = Synced(s)
            /\ Len(t.access) = IF Entries(s) = <<>> THEN 1 ELSE Len(Entries(s))
            /\ \A i \in DOMAIN t.access : i # 1 =>
                   i \in DOMAIN Entries(s) /\ t.access[i] = Entries(s)[i]
  <1> DEFINE entries == IF Entries(s) = <<>> THEN <<None>> ELSE Entries(s)
             q == [entries EXCEPT ![1] = Synced(s)]
             given == [access |-> q]
             t == SyncPrimaryAccess(s)
  <1>1. /\ IsSequence(entries) /\ entries # <<>> /\ 1 \in DOMAIN entries
        /\ \A i \in DOMAIN entries : i # 1 => i \in DOMAIN Entries(s) /\ entries[i] = Entries(s)[i]
        /\ Len(entries) = IF Entries(s) = <<>> THEN 1 ELSE Len(Entries(s))
    <2>1. CASE Entries(s) = <<>>
      BY <2>1 DEF IsSequence, Range
    <2>2. CASE Entries(s) # <<>>
      BY <2>2, BeneathIs DEF IsSettings
    <2>3. QED
      BY <2>1, <2>2
  <1>2. entries[1] = Beneath(s)
    BY DEF Beneath
  <1>3. t = [access |-> q] @@ s
    BY <1>2 DEF SyncPrimaryAccess, Synced, Typed, Kept
  <1>4. IsEntry(Synced(s))
    BY SyncedIs
  <1>5. \A i \in DOMAIN Entries(s) : IsEntry(Entries(s)[i])
    <2>1. CASE Entries(s) = <<>>
      BY <2>1
    <2>2. CASE Entries(s) # <<>>
      BY <2>2, BeneathIs, SettingsAre
    <2>3. QED
      BY <2>1, <2>2
  <1> HIDE DEF entries
  <1>6. /\ IsSequence(q) /\ q # <<>> /\ 1 \in DOMAIN q /\ q[1] = Synced(s)
        /\ DOMAIN q = DOMAIN entries /\ Len(q) = Len(entries)
        /\ \A i \in DOMAIN q : i # 1 => q[i] = entries[i]
    <2>1. /\ entries \in Seq(Range(entries)) /\ DOMAIN entries = 1..Len(entries)
          /\ Len(entries) \in Nat
      BY <1>1 DEF IsSequence
    <2>2. /\ DOMAIN q = DOMAIN entries /\ q[1] = Synced(s)
          /\ \A i \in DOMAIN q : i # 1 => q[i] = entries[i]
      BY <1>1
    <2> HIDE DEF q
    <2>3. q \in [1..Len(entries) -> Range(q)]
      <3>1. IsRecord(q)
        BY DEF IsRecord, q
      <3>2. QED
        BY <2>1, <2>2, <3>1 DEF Range, IsRecord
    <2>4. q \in Seq(Range(q)) /\ Len(q) = Len(entries)
      BY <2>1, <2>3
    <2>5. QED
      BY <1>1, <2>1, <2>2, <2>3, <2>4 DEF IsSequence
  <1> HIDE DEF q
  <1>7. \A i \in DOMAIN q : IsEntry(q[i])
    BY <1>1, <1>4, <1>5, <1>6
  <1>8. IsSettings(given)
    BY <1>6, <1>7, GivenSettings
  <1>9. DOMAIN given = {"access"} /\ given.access = q
    OBVIOUS
  <1> HIDE DEF given
  <1>10. t = given @@ s
    BY <1>3 DEF given
  <1>11. IsSettings(t)
    BY <1>8, <1>10, SettingsMerged
  <1>12. \A k : k # "access" => Same(t, s, k)
    BY <1>9, <1>10 DEF @@, Same
  <1>13. "access" \in DOMAIN t /\ t.access = q
    BY <1>9, <1>10 DEF @@
  <1> HIDE DEF t
  <1>14. QED
    BY <1>1, <1>6, <1>11, <1>12, <1>13 DEF t

-----------------------------------------------------------------------------
(* The layers of Load                                                        *)

\* Nothing given is variables, and flags, that touch nothing.
LEMMA NoSources ==
  IsEnvironment(None) /\ IsFlags(None) /\ ~Touches(None) /\ WithMode(None) = None
  BY NoneIs DEF IsEnvironment, IsFlags, Touches, WithMode

\* What a command is given by its variables or flags: scalars, with the mode.
LEMMA GivenScalars ==
  ASSUME NEW given, IsRecord(given), DOMAIN given \subseteq Scalars
  PROVE  DOMAIN WithMode(given) \subseteq Scalars
  <1>1. \A k : k # "mode" => Same(WithMode(given), given, k)
    BY WithModeIs
  <1>2. "mode" \in Scalars
    BY ScalarsAre
  <1>3. QED
    BY <1>1, <1>2 DEF Same

\* The scalar part of the variables.
LEMMA ScalarsOf ==
  ASSUME NEW env, IsEnvironment(env)
  PROVE  /\ IsRecord(Without(env, SectionNames))
         /\ DOMAIN Without(env, SectionNames) = DOMAIN env \ SectionNames
         /\ DOMAIN Without(env, SectionNames) \subseteq Scalars
         /\ \A k \in DOMAIN env \ SectionNames : Without(env, SectionNames)[k] = env[k]
  BY DEF Without, Restrict, IsRecord, IsEnvironment

\* Variables leave settings.
LEMMA ApplyEnvTyped ==
  ASSUME NEW s, NEW env, IsSettings(s), IsEnvironment(env)
  PROVE  /\ IsSettings(Assign(s, WithMode(Without(env, SectionNames))))
         /\ IsSettings(ApplySections(Assign(s, WithMode(Without(env, SectionNames))), env))
         /\ IsSettings(ApplyEnv(s, env))
  <1> DEFINE scalars == Without(env, SectionNames)
             a == Assign(s, WithMode(scalars))
             b == ApplySections(a, env)
  <1>1. IsSettings(a)
    BY ScalarsOf, GivenScalars, SettingsAssigned
  <1> HIDE DEF a
  <1>2. IsSettings(b)
    BY <1>1, ApplySectionsTyped
  <1>3. ApplyEnv(s, env) = IF Touches(env) THEN SyncPrimaryAccess(b) ELSE b
    BY DEF ApplyEnv, a
  <1> HIDE DEF b
  <1>4. IsSettings(ApplyEnv(s, env))
    BY <1>2, <1>3, SyncPrimaryAccessIs
  <1>5. QED
    BY <1>1, <1>2, <1>4 DEF a, b

\* Flags leave settings.
LEMMA ApplyOverridesTyped ==
  ASSUME NEW s, NEW flags, IsSettings(s), IsFlags(flags)
  PROVE  /\ IsSettings(Assign(s, WithMode(flags)))
         /\ IsSettings(ApplyOverrides(s, flags))
  <1> DEFINE a == Assign(s, WithMode(flags))
  <1>1. IsSettings(a)
    BY GivenScalars, SettingsAssigned DEF IsFlags
  <1>2. ApplyOverrides(s, flags) = IF Touches(flags) THEN SyncPrimaryAccess(a) ELSE a
    BY DEF ApplyOverrides
  <1> HIDE DEF a
  <1>3. IsSettings(ApplyOverrides(s, flags))
    BY <1>1, <1>2, SyncPrimaryAccessIs
  <1>4. QED
    BY <1>1, <1>3 DEF a

\* A file whose mode is there is laid over what is beneath as it is.
LEMMA ApplyPersistedIs ==
  ASSUME NEW s, NEW p, IsNormal(p)
  PROVE  ApplyPersisted(s, p) = p @@ s
  <1>1. "mode" \in DOMAIN p /\ IsRecord(p)
    <2>1. "type" \in DOMAIN p.access[1] /\ "mode" \in ListenerFields /\ AccessField["mode"] = "type"
      BY FieldsAre DEF IsNormal, AccessField
    <2>2. QED
      BY <2>1 DEF IsNormal, IsSettings
  <1>2. WithMode(p) = p
    <2>1. /\ IsRecord(WithMode(p)) /\ \A k : k # "mode" => Same(WithMode(p), p, k)
          /\ "mode" \in DOMAIN p => WithMode(p).mode = p.mode
          /\ "mode" \in DOMAIN WithMode(p)
      BY <1>1, WithModeIs
    <2>2. \A k : Same(WithMode(p), p, k)
      BY <1>1, <2>1 DEF Same
    <2>3. QED
      BY <1>1, <2>1, <2>2, SameIsEqual
  <1>3. QED
    BY <1>2 DEF ApplyPersisted

\* The files a resolution reads, one over the other.
IsFile(doc, none) == doc = none \/ IsSettings(doc)
Persisted(stored) ==
  IF stored = Absent THEN DefaultSettings ELSE LoadSettingsFile(stored) @@ DefaultSettings
Overlaid(stored, standalone) ==
  IF standalone = NotGiven THEN Persisted(stored)
  ELSE LoadSettingsFile(standalone) @@ Persisted(stored)

\* The layers of Load are settings, and their normal form is normal.
LEMMA LayeredIs ==
  ASSUME NEW stored, NEW standalone, NEW env, NEW flags,
         IsFile(stored, Absent), IsFile(standalone, NotGiven),
         IsEnvironment(env), IsFlags(flags)
  PROVE  /\ IsSettings(Persisted(stored))
         /\ IsSettings(Overlaid(stored, standalone))
         /\ IsSettings(ApplyEnv(Overlaid(stored, standalone), env))
         /\ IsSettings(ApplyOverrides(ApplyEnv(Overlaid(stored, standalone), env), flags))
         /\ Layered(stored, standalone, env, flags)
              = Normalize(ApplyOverrides(ApplyEnv(Overlaid(stored, standalone), env), flags))
         /\ IsNormal(Layered(stored, standalone, env, flags))
  <1>1. /\ IsSettings(Persisted(stored))
        /\ Persisted(stored) = IF stored = Absent THEN DefaultSettings
                   ELSE ApplyPersisted(DefaultSettings, LoadSettingsFile(stored))
    <2>1. CASE stored = Absent
      BY <2>1, DefaultSettingsAre DEF Persisted
    <2>2. CASE stored # Absent
      <3>1. IsNormal(LoadSettingsFile(stored))
        BY <2>2, LaidIs DEF IsFile
      <3>2. QED
        BY <2>2, <3>1, ApplyPersistedIs, DefaultSettingsAre, SettingsMerged DEF Persisted, IsNormal
    <2>3. QED
      BY <2>1, <2>2
  <1>2. /\ IsSettings(Overlaid(stored, standalone))
        /\ Overlaid(stored, standalone) = IF standalone = NotGiven THEN Persisted(stored)
                  ELSE ApplyPersisted(Persisted(stored), LoadSettingsFile(standalone))
    <2>1. CASE standalone = NotGiven
      BY <1>1, <2>1 DEF Overlaid
    <2>2. CASE standalone # NotGiven
      <3>1. IsNormal(LoadSettingsFile(standalone))
        BY <2>2, LaidIs DEF IsFile
      <3>2. QED
        BY <1>1, <2>2, <3>1, ApplyPersistedIs, SettingsMerged DEF Overlaid, IsNormal
    <2>3. QED
      BY <2>1, <2>2
  <1>3. IsSettings(ApplyEnv(Overlaid(stored, standalone), env))
    BY <1>2, ApplyEnvTyped
  <1>4. IsSettings(ApplyOverrides(ApplyEnv(Overlaid(stored, standalone), env), flags))
    BY <1>3, ApplyOverridesTyped
  <1>5. Layered(stored, standalone, env, flags)
              = Normalize(ApplyOverrides(ApplyEnv(Overlaid(stored, standalone), env), flags))
    BY <1>1, <1>2 DEF Layered
  <1>6. QED
    BY <1>1, <1>2, <1>3, <1>4, <1>5, NormalizeNormal

\* Without variables and flags the layers only drop two sections that say nothing.
LEMMA NoOverrides ==
  ASSUME NEW s, IsSettings(s)
  PROVE  /\ ApplyOverrides(s, None) = s
         /\ ApplyEnv(s, None) = ApplySections(s, None)
         /\ \A k : k \notin SectionNames => Same(ApplyEnv(s, None), s, k)
         /\ \A k \in SectionNames :
              /\ k \in DOMAIN ApplyEnv(s, None)
                   <=> k \in DOMAIN s /\ ~(k \in {"masque", "dns"} /\ DOMAIN s[k] = {})
              /\ k \in DOMAIN ApplyEnv(s, None) => ApplyEnv(s, None)[k] = s[k]
  <1>1. IsRecord(s) /\ \A k \in DOMAIN s \cap SectionNames : IsRecord(s[k])
    BY DEF IsSettings, IsSection
  <1>2. ApplyOverrides(s, None) = s
    BY <1>1, NoSources, AssignNone DEF ApplyOverrides
  <1>3. Without(None, SectionNames) = None
    BY NoneIs, WithoutIs, SameIsEqual DEF Same
  <1>4. ApplyEnv(s, None) = ApplySections(s, None)
    BY <1>1, <1>3, NoSources, AssignNone DEF ApplyEnv
  <1> DEFINE t == ApplySections(s, None)
  <1>5. /\ \A k : k \notin SectionNames => Same(t, s, k)
        /\ \A k \in SectionNames :
                 /\ k \in DOMAIN t <=> k \in DOMAIN s \cup DOMAIN None /\ ~Drops(s, None, k)
                 /\ k \in DOMAIN t => t[k] = Opts(s, None, k)
    BY ApplySectionsIs
  <1> HIDE DEF t
  <1>6. \A k \in SectionNames : k \in DOMAIN s => Opts(s, None, k) = s[k]
    BY <1>1, NoneIs, OptsAre
  <1>7. \A k \in SectionNames : k \in DOMAIN s =>
          (Drops(s, None, k) <=> k \in {"masque", "dns"} /\ DOMAIN s[k] = {})
    BY <1>6, NoneIs DEF Drops
  <1>8. /\ \A k \in SectionNames :
              /\ k \in DOMAIN t
                   <=> k \in DOMAIN s /\ ~(k \in {"masque", "dns"} /\ DOMAIN s[k] = {})
              /\ k \in DOMAIN t => t[k] = s[k]
    BY <1>5, <1>6, <1>7, NoneIs
  <1>9. QED
    BY <1>2, <1>4, <1>5, <1>8 DEF t

\* The access list of the normal form depends on these fields alone.
Listening == ListenerFields \cup {"proxyMode", "access"}

\* The normalised list depends on the listener fields and the list alone.
LEMMA NormalAccessDepends ==
  ASSUME NEW s, NEW t, \A k \in Listening : Same(s, t, k)
  PROVE  Primary(s) = Primary(t) /\ NormalAccess(s) = NormalAccess(t)
  <1> DEFINE u == Selected(s)
             v == Selected(t)
  <1>1. \A k : k \notin {"runtimeFamily", "transport"} => Same(u, s, k)
    BY SelectedIs
  <1>2. \A k : k \notin {"runtimeFamily", "transport"} => Same(v, t, k)
    BY SelectedIs
  <1>3. \A k \in Listening : k \notin {"runtimeFamily", "transport"}
    BY FieldsAre DEF Listening
  <1> HIDE DEF u, v
  <1>4. \A k \in Listening : Same(u, v, k)
    BY <1>1, <1>2, <1>3 DEF Same
  <1>5. /\ Same(u, v, "access") /\ Same(u, v, "proxyMode") /\ Same(u, v, "mode")
    BY <1>4, FieldsAre DEF Listening
  <1>6. ModeOf(u) = ModeOf(v)
    BY <1>5 DEF ModeOf, Get, Same
  <1>7. Entries(u) = Entries(v) /\ (Entries(u) # <<>> => u.access = v.access)
    BY <1>5 DEF Entries, Get, Same
  <1>8. MadeEntry(u) = MadeEntry(v)
    <2> DEFINE m == [mode |-> ModeOf(u)]
               x == m @@ u
               y == m @@ v
    <2>1. \A k \in ListenerFields : Same(x, y, k)
      <3>1. \A k \in ListenerFields : Same(u, v, k)
        BY <1>4 DEF Listening
      <3> HIDE DEF m
      <3>2. QED
        BY <3>1 DEF @@, Same
    <2> HIDE DEF x, y, m
    <2>2. \A k \in DOMAIN LegacyField : Same(AsAccess(x), AsAccess(y), k)
      BY <2>1, FieldsAre, AsAccessIs DEF Same
    <2>3. AsAccess(x) = AsAccess(y)
      BY <2>2, AsAccessIs, SameIsEqual DEF Same
    <2>4. QED
      BY <1>6, <2>3 DEF MadeEntry, x, y, m
  <1>9. NormalEntries(u) = NormalEntries(v)
    <2>1. CASE Entries(u) = <<>>
      BY <1>7, <1>8, <2>1 DEF NormalEntries
    <2>2. CASE Entries(u) # <<>>
      BY <1>7, <2>2 DEF NormalEntries
    <2>3. QED
      BY <2>1, <2>2
  <1>10. QED
    BY <1>6, <1>9 DEF Primary, NormalAccess, u, v

\* A list whose first entry has a type is normalised for itself.
LEMMA NormalAccessListed ==
  ASSUME NEW s, IsSettings(s), Entries(s) # <<>>, "type" \in DOMAIN Entries(s)[1]
  PROVE  /\ Primary(s) = NormalEntry(s.access[1])
         /\ NormalAccess(s) = [i \in DOMAIN s.access |-> NormalEntry(s.access[i])]
  <1> DEFINE u == Selected(s)
             q == NormalEntries(u)
  <1>1. Entries(u) = Entries(s) /\ "access" \in DOMAIN s /\ u.access = s.access
    <2>1. Same(u, s, "access")
      BY SelectedIs
    <2>2. QED
      BY <2>1 DEF Entries, Get, Same
  <1>2. Entries(s) = s.access
    BY <1>1, EntriesOf
  <1>3. q = [i \in DOMAIN s.access |-> NormalEntry(s.access[i])]
    BY <1>1, <1>2 DEF NormalEntries
  <1>4. 1 \in DOMAIN s.access /\ IsEntry(s.access[1])
    BY <1>2, BeneathIs, SettingsAre
  <1>5. q[1] = NormalEntry(s.access[1]) /\ IsRecord(q[1]) /\ "type" \in DOMAIN q[1]
    BY <1>2, <1>3, <1>4, NormalEntryIs DEF IsEntry, Same
  <1> HIDE DEF q
  <1>6. Primary(s) = q[1]
    <2>1. Primary(s) = q[1] @@ [type |-> ModeOf(u)]
      BY DEF Primary, q
    <2>2. QED
      BY <1>5, <2>1 DEF @@, IsRecord
  <1>7. [q EXCEPT ![1] = q[1]] = q
    BY <1>3
  <1>8. QED
    BY <1>3, <1>5, <1>6, <1>7 DEF NormalAccess, q

-----------------------------------------------------------------------------
(* What normal and valid settings say, and how they are written              *)

\* What Normalize says of the listener depends on that.
LEMMA NormalizeListening ==
  ASSUME NEW s, NEW t, \A k \in Listening : Same(s, t, k)
  PROVE  \A k \in Listening : Same(Normalize(s), Normalize(t), k)
  <1>1. Primary(s) = Primary(t) /\ NormalAccess(s) = NormalAccess(t)
    BY NormalAccessDepends
  <1>2. \A f \in ListenerFields : Same(Normalize(s), Normalize(t), f)
    BY <1>1, NormalizeIs DEF Same
  <1>3. Same(Normalize(s), Normalize(t), "access") /\ Same(Normalize(s), Normalize(t), "proxyMode")
    BY <1>1, NormalizeIs DEF Same
  <1>4. QED
    BY <1>2, <1>3 DEF Listening

\* A list that is normal already says everything about the listener.
LEMMA ListeningKept ==
  ASSUME NEW s, NEW n, IsSettings(s), IsNormal(n), Same(s, n, "access")
  PROVE  \A k \in Listening : Same(Normalize(s), n, k)
  <1>1. /\ "access" \in DOMAIN s /\ s.access = n.access /\ Entries(s) = n.access
        /\ n.access # <<>> /\ "type" \in DOMAIN n.access[1]
    BY EntriesOf DEF IsNormal, Same
  <1>2. 1 \in DOMAIN n.access /\ IsRecord(n.access)
    BY <1>1, NormalPrimary, NonEmptyIs
  <1>3. \A i \in DOMAIN n.access : NormalEntry(n.access[i]) = n.access[i]
    BY DEF IsNormal
  <1>4. Primary(s) = n.access[1] /\ NormalAccess(s) = n.access
    <2>1. Primary(s) = n.access[1]
      BY <1>1, <1>2, <1>3, NormalAccessListed
    <2>2. NormalAccess(s) = [i \in DOMAIN n.access |-> NormalEntry(n.access[i])]
      BY <1>1, NormalAccessListed
    <2>3. QED
      BY <1>2, <1>3, <2>1, <2>2 DEF IsRecord
  <1>5. \A f \in ListenerFields : Same(Normalize(s), n, f)
    BY <1>4, NormalizeIs DEF IsNormal, Same
  <1>6. Same(Normalize(s), n, "access") /\ Same(Normalize(s), n, "proxyMode")
    BY <1>4, NormalizeIs DEF IsNormal, Same
  <1>7. QED
    BY <1>5, <1>6 DEF Listening

\* A valid entry has a type, an address, and both credentials or none.
LEMMA ValidEntryIs ==
  ASSUME NEW e, ValidEntry(e)
  PROVE  /\ {"type", "listenHost", "listenPort"} \subseteq DOMAIN e
         /\ e.type \in {"socks5", "http"}
         /\ ("username" \in DOMAIN e) <=> ("password" \in DOMAIN e)
  <1>1. /\ Get(e, "type", Unset) \in {"socks5", "http"}
        /\ "listenHost" \in DOMAIN e
        /\ Get(e, "listenPort", 0) \in 1..LastPort
        /\ ("username" \in DOMAIN e) <=> ("password" \in DOMAIN e)
    BY DEF ValidEntry
  <1>2. "type" \in DOMAIN e /\ e.type \in {"socks5", "http"}
    BY <1>1, UnsetIs DEF Get
  <1>3. "listenPort" \in DOMAIN e
    <2>1. Get(e, "listenPort", 0) # 0
      BY <1>1
    <2>2. QED
      BY <2>1 DEF Get
  <1>4. QED
    BY <1>1, <1>2, <1>3

\* What validation says of normal settings.
LEMMA ValidIs ==
  ASSUME NEW s, IsNormal(s), Validate(s)
  PROVE  /\ {"runtimeFamily", "transport", "logLevel", "mode", "proxyMode", "listenHost",
             "listenPort", "access", "backend"} \subseteq DOMAIN s
         /\ \/ s.runtimeFamily = "legacy" /\ s.transport = "wireguard"
            \/ s.runtimeFamily = "native" /\ s.transport = "masque"
         /\ s.logLevel \in LogLevels
         /\ "endpointOverride" \in DOMAIN s => s.endpointOverride \in Endpoints
         /\ DeriveBackendTag(s) = [backend |-> s.backend]
         /\ ValidAccess(s.access) /\ \A i \in DOMAIN s.access : ValidEntry(s.access[i])
         /\ ValidEntry(s.access[1])
         /\ "username" \in DOMAIN s.access[1] <=> "password" \in DOMAIN s.access[1]
         /\ {"type", "listenHost", "listenPort"} \subseteq DOMAIN s.access[1]
         /\ \A i \in DOMAIN s.access : s.access[i].type \in {"socks5", "http"}
  <1>1. Normalize(s) = s
    BY NormalFixed
  <1>2. /\ <<Get(s, "runtimeFamily", Unset), Get(s, "transport", Unset)>>
          \in {<<"legacy", "wireguard">>, <<"native", "masque">>}
        /\ Get(s, "logLevel", Unset) \in LogLevels
        /\ "endpointOverride" \in DOMAIN s => s.endpointOverride \in Endpoints
        /\ ValidAccess(s.access)
    BY <1>1 DEF Validate
  <1>3. \/ Get(s, "runtimeFamily", Unset) = "legacy" /\ Get(s, "transport", Unset) = "wireguard"
        \/ Get(s, "runtimeFamily", Unset) = "native" /\ Get(s, "transport", Unset) = "masque"
    BY <1>2
  <1>4. /\ "runtimeFamily" \in DOMAIN s /\ "transport" \in DOMAIN s
        /\ \/ s.runtimeFamily = "legacy" /\ s.transport = "wireguard"
           \/ s.runtimeFamily = "native" /\ s.transport = "masque"
    BY <1>3, UnsetIs DEF Get
  <1>5. "logLevel" \in DOMAIN s /\ s.logLevel \in LogLevels
    <2>1. Unset \notin LogLevels
      BY Zenon DEF Unset, LogLevels
    <2>2. QED
      BY <1>2, <2>1 DEF Get
  <1>6. "backend" \in DOMAIN DeriveBackendTag(s)
    <2>1. \E sel \in Selections : /\ Get(s, "runtimeFamily", Unset) = sel.runtimeFamily
                                  /\ Get(s, "transport", Unset) = sel.transport
      BY <1>3 DEF Selections
    <2>2. QED
      BY <2>1 DEF DeriveBackendTag
  <1>7. "backend" \in DOMAIN s /\ DeriveBackendTag(s) = [backend |-> s.backend]
    BY <1>6, DeriveIs DEF IsNormal
  <1>8. \A i \in DOMAIN s.access : ValidEntry(s.access[i])
    BY <1>2 DEF ValidAccess
  <1>9. ValidEntry(s.access[1]) /\ 1 \in DOMAIN s.access
    BY <1>8, NormalPrimary
  <1>10. \A e : ValidEntry(e) => /\ {"type", "listenHost", "listenPort"} \subseteq DOMAIN e
                                 /\ e.type \in {"socks5", "http"}
                                 /\ "username" \in DOMAIN e <=> "password" \in DOMAIN e
    BY ValidEntryIs
  <1>11. {"mode", "listenHost", "listenPort"} \subseteq DOMAIN s
    BY <1>9, <1>10, FieldsAre DEF IsNormal, AccessField
  <1>12. "proxyMode" \in DOMAIN s /\ "access" \in DOMAIN s
    BY DEF IsNormal
  <1>13. QED
    BY <1>2, <1>4, <1>5, <1>7, <1>8, <1>9, <1>10, <1>11, <1>12

\* The saved form of normal settings.
LEMMA MarshalIs ==
  ASSUME NEW s, IsNormal(s)
  PROVE  LET m == Marshal(s)
         IN /\ IsSettings(m)
            /\ DOMAIN m \subseteq DOMAIN s \ {"backend", "proxyMode"}
            /\ \A k \in DOMAIN m : m[k] = s[k]
            /\ \A k : k \notin {"backend", "proxyMode", "access"} \cup SectionNames => Same(m, s, k)
            /\ "access" \in DOMAIN m \/ s.access = <<AsAccess(s)>>
            /\ \A k \in SectionNames :
                 k \in DOMAIN m <=>
                     k \in DOMAIN s /\ ~(k \in {"dns", "rotation", "daemon"} /\ DOMAIN s[k] = {})
  <1> DEFINE empty == {k \in {"dns", "rotation", "daemon"} \cap DOMAIN s : DOMAIN s[k] = {}}
             legacyOnly == IF s.access = <<AsAccess(s)>> THEN {"access"} ELSE {}
             gone == {"backend", "proxyMode"} \cup empty \cup legacyOnly
             m == Marshal(s)
  <1>1. m = Without(s, gone)
    BY NormalFixed DEF Marshal
  <1>2. IsSettings(m)
    BY <1>1, SettingsWithout DEF IsNormal
  <1>3. DOMAIN m = DOMAIN s \ gone /\ \A k \in DOMAIN m : m[k] = s[k]
    <2> HIDE DEF m, gone
    <2>1. QED
      BY <1>1 DEF Without, Restrict
  <1>4. legacyOnly \subseteq {"access"} /\ empty \subseteq SectionNames
    BY DEF SectionNames
  <1>5. \A k \in SectionNames : k \in gone <=>
            k \in DOMAIN s /\ k \in {"dns", "rotation", "daemon"} /\ DOMAIN s[k] = {}
    BY DEF SectionNames
  <1>6. "access" \in gone => s.access = <<AsAccess(s)>>
    BY <1>4 DEF SectionNames
  <1>7. "access" \in DOMAIN s
    BY DEF IsNormal
  <1>8. {"backend", "proxyMode"} \subseteq gone
    OBVIOUS
  <1>9. \A k : k \notin {"backend", "proxyMode", "access"} \cup SectionNames => k \notin gone
    BY <1>4
  <1> HIDE DEF m, gone
  <1>10. QED
    BY <1>2, <1>3, <1>5, <1>6, <1>7, <1>8, <1>9 DEF m, Same

\* Every field is of one of these kinds.
LEMMA FieldKinds ==
  ASSUME NEW k, k \in SettingsFields
  PROVE  k \in Listening \/ k \in Selecting \/ k \in Settled \/ k = "backend" \/ k \in SectionNames
  BY NamesAreApart DEF Listening

\* Sections are no other fields, and the defaults have none.
LEMMA KindsApart ==
  /\ \A k \in Listening \cup Selecting \cup Settled \cup {"backend"} : k \notin SectionNames
  /\ DOMAIN DefaultSettings \cap (SectionNames \cup
         {"endpointOverride", "proxyUsername", "proxyPassword", "access"}) = {}
  /\ Selecting \cup {"logLevel", "backend", "mode", "proxyMode"} \subseteq DOMAIN DefaultSettings
  BY NamesAreApart, DefaultSettingsAre DEF Listening, Settled, Selecting, SectionNames

\* A file that has been read states these fields.
LEMMA LoadedStates ==
  ASSUME NEW doc, IsSettings(doc)
  PROVE  {"runtimeFamily", "transport", "logLevel", "backend", "mode", "proxyMode", "access"}
           \subseteq DOMAIN LoadSettingsFile(doc)
  <1>1. /\ IsSettings(Laid(doc)) /\ LoadSettingsFile(doc) = Normalize(Laid(doc))
        /\ DOMAIN DefaultSettings \subseteq DOMAIN Laid(doc)
    BY LaidIs
  <1>2. {"runtimeFamily", "transport", "logLevel", "backend"} \subseteq DOMAIN Laid(doc)
    BY <1>1, DefaultSettingsAre
  <1>3. QED
    BY <1>1, <1>2, NormalizeKeeps DEF Selecting, Settled

\* What a command without other sources resolves: the settings that a set
\* command starts from, normalised, but for two sections that say nothing.
Mutable(stored) == IF stored = Absent THEN DefaultSettings ELSE LoadSettingsFile(stored)
SaysNothing(s, k) == k \in {"masque", "dns"} /\ DOMAIN s[k] = {}

\* What a command without other sources makes of settings.json.
LEMMA ReadBack ==
  ASSUME NEW stored, IsFile(stored, Absent)
  PROVE  LET b == Layered(stored, NotGiven, None, None)
             n == Normalize(Mutable(stored))
         IN /\ IsNormal(b) /\ IsNormal(n) /\ IsSettings(Mutable(stored))
            /\ \A k : k \notin SectionNames => Same(b, n, k)
            /\ \A k \in SectionNames :
                 /\ k \in DOMAIN b <=> k \in DOMAIN n /\ ~SaysNothing(n, k)
                 /\ k \in DOMAIN b => b[k] = n[k]
  <1> DEFINE p == Persisted(stored)
             y == ApplyEnv(p, None)
             b == Layered(stored, NotGiven, None, None)
             n == Normalize(Mutable(stored))
  <1>1. /\ IsSettings(p) /\ IsSettings(y) /\ IsNormal(b) /\ b = Normalize(y)
    <2>1. IsFile(NotGiven, NotGiven) /\ Overlaid(stored, NotGiven) = p
      BY DEF IsFile, Overlaid
    <2>2. /\ IsSettings(p) /\ IsSettings(ApplyEnv(p, None)) /\ IsNormal(b)
          /\ b = Normalize(ApplyOverrides(ApplyEnv(p, None), None))
      BY <2>1, NoSources, LayeredIs
    <2>3. QED
      BY <2>2, NoOverrides
  <1>2. /\ \A k : k \notin SectionNames => Same(y, p, k)
        /\ \A k \in SectionNames :
              /\ k \in DOMAIN y <=> k \in DOMAIN p /\ ~SaysNothing(p, k)
              /\ k \in DOMAIN y => y[k] = p[k]
    BY <1>1, NoOverrides DEF SaysNothing
  <1>3. CASE stored = Absent
    <2>1. p = DefaultSettings /\ n = Normalize(DefaultSettings)
      BY <1>3 DEF Persisted, Mutable
    <2>2. \A k : Same(y, DefaultSettings, k)
      BY <1>2, <2>1, KindsApart DEF Same
    <2>3. y = DefaultSettings
      BY <1>1, <2>2, DefaultSettingsAre, SameIsEqual DEF IsSettings
    <2>4. b = n
      BY <1>1, <2>1, <2>3
    <2>5. \A k \in SectionNames : k \notin DOMAIN n
      BY <2>1, DefaultSettingsAre, NormalizeKeeps, KindsApart
    <2> HIDE DEF b, n
    <2>6. \A k : Same(b, n, k)
      BY <2>4 DEF Same
    <2>7. IsNormal(b) /\ IsNormal(n)
      BY <1>1, <2>4
    <2>8. IsSettings(Mutable(stored))
      BY <1>3, DefaultSettingsAre DEF Mutable
    <2>9. \A k \in SectionNames :
                 /\ k \in DOMAIN b <=> k \in DOMAIN n /\ ~SaysNothing(n, k)
                 /\ k \in DOMAIN b => b[k] = n[k]
      BY <2>5, <2>6 DEF Same
    <2>10. QED
      BY <2>6, <2>7, <2>8, <2>9 DEF b, n
  <1>4. CASE stored # Absent
    <2> DEFINE l == LoadSettingsFile(stored)
    <2>1. IsSettings(stored)
      BY <1>4 DEF IsFile
    <2>2. IsNormal(l) /\ Mutable(stored) = l /\ n = l /\ p = l @@ DefaultSettings
      BY <1>4, <2>1, LaidIs, NormalFixed DEF Mutable, Persisted
    <2>3. {"runtimeFamily", "transport", "logLevel", "backend", "mode", "proxyMode", "access"}
           \subseteq DOMAIN l
      BY <2>1, LoadedStates
    <2> HIDE DEF b, n, p, y, l
    <2>4. /\ \A k \in DOMAIN l : k \in DOMAIN p /\ p[k] = l[k]
          /\ \A k : k \notin DOMAIN DefaultSettings => Same(p, l, k)
      BY <2>2 DEF @@, Same
    <2>5. \A k \in Selecting \cup Settled \cup {"backend", "access"} : Same(y, l, k)
      <3>1. \A k \in Selecting \cup Settled \cup {"backend", "access"} :
              k \notin SectionNames /\ (k \in DOMAIN l \/ k \notin DOMAIN DefaultSettings)
        BY <2>3, KindsApart DEF Selecting, Settled, Listening
      <3>2. QED
        BY <1>2, <2>4, <3>1 DEF Same
    <2>6. \A k \in Listening : Same(b, l, k)
      BY <1>1, <2>2, <2>5, ListeningKept
    <2>7. Selecting \subseteq DOMAIN y /\ Selected(y) = y
      <3>1. Selecting \subseteq DOMAIN y /\ IsRecord(y)
        BY <1>1, <2>3, <2>5 DEF Selecting, Same, IsSettings
      <3>2. QED
        BY <3>1, SelectedAlready DEF Selecting
    <2>8. \A k \in Selecting \cup Settled : Same(b, l, k)
      <3>1. \A k \in Selecting : Same(b, y, k)
        BY <1>1, <2>7, NormalizeIs
      <3>2. \A k \in Settled : Same(b, y, k)
        BY <1>1, NormalizeKeeps
      <3>3. QED
        BY <2>5, <3>1, <3>2 DEF Same
    <2>9. Same(b, l, "backend")
      <3>1. DeriveBackendTag(y) = DeriveBackendTag(l)
        BY <2>5, DeriveSame DEF Selecting
      <3>2. CASE "backend" \in DOMAIN DeriveBackendTag(y)
        <4>1. "backend" \in DOMAIN b /\ b.backend = DeriveBackendTag(y).backend
          BY <1>1, <2>7, <3>2, NormalizeIs
        <4>2. "backend" \in DOMAIN l /\ l.backend = DeriveBackendTag(l).backend
          BY <2>2, <3>1, <3>2 DEF IsNormal
        <4>3. QED
          BY <3>1, <4>1, <4>2 DEF Same
      <3>3. CASE "backend" \notin DOMAIN DeriveBackendTag(y)
        <4>1. Same(b, y, "backend")
          BY <1>1, <2>7, <3>3, NormalizeIs
        <4>2. QED
          BY <2>5, <4>1 DEF Same
      <3>4. QED
        BY <3>2, <3>3
    <2>10. \A k : k \notin SectionNames => Same(b, l, k)
      <3>1. DOMAIN b \subseteq SettingsFields /\ DOMAIN l \subseteq SettingsFields
        BY <1>1, <2>2 DEF IsNormal, IsSettings
      <3>2. \A k \in SettingsFields : k \notin SectionNames => Same(b, l, k)
        BY <2>6, <2>8, <2>9, FieldKinds
      <3>3. QED
        BY <3>1, <3>2 DEF Same
    <2>11. \A k \in SectionNames :
                 /\ k \in DOMAIN b <=> k \in DOMAIN l /\ ~SaysNothing(l, k)
                 /\ k \in DOMAIN b => b[k] = l[k]
      <3> SUFFICES ASSUME NEW k \in SectionNames
                   PROVE  /\ k \in DOMAIN b <=> k \in DOMAIN l /\ ~SaysNothing(l, k)
                          /\ k \in DOMAIN b => b[k] = l[k]
        OBVIOUS
      <3>1. Same(p, l, k)
        BY <2>4, KindsApart
      <3>2. k \in DOMAIN b <=> k \in DOMAIN y
        BY <1>1, NormalizeIs
      <3>3. k \in DOMAIN b => b[k] = NormalSection(k, y[k])
        BY <1>1, NormalizeIs
      <3>4. k \in DOMAIN l => NormalSection(k, l[k]) = l[k]
        BY <2>2 DEF IsNormal
      <3>5. QED
        BY <1>2, <3>1, <3>2, <3>3, <3>4 DEF Same, SaysNothing
    <2>12. QED
      BY <1>1, <2>2, <2>10, <2>11 DEF b, n, IsNormal
  <1>5. QED
    BY <1>3, <1>4

\* Trimmed leaves out the sections that say nothing.
LEMMA TrimmedIs ==
  ASSUME NEW s
  PROVE  /\ IsRecord(Trimmed(s))
         /\ \A k : k \notin SectionNames => Same(Trimmed(s), s, k)
         /\ \A k \in SectionNames :
              /\ k \in DOMAIN Trimmed(s) <=> k \in DOMAIN s /\ DOMAIN s[k] # {}
              /\ k \in DOMAIN Trimmed(s) => Trimmed(s)[k] = s[k]
  <1> DEFINE gone == {k \in DOMAIN s \cap SectionNames : DOMAIN s[k] = {}}
  <1>1. \A k : k \in gone <=> k \in DOMAIN s /\ k \in SectionNames /\ DOMAIN s[k] = {}
    OBVIOUS
  <1>2. Trimmed(s) = Without(s, gone)
    BY DEF Trimmed
  <1> HIDE DEF gone
  <1>3. /\ IsRecord(Trimmed(s)) /\ DOMAIN Trimmed(s) = DOMAIN s \ gone
        /\ \A k \in DOMAIN s \ gone : Trimmed(s)[k] = s[k]
    BY <1>2 DEF Without, Restrict, IsRecord
  <1>4. QED
    BY <1>1, <1>3 DEF Same

\* What is saved of valid settings, laid over the defaults, says what they say.
LEMMA SavedOverDefaults ==
  ASSUME NEW s, IsNormal(s), Validate(s)
  PROVE  /\ IsSettings(Marshal(s)) /\ "mode" \in DOMAIN Marshal(s)
         /\ \A k : k \notin SectionNames => Same(LoadSettingsFile(Marshal(s)), s, k)
         /\ \A k \in SectionNames :
              /\ k \in DOMAIN LoadSettingsFile(Marshal(s))
                   <=> k \in DOMAIN s /\ ~(k \in {"dns", "rotation", "daemon"} /\ DOMAIN s[k] = {})
              /\ k \in DOMAIN LoadSettingsFile(Marshal(s)) => LoadSettingsFile(Marshal(s))[k] = s[k]
  <1> DEFINE m == Marshal(s)
             a == Laid(m)
             l == LoadSettingsFile(m)
  <1>1. /\ IsSettings(m)
        /\ DOMAIN m \subseteq DOMAIN s \ {"backend", "proxyMode"}
        /\ \A k \in DOMAIN m : m[k] = s[k]
        /\ \A k : k \notin {"backend", "proxyMode", "access"} \cup SectionNames => Same(m, s, k)
        /\ "access" \in DOMAIN m \/ s.access = <<AsAccess(s)>>
        /\ \A k \in SectionNames :
             k \in DOMAIN m <=>
                 k \in DOMAIN s /\ ~(k \in {"dns", "rotation", "daemon"} /\ DOMAIN s[k] = {})
    BY MarshalIs
  <1>2. /\ {"runtimeFamily", "transport", "logLevel", "mode", "proxyMode", "listenHost",
             "listenPort", "access", "backend"} \subseteq DOMAIN s
        /\ DeriveBackendTag(s) = [backend |-> s.backend]
    BY ValidIs
  <1>3. IsSettings(s) /\ s.proxyMode = s.mode /\ s.mode # Unset
    <2>1. IsSettings(s)
      BY DEF IsNormal
    <2>2. s.mode = s.access[1].type /\ s.proxyMode = s.access[1].type
      BY <1>2, FieldsAre DEF IsNormal, AccessField
    <2>3. QED
      BY <2>1, <2>2, NormalPrimary
  <1>4. /\ IsSettings(a) /\ l = Normalize(a) /\ IsNormal(l)
        /\ DOMAIN DefaultSettings \subseteq DOMAIN a
        /\ \A k \in DOMAIN m \ {"mode", "proxyMode"} : k \in DOMAIN a /\ a[k] = m[k]
        /\ \A k : k \notin DOMAIN DefaultSettings => Same(a, m, k)
    BY <1>1, LaidIs
  <1>5. {"mode", "runtimeFamily", "transport", "logLevel", "listenHost",
            "listenPort"} \subseteq DOMAIN m
    BY <1>1, <1>2 DEF Same, SectionNames
  <1>6. "mode" \in DOMAIN a /\ "proxyMode" \in DOMAIN a /\ a.mode = s.mode /\ a.proxyMode = s.mode
    <2>1. /\ Aliased(m).mode = m.mode /\ "mode" \in DOMAIN Aliased(m)
          /\ "proxyMode" \in DOMAIN Aliased(m) /\ Aliased(m).proxyMode = m.mode
      BY <1>1, <1>5, AliasedIs
    <2>2. \A k \in DOMAIN Aliased(m) : k \in DOMAIN a /\ a[k] = Aliased(m)[k]
      BY DEF Laid, @@
    <2> HIDE DEF a, m
    <2>3. QED
      BY <1>1, <1>5, <2>1, <2>2
  <1> HIDE DEF m, a, l
  <1>7. \A k : k \notin {"backend", "access"} \cup SectionNames => Same(a, s, k)
    <2> SUFFICES ASSUME NEW k, k \notin {"backend", "access"} \cup SectionNames
                 PROVE  Same(a, s, k)
      OBVIOUS
    <2>1. CASE k \in {"mode", "proxyMode"}
      BY <1>2, <1>3, <1>6, <2>1 DEF Same
    <2>2. CASE k \notin {"mode", "proxyMode"}
      <3>1. Same(m, s, k)
        BY <1>1, <2>2
      <3>2. CASE k \in DOMAIN DefaultSettings
        <4>1. k \in DOMAIN m
          BY <1>5, <2>2, <3>2, DefaultSettingsAre
        <4>2. QED
          BY <1>4, <2>2, <3>1, <4>1 DEF Same
      <3>3. CASE k \notin DOMAIN DefaultSettings
        BY <1>4, <3>1, <3>3 DEF Same
      <3>4. QED
        BY <3>2, <3>3
    <2>3. QED
      BY <2>1, <2>2
  <1>8. \A f \in ListenerFields : f \notin {"backend", "access"} \cup SectionNames \cup
            {"proxyMode"}
    BY NamesAreApart
  <1>9. \A k \in Listening : Same(l, s, k)
    <2>1. CASE "access" \in DOMAIN m
      <3>1. Same(a, s, "access")
        BY <1>1, <1>2, <1>4, <2>1, KindsApart DEF Same
      <3>2. QED
        BY <1>4, <3>1, ListeningKept
    <2>2. CASE "access" \notin DOMAIN m
      <3> DEFINE e == AsAccess(s)
                 u == Selected(a)
                 x == [mode |-> ModeOf(u)] @@ u
      <3>1. s.access = <<e>>
        BY <1>1, <2>2
      <3>2. "access" \notin DOMAIN a
        BY <1>4, <2>2, KindsApart DEF Same
      <3>3. \A k : k \notin {"backend", "access", "runtimeFamily", "transport"} \cup SectionNames
              => Same(u, s, k)
        <4>1. \A k : k \notin {"runtimeFamily", "transport"} => Same(u, a, k)
          BY SelectedIs
        <4>2. QED
          BY <1>7, <4>1 DEF Same
      <3>4. Entries(u) = <<>>
        <4>1. Same(u, a, "access")
          BY SelectedIs
        <4>2. QED
          BY <3>2, <4>1 DEF Entries, Get, Same
      <3> HIDE DEF u
      <3>5. ModeOf(u) = s.mode
        <4>1. Same(u, s, "mode") /\ Same(u, s, "proxyMode")
          BY <3>3 DEF SectionNames
        <4>2. QED
          BY <1>2, <1>3, <4>1, ModeOfIs DEF Same
      <3>6. \A f \in ListenerFields : Same(x, s, f)
        <4> DEFINE g == [mode |-> ModeOf(u)]
        <4>1. DOMAIN g = {"mode"} /\ g.mode = s.mode
          BY <3>5
        <4>2. \A f \in ListenerFields : Same(u, s, f)
          <5>1. \A f \in ListenerFields : f \notin {"backend", "access", "runtimeFamily",
                    "transport"} \cup SectionNames
            BY NamesAreApart DEF Selecting
          <5>2. QED
            BY <3>3, <5>1
        <4> HIDE DEF g
        <4>3. QED
          <5>1. x = g @@ u
            BY DEF g
          <5> HIDE DEF x
          <5>2. QED
            BY <1>2, <4>1, <4>2, <5>1 DEF @@, Same
      <3> HIDE DEF x
      <3>7. AsAccess(x) = e
        <4>1. \A k \in DOMAIN LegacyField : Same(AsAccess(x), AsAccess(s), k)
          BY <3>6, FieldsAre, AsAccessIs DEF Same
        <4>2. QED
          BY <4>1, AsAccessIs, SameIsEqual DEF Same
      <3>8. {"type", "listenHost", "listenPort"} \subseteq DOMAIN e /\ IsRecord(e)
        <4>1. /\ "type" \in DOMAIN LegacyField /\ LegacyField["type"] = "mode"
              /\ "listenHost" \in DOMAIN LegacyField /\ LegacyField["listenHost"] = "listenHost"
              /\ "listenPort" \in DOMAIN LegacyField /\ LegacyField["listenPort"] = "listenPort"
          BY DEF LegacyField
        <4>2. QED
          BY <1>2, <4>1, AsAccessIs
      <3> HIDE DEF e
      <3>9. MadeEntry(u) = e
        <4>1. MadeEntry(u) = e @@ [listenHost |-> "0.0.0.0", listenPort |-> 1080]
          BY <3>7 DEF MadeEntry, x
        <4>2. QED
          BY <3>8, <4>1 DEF @@, IsRecord
      <3>10. NormalEntries(u) = <<e>>
        BY <3>4, <3>9 DEF NormalEntries
      <3>11. Primary(a) = e
        <4>1. Primary(a) = e @@ [type |-> ModeOf(u)]
          BY <3>10 DEF Primary, u
        <4>2. QED
          BY <3>8, <4>1 DEF @@, IsRecord
      <3>12. NormalAccess(a) = s.access
        BY <3>1, <3>10, <3>11 DEF NormalAccess, u
      <3>13. Primary(a) = s.access[1]
        BY <3>1, <3>11
      <3>14. \A f \in ListenerFields : Same(l, s, f)
        BY <1>4, <3>13, NormalizeIs DEF IsNormal, Same
      <3>15. Same(l, s, "access") /\ Same(l, s, "proxyMode")
        BY <1>2, <1>4, <3>12, <3>13, NormalizeIs DEF IsNormal, Same
      <3>16. QED
        BY <3>14, <3>15 DEF Listening
    <2>3. QED
      BY <2>1, <2>2
  <1>10. \A k \in Selecting : Same(a, s, k) /\ k \in DOMAIN a
    BY <1>2, <1>7 DEF Selecting, SectionNames, Same
  <1>11. Selected(a) = a
    BY <1>4, <1>10, SelectedAlready DEF Selecting, IsSettings
  <1>12. \A k \in Selecting : Same(l, s, k)
    <2>1. \A k \in Selecting : Same(l, a, k)
      BY <1>4, <1>11, NormalizeIs
    <2>2. QED
      BY <1>10, <2>1 DEF Same
  <1>13. \A k \in Settled : Same(l, s, k)
    <2>1. \A k \in Settled : Same(l, a, k)
      BY <1>4, NormalizeKeeps
    <2>2. QED
      BY <1>7, <2>1 DEF Same, Settled, SectionNames
  <1>14. Same(l, s, "backend")
    <2>1. DeriveBackendTag(a) = DeriveBackendTag(s)
      BY <1>10, DeriveSame DEF Selecting
    <2>2. "backend" \in DOMAIN DeriveBackendTag(a) /\ DeriveBackendTag(a).backend = s.backend
      BY <1>2, <2>1
    <2>3. QED
      BY <1>2, <1>4, <1>11, <2>2, NormalizeIs DEF Same
  <1>15. \A k : k \notin SectionNames => Same(l, s, k)
    <2>1. DOMAIN l \subseteq SettingsFields /\ DOMAIN s \subseteq SettingsFields
      BY <1>3, <1>4 DEF IsNormal, IsSettings
    <2>2. \A k \in SettingsFields : k \notin SectionNames => Same(l, s, k)
      BY <1>9, <1>12, <1>13, <1>14, FieldKinds
    <2>3. QED
      BY <2>1, <2>2 DEF Same
  <1>16. \A k \in SectionNames :
              /\ k \in DOMAIN l
                   <=> k \in DOMAIN s /\ ~(k \in {"dns", "rotation", "daemon"} /\ DOMAIN s[k] = {})
              /\ k \in DOMAIN l => l[k] = s[k]
    <2> SUFFICES ASSUME NEW k \in SectionNames
                 PROVE  /\ k \in DOMAIN l
                             <=> k \in DOMAIN s /\ ~(k \in {"dns", "rotation", "daemon"} /\
                                 DOMAIN s[k] = {})
                        /\ k \in DOMAIN l => l[k] = s[k]
      OBVIOUS
    <2>1. Same(a, m, k)
      BY <1>4, KindsApart
    <2>2. /\ k \in DOMAIN l <=> k \in DOMAIN a
          /\ k \in DOMAIN l => l[k] = NormalSection(k, a[k])
      BY <1>4, NormalizeIs
    <2>3. k \in DOMAIN s => NormalSection(k, s[k]) = s[k]
      BY DEF IsNormal
    <2>4. k \in DOMAIN m => k \in DOMAIN s /\ m[k] = s[k]
      BY <1>1
    <2>5. k \in DOMAIN m <=>
              k \in DOMAIN s /\ ~(k \in {"dns", "rotation", "daemon"} /\ DOMAIN s[k] = {})
      BY <1>1
    <2>6. k \in DOMAIN l <=> k \in DOMAIN m
      BY <2>1, <2>2 DEF Same
    <2>7. k \in DOMAIN l => l[k] = s[k]
      BY <2>1, <2>2, <2>3, <2>4, <2>6 DEF Same
    <2>8. QED
      BY <2>5, <2>6, <2>7
  <1>17. QED
    BY <1>1, <1>5, <1>15, <1>16 DEF m, l

\* What is saved of valid settings is found again, but for empty sections.
LEMMA FoundAgain ==
  ASSUME NEW s, IsNormal(s), Validate(s), "mode" \notin DOMAIN Absent
  PROVE  /\ Marshal(s) # Absent
         /\ Layered(Marshal(s), NotGiven, None, None) = Trimmed(s)
         /\ Validate(Trimmed(s)) /\ Trimmed(Trimmed(s)) = Trimmed(s)
  <1> DEFINE m == Marshal(s)
             l == LoadSettingsFile(m)
             b == Layered(m, NotGiven, None, None)
             t == Trimmed(s)
  <1>1. /\ IsSettings(m) /\ "mode" \in DOMAIN m
        /\ \A k : k \notin SectionNames => Same(l, s, k)
        /\ \A k \in SectionNames :
              /\ k \in DOMAIN l
                   <=> k \in DOMAIN s /\ ~(k \in {"dns", "rotation", "daemon"} /\ DOMAIN s[k] = {})
              /\ k \in DOMAIN l => l[k] = s[k]
    BY SavedOverDefaults
  <1>2. m # Absent
    BY <1>1
  <1>3. /\ IsRecord(t)
        /\ \A k : k \notin SectionNames => Same(t, s, k)
        /\ \A k \in SectionNames :
              /\ k \in DOMAIN t <=> k \in DOMAIN s /\ DOMAIN s[k] # {}
              /\ k \in DOMAIN t => t[k] = s[k]
    BY TrimmedIs
  <1>4. /\ IsNormal(b)
        /\ \A k : k \notin SectionNames => Same(b, l, k)
        /\ \A k \in SectionNames :
             /\ k \in DOMAIN b <=> k \in DOMAIN l /\ ~SaysNothing(l, k)
             /\ k \in DOMAIN b => b[k] = l[k]
    <2>1. Mutable(m) = l /\ IsNormal(l)
      BY <1>1, <1>2, LaidIs DEF Mutable
    <2>2. Normalize(Mutable(m)) = l
      BY <2>1, NormalFixed
    <2>3. IsFile(m, Absent)
      BY <1>1 DEF IsFile
    <2> HIDE DEF l, b, m
    <2>4. QED
      BY <2>2, <2>3, ReadBack DEF b
  <1> HIDE DEF m, l, b, t
  <1>5. "caps" \in DOMAIN s => DOMAIN s.caps # {}
    <2> SUFFICES ASSUME "caps" \in DOMAIN s PROVE DOMAIN s.caps # {}
      OBVIOUS
    <2>1. NormalSection("caps", s.caps) = s.caps /\ "caps" \in SectionNames
      BY DEF IsNormal, SectionNames
    <2>2. "intervalSeconds" \in DOMAIN s.caps
      BY <2>1, NormalSectionKeeps
    <2>3. QED
      BY <2>2
  <1>6. \A k \in SectionNames : Same(b, t, k)
    <2> SUFFICES ASSUME NEW k \in SectionNames PROVE Same(b, t, k)
      OBVIOUS
    <2>1. CASE k = "caps"
      BY <1>1, <1>3, <1>4, <1>5, <2>1 DEF Same, SaysNothing
    <2>2. CASE k \in {"dns", "rotation", "daemon"}
      BY <1>1, <1>3, <1>4, <2>2 DEF Same, SaysNothing
    <2>3. CASE k = "masque"
      BY <1>1, <1>3, <1>4, <2>3 DEF Same, SaysNothing
    <2>4. QED
      BY <2>1, <2>2, <2>3 DEF SectionNames
  <1>7. \A k : Same(b, t, k)
    BY <1>1, <1>3, <1>4, <1>6 DEF Same
  <1>8. b = t
    BY <1>3, <1>4, <1>7, SameIsEqual DEF IsNormal, IsSettings
  <1>9. Validate(t)
    <2>1. Normalize(t) = t /\ Normalize(s) = s
      BY <1>4, <1>8, NormalFixed
    <2>2. /\ <<Get(s, "runtimeFamily", Unset), Get(s, "transport", Unset)>>
                \in {<<"legacy", "wireguard">>, <<"native", "masque">>}
          /\ Get(s, "logLevel", Unset) \in LogLevels
          /\ "endpointOverride" \in DOMAIN s => s.endpointOverride \in Endpoints
          /\ ValidAccess(s.access)
          /\ "caps" \in DOMAIN s => ValidCaps(s.caps)
          /\ "dns" \in DOMAIN s => ValidDNS(s.dns)
          /\ "rotation" \in DOMAIN s => ValidRotation(s.rotation)
      BY <2>1 DEF Validate
    <2>3. /\ Same(t, s, "runtimeFamily") /\ Same(t, s, "transport") /\ Same(t, s, "logLevel")
          /\ Same(t, s, "endpointOverride") /\ Same(t, s, "access")
      BY <1>3 DEF SectionNames
    <2>4. "access" \in DOMAIN s
      BY DEF IsNormal
    <2>5. /\ Get(t, "runtimeFamily", Unset) = Get(s, "runtimeFamily", Unset)
          /\ Get(t, "transport", Unset) = Get(s, "transport", Unset)
          /\ Get(t, "logLevel", Unset) = Get(s, "logLevel", Unset)
          /\ t.access = s.access
          /\ "endpointOverride" \in DOMAIN t => /\ "endpointOverride" \in DOMAIN s
                                               /\ t.endpointOverride = s.endpointOverride
      BY <2>3, <2>4 DEF Same, Get
    <2>6. \A k \in {"caps", "dns", "rotation"} : k \in DOMAIN t => k \in DOMAIN s /\ t[k] = s[k]
      BY <1>3 DEF SectionNames
    <2>7. QED
      BY <2>1, <2>2, <2>5, <2>6 DEF Validate
  <1>10. Trimmed(t) = t
    <2>1. /\ IsRecord(Trimmed(t))
          /\ \A k : k \notin SectionNames => Same(Trimmed(t), t, k)
          /\ \A k \in SectionNames :
              /\ k \in DOMAIN Trimmed(t) <=> k \in DOMAIN t /\ DOMAIN t[k] # {}
              /\ k \in DOMAIN Trimmed(t) => Trimmed(t)[k] = t[k]
      BY TrimmedIs
    <2>2. \A k \in SectionNames : k \in DOMAIN t => DOMAIN t[k] # {}
      BY <1>3
    <2>3. \A k : Same(Trimmed(t), t, k)
      BY <2>1, <2>2 DEF Same
    <2>4. QED
      BY <1>3, <2>1, <2>3, SameIsEqual
  <1>11. QED
    BY <1>2, <1>8, <1>9, <1>10 DEF m, b, t

\* What becomes of a list that is there.
LEMMA ListedIs ==
  ASSUME NEW s, IsSettings(s), Entries(s) # <<>>
  PROVE  LET q == Normalize(s).access
         IN /\ "access" \in DOMAIN s /\ IsSequence(s.access) /\ IsSequence(q)
            /\ 1 \in DOMAIN s.access /\ 1 \in DOMAIN q /\ DOMAIN q = DOMAIN s.access
            /\ IsEntry(s.access[1]) /\ IsEntry(q[1])
            /\ \A i \in DOMAIN q : i # 1 => q[i] = NormalEntry(s.access[i])
            /\ \A k : k \notin {"type", "listenHost"} => Same(q[1], s.access[1], k)
            /\ "type" \in DOMAIN s.access[1] => Same(q[1], s.access[1], "type")
            /\ "type" \notin DOMAIN s.access[1] => q[1].type = ModeOf(Selected(s))
            /\ "listenHost" \in DOMAIN s.access[1] \/ Get(s.access[1], "type", Unset) = "tun"
                 => Same(q[1], s.access[1], "listenHost")
            /\ "listenHost" \in DOMAIN q[1] \ DOMAIN s.access[1] => q[1].listenHost = "0.0.0.0"
  <1> DEFINE u == Selected(s)
             e == s.access[1]
             q == Normalize(s).access
  <1>1. /\ "access" \in DOMAIN s /\ Entries(s) = s.access /\ 1 \in DOMAIN s.access
        /\ IsSequence(s.access) /\ IsEntry(e)
    BY BeneathIs, SettingsAre
  <1>2. /\ IsSequence(NormalEntries(u)) /\ DOMAIN NormalEntries(u) = DOMAIN s.access
        /\ \A i \in DOMAIN s.access : NormalEntries(u)[i] = NormalEntry(s.access[i])
    <2>1. Entries(u) = s.access /\ "access" \in DOMAIN u /\ u.access = s.access
      <3>1. Same(u, s, "access")
        BY SelectedIs
      <3>2. QED
        BY <1>1, <3>1 DEF Entries, Get, Same
    <2>2. u.access # <<>>
      BY <1>1, <2>1
    <2> HIDE DEF u
    <2>3. QED
      BY <1>1, <2>1, <2>2, NormalEntriesAre
  <1>3. q = NormalAccess(s)
    BY NormalizeIs
  <1>4. /\ IsSequence(q) /\ 1 \in DOMAIN q /\ q[1] = Primary(s) /\ IsEntry(q[1])
        /\ DOMAIN q = DOMAIN s.access
        /\ \A i \in DOMAIN q : i # 1 => q[i] = NormalEntry(s.access[i])
    BY <1>2, <1>3, NormalAccessIs
  <1>5. /\ DOMAIN q[1] = DOMAIN NormalEntry(e) \cup {"type"}
        /\ \A k \in DOMAIN NormalEntry(e) : q[1][k] = NormalEntry(e)[k]
        /\ "type" \notin DOMAIN NormalEntry(e) => q[1].type = ModeOf(u)
    <2> DEFINE p == NormalEntries(u)[1]
    <2>1. p = NormalEntry(e)
      BY <1>1, <1>2
    <2>2. q[1] = p @@ [type |-> ModeOf(u)]
      BY <1>4 DEF Primary
    <2> HIDE DEF p, q, u, e
    <2>3. QED
      BY <2>1, <2>2 DEF @@
  <1>6. /\ \A k : k # "listenHost" => Same(NormalEntry(e), e, k)
        /\ "listenHost" \in DOMAIN e => NormalEntry(e) = e
        /\ Get(e, "type", Unset) = "tun" => NormalEntry(e) = e
        /\ "listenHost" \in DOMAIN NormalEntry(e) \ DOMAIN e =>
               NormalEntry(e).listenHost = "0.0.0.0"
    <2>1. "listenHost" \in DOMAIN NormalEntry(e) \ DOMAIN e => NormalEntry(e).listenHost = "0.0.0.0"
      <3>1. CASE Get(e, "type", Unset) = "tun"
        BY <3>1 DEF NormalEntry
      <3>2. CASE Get(e, "type", Unset) # "tun"
        <4>1. NormalEntry(e) = e @@ [listenHost |-> "0.0.0.0"]
          BY <3>2 DEF NormalEntry
        <4> HIDE DEF e
        <4>2. QED
          BY <4>1 DEF @@
      <3>3. QED
        BY <3>1, <3>2
    <2>2. QED
      BY <1>1, <2>1, NormalEntryIs
  <1> HIDE DEF q, e, u
  <1>7. \A k : k \notin {"type", "listenHost"} => Same(q[1], e, k)
    BY <1>5, <1>6 DEF Same
  <1>8. "type" \in DOMAIN e => Same(q[1], e, "type")
    BY <1>5, <1>6 DEF Same
  <1>9. "type" \notin DOMAIN e => q[1].type = ModeOf(u)
    BY <1>5, <1>6 DEF Same
  <1>10. "listenHost" \in DOMAIN e \/ Get(e, "type", Unset) = "tun" => Same(q[1], e, "listenHost")
    BY <1>5, <1>6 DEF Same
  <1>11. "listenHost" \in DOMAIN q[1] \ DOMAIN e => q[1].listenHost = "0.0.0.0"
    BY <1>5, <1>6
  <1>12. QED
    BY <1>1, <1>4, <1>7, <1>8, <1>9, <1>10, <1>11 DEF q, e, u

\* What is made of the legacy fields where there is no list.
LEMMA UnlistedIs ==
  ASSUME NEW s, IsSettings(s), Entries(s) = <<>>
  PROVE  LET q == Normalize(s).access
         IN /\ IsSequence(q) /\ DOMAIN q = {1} /\ Len(q) = 1 /\ IsEntry(q[1])
            /\ q[1].type = ModeOf(Selected(s)) /\ "type" \in DOMAIN q[1]
            /\ \A f \in ListenerFields \ {"mode"} : f \in DOMAIN s =>
                 AccessField[f] \in DOMAIN q[1] /\ q[1][AccessField[f]] = s[f]
            /\ \A k \in DOMAIN q[1] \ {"type"} :
                 \/ k \in DOMAIN LegacyField /\ LegacyField[k] \in DOMAIN s
                 \/ k = "listenHost" /\ q[1][k] = "0.0.0.0"
                 \/ k = "listenPort" /\ q[1][k] = 1080
  <1> DEFINE u == Selected(s)
             g == [mode |-> ModeOf(u)]
             x == g @@ u
             e == AsAccess(x)
             address == [listenHost |-> "0.0.0.0", listenPort |-> 1080]
             m == MadeEntry(u)
             q == Normalize(s).access
  <1>1. \A k : k \notin {"runtimeFamily", "transport"} => Same(u, s, k)
    BY SelectedIs
  <1>2. NormalEntries(u) = <<m>>
    <2>1. Entries(u) = <<>>
      <3>1. Same(u, s, "access")
        BY <1>1
      <3>2. QED
        BY <3>1 DEF Entries, Get, Same
    <2>2. QED
      BY <2>1 DEF NormalEntries
  <1>3. IsEntry(m) /\ "type" \in DOMAIN m /\ m.type = ModeOf(u)
    BY MadeEntryIs, SelectedTyped
  <1>4. /\ DOMAIN g = {"mode"} /\ DOMAIN address = {"listenHost", "listenPort"}
        /\ address.listenHost = "0.0.0.0" /\ address.listenPort = 1080
    OBVIOUS
  <1>5. m = e @@ address
    BY DEF MadeEntry
  <1>6. /\ DOMAIN e \subseteq DOMAIN LegacyField
        /\ \A k \in DOMAIN LegacyField :
             /\ k \in DOMAIN e <=> LegacyField[k] \in DOMAIN x
             /\ k \in DOMAIN e => e[k] = x[LegacyField[k]]
    BY AsAccessIs
  <1>7. q = <<m>>
    <2>1. q = NormalAccess(s)
      BY NormalizeIs
    <2>2. Primary(s) = m
      <3>1. Primary(s) = m @@ [type |-> ModeOf(u)]
        BY <1>2 DEF Primary
      <3> HIDE DEF m
      <3>2. QED
        BY <1>3, <3>1 DEF @@, IsEntry, IsRecord
    <2> HIDE DEF m, q
    <2>3. QED
      BY <1>2, <2>1, <2>2 DEF NormalAccess
  <1> HIDE DEF u, g, e, address, m, q
  <1>8. /\ DOMAIN x = {"mode"} \cup DOMAIN u /\ \A k \in DOMAIN u \ {"mode"} : x[k] = u[k]
    BY <1>4 DEF @@
  <1> HIDE DEF x
  <1>9. /\ DOMAIN m = DOMAIN e \cup {"listenHost", "listenPort"}
        /\ \A k \in DOMAIN e : m[k] = e[k]
        /\ \A k \in DOMAIN m \ DOMAIN e :
             \/ k = "listenHost" /\ m[k] = "0.0.0.0"
             \/ k = "listenPort" /\ m[k] = 1080
    BY <1>4, <1>5 DEF @@
  <1>10. \A f \in ListenerFields : f \notin {"runtimeFamily", "transport"}
    BY FieldsAre
  <1>11. \A f \in ListenerFields \ {"mode"} : f \in DOMAIN s =>
                 AccessField[f] \in DOMAIN m /\ m[AccessField[f]] = s[f]
    <2> SUFFICES ASSUME NEW f \in ListenerFields \ {"mode"}, f \in DOMAIN s
                 PROVE  AccessField[f] \in DOMAIN m /\ m[AccessField[f]] = s[f]
      OBVIOUS
    <2>1. f \in DOMAIN x /\ x[f] = s[f]
      BY <1>1, <1>8, <1>10 DEF Same
    <2>2. AccessField[f] \in DOMAIN LegacyField /\ LegacyField[AccessField[f]] = f
      BY FieldsAre
    <2>3. QED
      BY <1>6, <1>9, <2>1, <2>2
  <1>12. \A k \in DOMAIN m \ {"type"} :
                 \/ k \in DOMAIN LegacyField /\ LegacyField[k] \in DOMAIN s
                 \/ k = "listenHost" /\ m[k] = "0.0.0.0"
                 \/ k = "listenPort" /\ m[k] = 1080
    <2> SUFFICES ASSUME NEW k \in DOMAIN m \ {"type"}, k \in DOMAIN e
                 PROVE  k \in DOMAIN LegacyField /\ LegacyField[k] \in DOMAIN s
      BY <1>9
    <2>1. k \in DOMAIN LegacyField /\ LegacyField[k] \in DOMAIN x
      BY <1>6
    <2>2. LegacyField[k] # "mode" /\ LegacyField[k] \in ListenerFields
      BY <2>1, FieldsAre DEF AccessField
    <2>3. QED
      BY <1>1, <1>8, <1>10, <2>1, <2>2 DEF Same
  <1>13. IsSequence(q) /\ DOMAIN q = {1} /\ Len(q) = 1 /\ q[1] = m
    BY <1>7 DEF IsSequence, Range
  <1>14. QED
    BY <1>3, <1>11, <1>12, <1>13 DEF q, u

\* The normalised selection depends on the selection alone.
LEMMA NormalizeSelection ==
  ASSUME NEW s, NEW t, \A k \in Selecting \cup {"backend"} : Same(s, t, k)
  PROVE  \A k \in Selecting \cup {"backend"} : Same(Normalize(s), Normalize(t), k)
  <1>1. InferRuntimeSelection(s) = InferRuntimeSelection(t)
    <2>1. Same(s, t, "backend")
      OBVIOUS
    <2>2. Get(s, "backend", Unset) = Get(t, "backend", Unset)
      BY <2>1 DEF Same, Get
    <2>3. CASE \E sel \in Selections : Get(s, "backend", Unset) = sel.backend
      <3>1. "backend" \in DOMAIN s
        <4>1. Get(s, "backend", Unset) # Unset
          BY <2>3, SelectionIs
        <4>2. QED
          BY <4>1 DEF Get
      <3>2. s.backend = t.backend
        BY <2>1, <3>1 DEF Same
      <3>3. QED
        BY <2>2, <2>3, <3>2 DEF InferRuntimeSelection
    <2>4. CASE ~\E sel \in Selections : Get(s, "backend", Unset) = sel.backend
      BY <2>2, <2>4 DEF InferRuntimeSelection
    <2>5. QED
      BY <2>3, <2>4
  <1>2. \A k \in Selecting : Same(Selected(s), Selected(t), k)
    <2> DEFINE w == Without(InferRuntimeSelection(s), {"backend"})
    <2>1. Selected(s) = s @@ w /\ Selected(t) = t @@ w
      BY <1>1 DEF Selected
    <2> HIDE DEF w
    <2>2. QED
      BY <2>1 DEF @@, Same
  <1>3. DeriveBackendTag(Selected(s)) = DeriveBackendTag(Selected(t))
    BY <1>2, DeriveSame DEF Selecting
  <1>4. \A k \in Selecting : Same(Normalize(s), Normalize(t), k)
    BY <1>2, NormalizeIs DEF Same
  <1>5. Same(Normalize(s), Normalize(t), "backend")
    <2>1. Same(s, t, "backend")
      OBVIOUS
    <2>2. CASE "backend" \in DOMAIN DeriveBackendTag(Selected(s))
      BY <1>3, <2>2, NormalizeIs DEF Same
    <2>3. CASE "backend" \notin DOMAIN DeriveBackendTag(Selected(s))
      <3>1. Same(Normalize(s), s, "backend")
        BY <2>3, NormalizeIs
      <3>2. Same(Normalize(t), t, "backend")
        BY <1>3, <2>3, NormalizeIs
      <3>3. QED
        BY <2>1, <3>1, <3>2 DEF Same
    <2>4. QED
      BY <2>2, <2>3
  <1>6. QED
    BY <1>4, <1>5

\* A normalised section depends on that section alone.
LEMMA NormalizeSections ==
  ASSUME NEW s, NEW t, NEW k \in SectionNames, Same(s, t, k)
  PROVE  Same(Normalize(s), Normalize(t), k)
  BY NormalizeIs DEF Same

-----------------------------------------------------------------------------
(* The list, but for what the listener fields say of its head                *)

\* Intervals from one that are equal end at the same number.
LEMMA IntervalsEqual ==
  ASSUME NEW m \in Nat, NEW n \in Nat, 1..m = 1..n
  PROVE  m = n
  <1>1. m = 0 \/ m \in 1..n
    <2>1. m = 0 \/ m \in 1..m
      OBVIOUS
    <2>2. QED
      BY <2>1
  <1>2. n = 0 \/ n \in 1..m
    <2>1. n = 0 \/ n \in 1..n
      OBVIOUS
    <2>2. QED
      BY <2>1
  <1>3. QED
    BY <1>1, <1>2

\* Sequences that agree but for their heads have the same tail.
LEMMA TailsEqual ==
  ASSUME NEW q, NEW r, IsSequence(q), IsSequence(r), DOMAIN q = DOMAIN r, 1 \in DOMAIN q,
         \A i \in DOMAIN q : i # 1 => q[i] = r[i]
  PROVE  Tail(q) = Tail(r)
  <1> DEFINE S == Range(q) \cup Range(r)
  <1>1. /\ Len(q) \in Nat /\ DOMAIN q = 1..Len(q) /\ \A i \in DOMAIN q : q[i] \in Range(q)
        /\ q \in [1..Len(q) -> Range(q)]
    BY DEF IsSequence, Range
  <1>2. /\ Len(r) \in Nat /\ DOMAIN r = 1..Len(r) /\ \A i \in DOMAIN r : r[i] \in Range(r)
        /\ r \in [1..Len(r) -> Range(r)]
    BY DEF IsSequence, Range
  <1>3. Len(q) = Len(r)
    <2>1. 1..Len(q) = 1..Len(r)
      BY <1>1, <1>2
    <2>2. QED
      BY <1>1, <1>2, <2>1, IntervalsEqual
  <1>4. q \in [1..Len(q) -> S] /\ r \in [1..Len(r) -> S]
    BY <1>1, <1>2
  <1> HIDE DEF S
  <1>5. q \in Seq(S) /\ r \in Seq(S) /\ q # <<>> /\ r # <<>>
    <2>1. q \in Seq(S) /\ r \in Seq(S)
      BY <1>1, <1>2, <1>4
    <2>2. q # <<>> /\ r # <<>>
      OBVIOUS
    <2>3. QED
      BY <2>1, <2>2
  <1>6. /\ Tail(q) \in Seq(S) /\ Len(Tail(q)) = Len(q) - 1
        /\ \A i \in 1..(Len(q) - 1) : Tail(q)[i] = q[i + 1]
    BY <1>5
  <1>7. /\ Tail(r) \in Seq(S) /\ Len(Tail(r)) = Len(r) - 1
        /\ \A i \in 1..(Len(r) - 1) : Tail(r)[i] = r[i + 1]
    BY <1>5
  <1>8. \A i \in 1..(Len(q) - 1) : q[i + 1] = r[i + 1]
    <2>1. \A i \in 1..(Len(q) - 1) : i + 1 \in DOMAIN q /\ i + 1 # 1
      BY <1>1
    <2>2. QED
      BY <2>1
  <1>9. QED
    BY <1>1, <1>3, <1>6, <1>7, <1>8

\* Two settings that differ in a part, and in sections that say nothing.
LEMMA TrimmedSame ==
  ASSUME NEW s, NEW t, NEW part, part \cap SectionNames = {},
         \A k : k \notin part \cup SectionNames => Same(s, t, k),
         \A k \in SectionNames :
           /\ (k \in DOMAIN s /\ DOMAIN s[k] # {}) <=> (k \in DOMAIN t /\ DOMAIN t[k] # {})
           /\ k \in DOMAIN s /\ DOMAIN s[k] # {} => s[k] = t[k]
  PROVE  Trimmed(Without(s, part)) = Trimmed(Without(t, part))
  <1> DEFINE u == Without(s, part)
             v == Without(t, part)
  <1>1. /\ DOMAIN u = DOMAIN s \ part /\ \A k \in DOMAIN u : u[k] = s[k]
        /\ DOMAIN v = DOMAIN t \ part /\ \A k \in DOMAIN v : v[k] = t[k]
    BY DEF Without, Restrict
  <1>2. /\ \A k : k \notin SectionNames => Same(Trimmed(u), u, k)
        /\ \A k \in SectionNames :
              /\ k \in DOMAIN Trimmed(u) <=> k \in DOMAIN u /\ DOMAIN u[k] # {}
              /\ k \in DOMAIN Trimmed(u) => Trimmed(u)[k] = u[k]
        /\ IsRecord(Trimmed(u))
    BY TrimmedIs
  <1>3. /\ \A k : k \notin SectionNames => Same(Trimmed(v), v, k)
        /\ \A k \in SectionNames :
              /\ k \in DOMAIN Trimmed(v) <=> k \in DOMAIN v /\ DOMAIN v[k] # {}
              /\ k \in DOMAIN Trimmed(v) => Trimmed(v)[k] = v[k]
        /\ IsRecord(Trimmed(v))
    BY TrimmedIs
  <1> HIDE DEF u, v
  <1>4. \A k : k \notin SectionNames => Same(Trimmed(u), Trimmed(v), k)
    BY <1>1, <1>2, <1>3 DEF Same
  <1>5. \A k \in SectionNames : Same(Trimmed(u), Trimmed(v), k)
    <2> SUFFICES ASSUME NEW k \in SectionNames PROVE Same(Trimmed(u), Trimmed(v), k)
      OBVIOUS
    <2>1. /\ k \in DOMAIN u <=> k \in DOMAIN s
          /\ k \in DOMAIN v <=> k \in DOMAIN t
      BY <1>1
    <2>2. /\ k \in DOMAIN u => u[k] = s[k]
          /\ k \in DOMAIN v => v[k] = t[k]
      BY <1>1
    <2>3. /\ (k \in DOMAIN s /\ DOMAIN s[k] # {}) <=> (k \in DOMAIN t /\ DOMAIN t[k] # {})
          /\ k \in DOMAIN s /\ DOMAIN s[k] # {} => s[k] = t[k]
      OBVIOUS
    <2>4. QED
      BY <1>2, <1>3, <2>1, <2>2, <2>3 DEF Same
  <1>6. QED
    BY <1>2, <1>3, <1>4, <1>5, SameIsEqual DEF u, v

\* What is given about scalars leaves the sections and the list alone.
LEMMA AssignLeaves ==
  ASSUME NEW s, NEW given, DOMAIN given \subseteq Scalars
  PROVE  /\ \A k \in SectionNames \cup {"access"} : Same(Assign(s, given), s, k)
         /\ \A k : k \notin DOMAIN given => Same(Assign(s, given), s, k)
  <1>1. \A k : k \notin DOMAIN given => Same(Assign(s, given), s, k)
    BY AssignIs DEF Same
  <1>2. \A k \in SectionNames \cup {"access"} : k \notin DOMAIN given
    BY ScalarsAre DEF SectionNames
  <1>3. QED
    BY <1>1, <1>2

\* The scalar part of the variables, and a layer before it reaches the list.
Scalar(env) == WithMode(Without(env, SectionNames))
Varied(s, env) == ApplySections(Assign(s, Scalar(env)), env)
Flagged(s, flags) == Assign(s, WithMode(flags))

\* Variables, before and after the list is brought in line.
LEMMA VariedIs ==
  ASSUME NEW s, NEW env, IsSettings(s), IsEnvironment(env)
  PROVE  /\ IsSettings(Varied(s, env)) /\ DOMAIN Scalar(env) \subseteq Scalars
         /\ \A k : k \notin SectionNames => Same(Varied(s, env), Assign(s, Scalar(env)), k)
         /\ Same(Varied(s, env), s, "access")
         /\ ApplyEnv(s, env) =
                IF Touches(env) THEN SyncPrimaryAccess(Varied(s, env)) ELSE Varied(s, env)
         /\ \A k \in SectionNames :
              /\ k \in DOMAIN ApplyEnv(s, env) <=>
                     k \in DOMAIN s \cup DOMAIN env /\ ~Drops(s, env, k)
              /\ k \in DOMAIN ApplyEnv(s, env) => ApplyEnv(s, env)[k] = Opts(s, env, k)
  <1> DEFINE a == Assign(s, Scalar(env))
             v == Varied(s, env)
             y == ApplyEnv(s, env)
  <1>1. IsSettings(v)
    BY ApplyEnvTyped DEF Varied, Scalar
  <1>2. DOMAIN Scalar(env) \subseteq Scalars
    BY ScalarsOf, GivenScalars DEF Scalar
  <1>3. y = IF Touches(env) THEN SyncPrimaryAccess(v) ELSE v
    BY DEF ApplyEnv, Varied, Scalar
  <1>4. \A k \in SectionNames \cup {"access"} : Same(a, s, k)
    BY <1>2, AssignLeaves
  <1>5. /\ \A k : k \notin SectionNames => Same(v, a, k)
        /\ \A k \in SectionNames :
                 /\ k \in DOMAIN v <=> k \in DOMAIN a \cup DOMAIN env /\ ~Drops(a, env, k)
                 /\ k \in DOMAIN v => v[k] = Opts(a, env, k)
    BY ApplySectionsIs DEF Varied
  <1> HIDE DEF a, v, y
  <1>6. \A k \in SectionNames : Opts(a, env, k) = Opts(s, env, k) /\ (Drops(a, env, k) <=>
            Drops(s, env, k))
    <2>1. \A k \in SectionNames : Get(a, k, None) = Get(s, k, None)
      BY <1>4 DEF Get, Same
    <2>2. QED
      BY <2>1 DEF Opts, Drops
  <1>7. \A k \in SectionNames : k \in DOMAIN a <=> k \in DOMAIN s
    BY <1>4 DEF Same
  <1>8. \A k \in SectionNames : Same(y, v, k)
    <2>1. CASE Touches(env)
      <3>1. y = SyncPrimaryAccess(v)
        BY <1>3, <2>1
      <3>2. \A k \in SectionNames : k # "access"
        BY DEF SectionNames
      <3>3. QED
        BY <1>1, <3>1, <3>2, SyncPrimaryAccessIs
    <2>2. CASE ~Touches(env)
      BY <1>3, <2>2 DEF Same
    <2>3. QED
      BY <2>1, <2>2
  <1>9. \A k \in SectionNames :
              /\ k \in DOMAIN y <=> k \in DOMAIN s \cup DOMAIN env /\ ~Drops(s, env, k)
              /\ k \in DOMAIN y => y[k] = Opts(s, env, k)
    BY <1>5, <1>6, <1>7, <1>8 DEF Same
  <1>10. Same(v, s, "access")
    <2>1. "access" \notin SectionNames
      BY DEF SectionNames
    <2>2. QED
      BY <1>4, <1>5, <2>1 DEF Same
  <1>11. QED
    BY <1>1, <1>2, <1>3, <1>5, <1>9, <1>10 DEF a, v, y

\* Flags, before and after the list is brought in line.
LEMMA FlaggedIs ==
  ASSUME NEW s, NEW flags, IsSettings(s), IsFlags(flags)
  PROVE  /\ IsSettings(Flagged(s, flags)) /\ DOMAIN WithMode(flags) \subseteq Scalars
         /\ Same(Flagged(s, flags), s, "access")
         /\ ApplyOverrides(s, flags) = IF Touches(flags) THEN SyncPrimaryAccess(Flagged(s, flags))
                                       ELSE Flagged(s, flags)
         /\ \A k \in SectionNames : Same(ApplyOverrides(s, flags), s, k)
  <1> DEFINE g == Flagged(s, flags)
             y == ApplyOverrides(s, flags)
  <1>1. IsSettings(g)
    BY ApplyOverridesTyped DEF Flagged
  <1>2. DOMAIN WithMode(flags) \subseteq Scalars
    BY GivenScalars DEF IsFlags
  <1>3. y = IF Touches(flags) THEN SyncPrimaryAccess(g) ELSE g
    BY DEF ApplyOverrides, Flagged
  <1>4. \A k \in SectionNames \cup {"access"} : Same(g, s, k)
    BY <1>2, AssignLeaves DEF Flagged
  <1> HIDE DEF g, y
  <1>5. \A k \in SectionNames : Same(y, g, k)
    <2>1. CASE Touches(flags)
      <3>1. y = SyncPrimaryAccess(g)
        BY <1>3, <2>1
      <3>2. \A k \in SectionNames : k # "access"
        BY DEF SectionNames
      <3>3. QED
        BY <1>1, <3>1, <3>2, SyncPrimaryAccessIs
    <2>2. CASE ~Touches(flags)
      BY <1>3, <2>2 DEF Same
    <2>3. QED
      BY <2>1, <2>2
  <1>6. \A k \in SectionNames : Same(y, s, k)
    BY <1>4, <1>5 DEF Same
  <1>7. QED
    BY <1>1, <1>2, <1>3, <1>4, <1>6 DEF g, y

\* The list of s is q, but for what the listener fields say of its head.
Rest(s, q) ==
  /\ Entries(s) = <<>> => DOMAIN q = {1}
  /\ Entries(s) # <<>> => /\ DOMAIN Entries(s) = DOMAIN q
                          /\ \A i \in DOMAIN q : i # 1 => Entries(s)[i] = q[i]
  /\ \A k \in {"name", "mtu"} : Same(Beneath(s), q[1], k)

\* A layer that leaves the list alone leaves its rest alone.
LEMMA RestKept ==
  ASSUME NEW s, NEW t, NEW q, Rest(s, q), Same(t, s, "access")
  PROVE  Rest(t, q)
  <1>1. Entries(t) = Entries(s)
    BY DEF Entries, Get, Same
  <1>2. QED
    BY <1>1 DEF Rest, Beneath

\* Bringing the list in line leaves its rest alone.
LEMMA RestSynced ==
  ASSUME NEW s, NEW q, IsSettings(s), Rest(s, q)
  PROVE  Rest(SyncPrimaryAccess(s), q)
  <1> DEFINE t == SyncPrimaryAccess(s)
  <1>1. /\ "access" \in DOMAIN t /\ IsSequence(t.access) /\ t.access # <<>>
        /\ 1 \in DOMAIN t.access /\ t.access[1] = Synced(s)
        /\ Len(t.access) = IF Entries(s) = <<>> THEN 1 ELSE Len(Entries(s))
        /\ \A i \in DOMAIN t.access : i # 1 =>
               i \in DOMAIN Entries(s) /\ t.access[i] = Entries(s)[i]
    BY SyncPrimaryAccessIs
  <1> HIDE DEF t
  <1>2. Entries(t) = t.access
    BY <1>1, EntriesOf
  <1>3. Beneath(t) = Synced(s)
    BY <1>1, <1>2 DEF Beneath
  <1>4. \A k \in {"name", "mtu"} : Same(Synced(s), Beneath(s), k)
    BY SyncedIs
  <1>5. \A k \in {"name", "mtu"} : Same(Beneath(t), q[1], k)
    BY <1>3, <1>4 DEF Rest, Same
  <1>6. DOMAIN t.access = DOMAIN q
    <2>1. CASE Entries(s) = <<>>
      <3>1. Len(t.access) = 1
        BY <1>1, <2>1
      <3>2. DOMAIN t.access = 1..1
        BY <1>1, <3>1 DEF IsSequence
      <3>3. QED
        BY <2>1, <3>2 DEF Rest
    <2>2. CASE Entries(s) # <<>>
      <3>1. IsSequence(Entries(s)) /\ Len(t.access) = Len(Entries(s))
        BY <1>1, <2>2 DEF IsSettings
      <3>2. DOMAIN t.access = DOMAIN Entries(s)
        BY <1>1, <3>1 DEF IsSequence
      <3>3. QED
        BY <2>2, <3>2 DEF Rest
    <2>3. QED
      BY <2>1, <2>2
  <1>7. \A i \in DOMAIN q : i # 1 => t.access[i] = q[i]
    <2> SUFFICES ASSUME NEW i \in DOMAIN q, i # 1 PROVE t.access[i] = q[i]
      OBVIOUS
    <2>1. i \in DOMAIN Entries(s) /\ t.access[i] = Entries(s)[i]
      BY <1>1, <1>6
    <2>2. Entries(s) # <<>>
      BY <2>1
    <2>3. QED
      BY <2>1, <2>2 DEF Rest
  <1>8. QED
    BY <1>1, <1>2, <1>5, <1>6, <1>7 DEF Rest, t

\* Normalising leaves the rest of the list alone.
LEMMA RestNormal ==
  ASSUME NEW s, NEW q, IsSettings(s), Rest(s, q),
         \A i \in DOMAIN q : NormalEntry(q[i]) = q[i]
  PROVE  LET r == Normalize(s).access
         IN /\ IsSequence(r) /\ 1 \in DOMAIN r /\ DOMAIN r = DOMAIN q
            /\ \A i \in DOMAIN r : i # 1 => r[i] = q[i]
            /\ \A k \in {"name", "mtu"} : Same(r[1], q[1], k)
  <1> DEFINE r == Normalize(s).access
  <1>1. CASE Entries(s) = <<>>
    <2>1. /\ IsSequence(r) /\ DOMAIN r = {1}
          /\ \A k \in DOMAIN r[1] \ {"type"} :
                 \/ k \in DOMAIN LegacyField
                 \/ k = "listenHost"
                 \/ k = "listenPort"
      BY <1>1, UnlistedIs
    <2>2. DOMAIN q = {1} /\ \A k \in {"name", "mtu"} : Same(None, q[1], k)
      BY <1>1 DEF Rest, Beneath
    <2> HIDE DEF r
    <2>3. \A k \in {"name", "mtu"} : k \notin DOMAIN r[1]
      BY <2>1, FieldsAre
    <2>4. \A k \in {"name", "mtu"} : Same(r[1], q[1], k)
      BY <2>2, <2>3, NoneIs DEF Same
    <2>5. QED
      BY <2>1, <2>2, <2>4 DEF r
  <1>2. CASE Entries(s) # <<>>
    <2>1. Entries(s) = s.access /\ Beneath(s) = s.access[1]
      BY <1>2, BeneathIs
    <2>2. /\ IsSequence(r) /\ 1 \in DOMAIN r /\ DOMAIN r = DOMAIN s.access
          /\ \A i \in DOMAIN r : i # 1 => r[i] = NormalEntry(s.access[i])
          /\ \A k : k \notin {"type", "listenHost"} => Same(r[1], s.access[1], k)
      BY <1>2, ListedIs
    <2> HIDE DEF r
    <2>3. /\ DOMAIN s.access = DOMAIN q
          /\ \A i \in DOMAIN q : i # 1 => s.access[i] = q[i]
          /\ \A k \in {"name", "mtu"} : Same(s.access[1], q[1], k)
      BY <1>2, <2>1 DEF Rest
    <2>4. \A k \in {"name", "mtu"} : Same(r[1], q[1], k)
      BY <2>2, <2>3 DEF Same
    <2>5. QED
      BY <2>2, <2>3, <2>4 DEF r
  <1>3. QED
    BY <1>1, <1>2

-----------------------------------------------------------------------------
(* A listener field and its mirror, layer by layer                           *)

\* A layer: t is what is given over s, and r is t with the list brought in line
\* if the layer is about the listener.
Stage(s, given, t, r) ==
  /\ IsSettings(s) /\ IsSettings(t) /\ IsSettings(r) /\ Same(t, s, "access")
  /\ \A f \in ListenerFields : Same(t, Assign(s, given), f)
  /\ \/ r = SyncPrimaryAccess(t)
     \/ r = t /\ ListenerFields \cap DOMAIN given = {}

\* The field has this value, and so has its mirror.
Has(s, f, v) ==
  /\ f \in DOMAIN s /\ s[f] = v
  /\ AccessField[f] \in DOMAIN Beneath(s) /\ Beneath(s)[AccessField[f]] = v

\* The field and its mirror are not there.
Lacks(s, f) == f \notin DOMAIN s /\ AccessField[f] \notin DOMAIN Beneath(s)
Addressing == {"mode", "listenHost", "listenPort"}
Secrets == {"proxyUsername", "proxyPassword"}
Preset == [mode |-> "socks5", listenHost |-> "0.0.0.0", listenPort |-> 1080]

\* What the field and its mirror are, or will be made, is one of these values.
Among(s, f, V) ==
  /\ f \in DOMAIN s => s[f] \in V
  /\ AccessField[f] \in DOMAIN Beneath(s) => Beneath(s)[AccessField[f]] \in V
  /\ AccessField[f] \in DOMAIN Beneath(s) \/ Preset[f] \in V

\* The listener fields, and the names they have in an entry.
LEMMA ListenerFieldsAre ==
  /\ ListenerFields = Addressing \cup Secrets
  /\ AccessField["mode"] = "type" /\ AccessField["listenHost"] = "listenHost"
  /\ AccessField["listenPort"] = "listenPort" /\ AccessField["proxyUsername"] = "username"
  /\ AccessField["proxyPassword"] = "password"
  /\ Preset["mode"] = "socks5" /\ Preset["listenHost"] = "0.0.0.0" /\ Preset["listenPort"] = 1080
  /\ \A f \in Addressing : AccessField[f] \notin Credentials
  /\ \A f \in Secrets : AccessField[f] \in Credentials
  /\ \A f, h \in ListenerFields : AccessField[f] = AccessField[h] => f = h
  BY FieldsAre DEF AccessField, Preset, Addressing, Secrets, Credentials

\* The same list has the same head.
LEMMA BeneathSame ==
  ASSUME NEW s, NEW t, Same(t, s, "access")
  PROVE  Beneath(t) = Beneath(s) /\ Entries(t) = Entries(s)
  BY DEF Beneath, Entries, Get, Same

\* A list brought in line mirrors every listener field that is there.
LEMMA BeneathSynced ==
  ASSUME NEW t, IsSettings(t)
  PROVE  /\ Beneath(SyncPrimaryAccess(t)) = Synced(t) /\ Entries(SyncPrimaryAccess(t)) # <<>>
         /\ "type" \in DOMAIN Synced(t)
         /\ \A f \in ListenerFields : Same(SyncPrimaryAccess(t), t, f)
         /\ \A f \in ListenerFields : f \in DOMAIN t =>
              AccessField[f] \in DOMAIN Synced(t) /\ Synced(t)[AccessField[f]] = t[f]
         /\ \A f \in ListenerFields : AccessField[f] \in DOMAIN AsAccess(t) <=> f \in DOMAIN t
  <1>1. Beneath(SyncPrimaryAccess(t)) = Synced(t) /\ Entries(SyncPrimaryAccess(t)) # <<>>
    BY SyncPrimaryAccessIs, EntriesOf DEF Beneath
  <1>2. \A f \in ListenerFields : Same(SyncPrimaryAccess(t), t, f)
    BY SyncPrimaryAccessIs, FieldsAre
  <1>3. \A f \in ListenerFields :
          /\ AccessField[f] \in DOMAIN AsAccess(t) <=> f \in DOMAIN t
          /\ f \in DOMAIN t => AsAccess(t)[AccessField[f]] = t[f]
    BY AsAccessIs, FieldsAre
  <1>4. \A f \in ListenerFields : f \in DOMAIN t =>
              AccessField[f] \in DOMAIN Synced(t) /\ Synced(t)[AccessField[f]] = t[f]
    BY <1>3, SyncedIs
  <1>5. "type" \in DOMAIN Synced(t)
    BY SyncedIs
  <1>6. QED
    BY <1>1, <1>2, <1>3, <1>4, <1>5

\* What a layer gives about a listener field, before the list follows.
LEMMA StageGiven ==
  ASSUME NEW s, NEW given, NEW t, NEW r, Stage(s, given, t, r), NEW f \in ListenerFields
  PROVE  /\ States(given, f) => f \in DOMAIN t /\ t[f] = given[f] /\ r = SyncPrimaryAccess(t)
         /\ ~States(given, f) /\ f \in DOMAIN t => f \in DOMAIN s /\ t[f] = s[f]
         /\ f \notin DOMAIN given => Same(t, s, f)
         /\ Beneath(t) = Beneath(s)
  <1>1. Same(t, Assign(s, given), f)
    BY DEF Stage
  <1>2. /\ f \in DOMAIN Assign(s, given) <=>
             IF f \in DOMAIN given THEN ~IsZero(f, given[f]) ELSE f \in DOMAIN s
        /\ f \in DOMAIN Assign(s, given) =>
             Assign(s, given)[f] = IF f \in DOMAIN given THEN given[f] ELSE s[f]
    BY AssignIs
  <1>3. Beneath(t) = Beneath(s)
    BY BeneathSame DEF Stage
  <1>4. States(given, f) => r = SyncPrimaryAccess(t)
    BY DEF Stage, States
  <1>5. QED
    BY <1>1, <1>2, <1>3, <1>4 DEF Same, States

\* What a layer states, the field and its mirror have after it.
LEMMA StageStates ==
  ASSUME NEW s, NEW given, NEW t, NEW r, Stage(s, given, t, r), NEW f \in ListenerFields,
         States(given, f)
  PROVE  Has(r, f, given[f])
  <1>1. f \in DOMAIN t /\ t[f] = given[f] /\ r = SyncPrimaryAccess(t) /\ IsSettings(t)
    BY StageGiven DEF Stage
  <1>2. QED
    BY <1>1, BeneathSynced DEF Has, Same

\* A value that field and mirror have is the only candidate.
LEMMA HasAmong ==
  ASSUME NEW s, NEW f, NEW v, Has(s, f, v)
  PROVE  Among(s, f, {v})
  BY DEF Has, Among

\* A layer that states nothing adds no candidate for the address.
LEMMA StageAmong ==
  ASSUME NEW s, NEW given, NEW t, NEW r, Stage(s, given, t, r), NEW f \in Addressing,
         ~States(given, f), NEW V, Among(s, f, V)
  PROVE  Among(r, f, V)
  <1> DEFINE k == AccessField[f]
  <1>1. f \in ListenerFields /\ k \notin Credentials
    BY ListenerFieldsAre
  <1>2. Among(t, f, V) /\ IsSettings(t)
    BY <1>1, StageGiven DEF Among, Stage
  <1>3. CASE r = t
    BY <1>2, <1>3
  <1>4. CASE r = SyncPrimaryAccess(t)
    <2>1. /\ Beneath(r) = Synced(t) /\ Same(r, t, f)
          /\ k \in DOMAIN AsAccess(t) <=> f \in DOMAIN t
          /\ f \in DOMAIN t => k \in DOMAIN Synced(t) /\ Synced(t)[k] = t[f]
      BY <1>1, <1>2, <1>4, BeneathSynced
    <2>2. /\ k \in DOMAIN Beneath(t) \ DOMAIN AsAccess(t) =>
               k \in DOMAIN Synced(t) /\ Synced(t)[k] = Beneath(t)[k]
      BY <1>1, <1>2, SyncedIs
    <2>3. k \in DOMAIN Synced(t) \ DOMAIN AsAccess(t) =>
                 \/ k \in DOMAIN Beneath(t) /\ Synced(t)[k] = Beneath(t)[k]
                 \/ k = "type" /\ Synced(t)[k] = "socks5"
                 \/ k = "listenHost" /\ Synced(t)[k] = "0.0.0.0"
                 \/ k = "listenPort" /\ Synced(t)[k] = 1080
      BY <1>2, SyncedIs
    <2>4. k \in {"type", "listenHost", "listenPort"} /\
          (k = "type" => Preset[f] = "socks5") /\
          (k = "listenHost" => Preset[f] = "0.0.0.0") /\ (k = "listenPort" => Preset[f] = 1080)
      BY ListenerFieldsAre DEF Addressing
    <2> HIDE DEF k
    <2>5. k \in DOMAIN Synced(t) => Synced(t)[k] \in V
      <3>1. CASE f \in DOMAIN t
        BY <1>2, <2>1, <3>1 DEF Among
      <3>2. CASE f \notin DOMAIN t /\ k \in DOMAIN Beneath(t)
        BY <1>2, <2>1, <2>2, <3>2 DEF Among, k
      <3>3. CASE f \notin DOMAIN t /\ k \notin DOMAIN Beneath(t)
        BY <1>2, <2>1, <2>3, <2>4, <3>3 DEF Among, k
      <3>4. QED
        BY <3>1, <3>2, <3>3
    <2>6. k \in DOMAIN Synced(t) \/ Preset[f] \in V
      <3>1. CASE k \in DOMAIN Beneath(t)
        BY <2>1, <2>2, <3>1
      <3>2. CASE k \notin DOMAIN Beneath(t)
        BY <1>2, <3>2 DEF Among, k
      <3>3. QED
        BY <3>1, <3>2
    <2>7. f \in DOMAIN r => r[f] \in V
      BY <1>2, <2>1 DEF Among, Same
    <2>8. QED
      BY <2>1, <2>5, <2>6, <2>7 DEF Among, k
  <1>5. QED
    BY <1>3, <1>4 DEF Stage

\* The list is typed after a layer about the listener, and stays so.
LEMMA StageTyped ==
  ASSUME NEW s, NEW given, NEW t, NEW r, Stage(s, given, t, r),
         (Entries(s) # <<>> /\ "type" \in DOMAIN Beneath(s)) \/ r = SyncPrimaryAccess(t)
  PROVE  Entries(r) # <<>> /\ "type" \in DOMAIN Beneath(r)
  <1>1. CASE r = SyncPrimaryAccess(t)
    BY <1>1, BeneathSynced DEF Stage
  <1>2. CASE r = t /\ r # SyncPrimaryAccess(t)
    BY <1>2, BeneathSame DEF Stage
  <1>3. QED
    BY <1>1, <1>2 DEF Stage

\* A secret that nothing is given about stays; one that is emptied stays in the
\* list unless the other one is still there.
LEMMA StageSecret ==
  ASSUME NEW s, NEW given, NEW t, NEW r, Stage(s, given, t, r), NEW f \in Secrets, NEW v, Has(s,
             f, v)
  PROVE  /\ f \notin DOMAIN given => Has(r, f, v)
         /\ ~States(given, f) =>
              \/ AccessField[f] \in DOMAIN Beneath(r) /\ Beneath(r)[AccessField[f]] = v
              \/ /\ AccessField[f] \notin DOMAIN Beneath(r)
                 /\ \E k \in Credentials : k \in DOMAIN Beneath(r)
  <1> DEFINE k == AccessField[f]
  <1>1. f \in ListenerFields /\ k \in Credentials
    BY ListenerFieldsAre
  <1>2. /\ f \notin DOMAIN given => Same(t, s, f)
        /\ ~States(given, f) /\ f \in DOMAIN t => f \in DOMAIN s /\ t[f] = s[f]
        /\ Beneath(t) = Beneath(s) /\ IsSettings(t)
    BY <1>1, StageGiven DEF Stage
  <1>3. CASE r = t
    BY <1>2, <1>3 DEF Has, Same
  <1>4. CASE r = SyncPrimaryAccess(t)
    <2>1. /\ Beneath(r) = Synced(t) /\ Same(r, t, f)
          /\ k \in DOMAIN AsAccess(t) <=> f \in DOMAIN t
          /\ f \in DOMAIN t => k \in DOMAIN Synced(t) /\ Synced(t)[k] = t[f]
      BY <1>1, <1>2, <1>4, BeneathSynced
    <2>2. k \in DOMAIN Beneath(t) \ DOMAIN AsAccess(t) =>
                 \/ DOMAIN AsAccess(t) \cap Credentials # {}
                 \/ k \in DOMAIN Synced(t) /\ Synced(t)[k] = Beneath(t)[k]
      BY <1>2, SyncedIs
    <2>3. /\ DOMAIN AsAccess(t) \cap Credentials # {}
                 => DOMAIN Synced(t) \cap Credentials \subseteq DOMAIN AsAccess(t)
          /\ DOMAIN AsAccess(t) \subseteq DOMAIN Synced(t)
      BY <1>2, SyncedIs
    <2> HIDE DEF k
    <2>4. k \in DOMAIN Beneath(t) /\ Beneath(t)[k] = v
      BY <1>2 DEF Has, k
    <2>5. ASSUME f \notin DOMAIN given
          PROVE  Has(r, f, v)
      BY <1>2, <2>1, <2>5 DEF Has, Same, k
    <2>6. ASSUME ~States(given, f)
          PROVE  \/ k \in DOMAIN Beneath(r) /\ Beneath(r)[k] = v
                 \/ k \notin DOMAIN Beneath(r) /\ \E h \in Credentials : h \in DOMAIN Beneath(r)
      <3>1. CASE f \in DOMAIN t
        BY <1>2, <2>1, <2>6, <3>1 DEF Has
      <3>2. CASE f \notin DOMAIN t /\ DOMAIN AsAccess(t) \cap Credentials = {}
        BY <2>1, <2>2, <2>4, <3>2
      <3>3. CASE f \notin DOMAIN t /\ DOMAIN AsAccess(t) \cap Credentials # {}
        <4>1. k \notin DOMAIN Synced(t)
          BY <1>1, <2>1, <2>3, <3>3 DEF k
        <4>2. \E h \in Credentials : h \in DOMAIN Synced(t)
          BY <2>3, <3>3
        <4>3. QED
          BY <2>1, <4>1, <4>2
      <3>4. QED
        BY <3>1, <3>2, <3>3
    <2>7. QED
      BY <2>5, <2>6 DEF k
  <1>5. QED
    BY <1>3, <1>4 DEF Stage

\* Credentials that are not there and not stated are not there after.
LEMMA StageLacks ==
  ASSUME NEW s, NEW given, NEW t, NEW r, Stage(s, given, t, r), NEW f \in Secrets,
         ~States(given, f), Lacks(s, f)
  PROVE  Lacks(r, f)
  <1> DEFINE k == AccessField[f]
  <1>1. f \in ListenerFields /\ k \notin {"type", "listenHost", "listenPort"}
    BY ListenerFieldsAre DEF Secrets
  <1>2. Lacks(t, f) /\ IsSettings(t)
    BY <1>1, StageGiven DEF Lacks, Stage
  <1>3. CASE r = t
    BY <1>2, <1>3
  <1>4. CASE r = SyncPrimaryAccess(t)
    <2>1. /\ Beneath(r) = Synced(t) /\ Same(r, t, f)
          /\ k \in DOMAIN AsAccess(t) <=> f \in DOMAIN t
      BY <1>1, <1>2, <1>4, BeneathSynced
    <2>2. k \in DOMAIN Synced(t) \ DOMAIN AsAccess(t) =>
                 \/ k \in DOMAIN Beneath(t)
                 \/ k = "type"
                 \/ k = "listenHost"
                 \/ k = "listenPort"
      BY <1>2, SyncedIs
    <2> HIDE DEF k
    <2>3. QED
      BY <1>1, <1>2, <2>1, <2>2 DEF Lacks, Same, k
  <1>5. QED
    BY <1>3, <1>4 DEF Stage

\* One of four sources states the field first, or none does.
LEMMA FirstStatedIs ==
  ASSUME NEW a, NEW b, NEW c, NEW d, NEW k
  PROVE  LET first == FirstStated(<<a, b, c, d>>, k)
         IN /\ States(a, k) => first = [x \in {k} |-> a[k]]
            /\ ~States(a, k) /\ States(b, k) => first = [x \in {k} |-> b[k]]
            /\ ~States(a, k) /\ ~States(b, k) /\ States(c, k) => first = [x \in {k} |-> c[k]]
            /\ ~States(a, k) /\ ~States(b, k) /\ ~States(c, k) /\ States(d, k)
                 => first = [x \in {k} |-> d[k]]
            /\ ~States(a, k) /\ ~States(b, k) /\ ~States(c, k) /\ ~States(d, k) => first = None
  <1> DEFINE sources == <<a, b, c, d>>
             stating == {i \in DOMAIN sources : States(sources[i], k)}
             least == CHOOSE i \in stating : \A j \in stating : i <= j
  <1>1. /\ DOMAIN sources = 1..4 /\ sources[1] = a /\ sources[2] = b
        /\ sources[3] = c /\ sources[4] = d
    OBVIOUS
  <1>2. FirstStated(sources, k) =
          IF stating = {} THEN None ELSE [x \in {k} |-> sources[least][k]]
    BY DEF FirstStated
  <1> HIDE DEF sources
  <1>3. /\ 1 \in stating <=> States(a, k)
        /\ 2 \in stating <=> States(b, k)
        /\ 3 \in stating <=> States(c, k)
        /\ 4 \in stating <=> States(d, k)
        /\ stating \subseteq 1..4
    BY <1>1
  <1> HIDE DEF stating
  <1>4. \A i \in stating : (\A j \in stating : i <= j) => least = i
    <2>1. \A i, j \in 1..4 : i <= j /\ j <= i => i = j
      OBVIOUS
    <2>2. QED
      BY <1>3, <2>1
  <1>5. /\ 1 \in stating => least = 1
        /\ 1 \notin stating /\ 2 \in stating => least = 2
        /\ 1 \notin stating /\ 2 \notin stating /\ 3 \in stating => least = 3
        /\ 1 \notin stating /\ 2 \notin stating /\ 3 \notin stating /\ 4 \in stating => least = 4
        /\ 1 \notin stating /\ 2 \notin stating /\ 3 \notin stating /\ 4 \notin stating =>
               stating = {}
    BY <1>3, <1>4
  <1> HIDE DEF least
  <1>6. QED
    BY <1>1, <1>2, <1>3, <1>5 DEF sources

\* The restriction to one field, if it is there and if not.
LEMMA FieldOf ==
  ASSUME NEW s, NEW k
  PROVE  /\ k \in DOMAIN s => Restrict(s, DOMAIN s \cap {k}) = [x \in {k} |-> s[k]]
         /\ k \notin DOMAIN s => Restrict(s, DOMAIN s \cap {k}) = None
  <1>1. k \in DOMAIN s => DOMAIN s \cap {k} = {k}
    OBVIOUS
  <1>2. k \notin DOMAIN s => DOMAIN s \cap {k} = {}
    OBVIOUS
  <1>3. QED
    BY <1>1, <1>2 DEF Restrict, None

\* What the variables give about scalars, and that they empty no field but a number.
LEMMA ScalarIs ==
  ASSUME NEW env, IsEnvironment(env)
  PROVE  /\ \A k : k \notin SectionNames => Same(Scalar(env), WithMode(env), k)
         /\ \A k \in DOMAIN WithMode(env) \ SectionNames : k \notin Numbers =>
                States(WithMode(env), k)
  <1> DEFINE sc == Without(env, SectionNames)
  <1>1. IsRecord(env) /\ IsRecord(sc)
    BY ScalarsOf DEF IsEnvironment
  <1>2. \A k : k \notin SectionNames => Same(sc, env, k)
    BY ScalarsOf DEF Same
  <1>3. "mode" \notin SectionNames /\ "proxyMode" \notin SectionNames
    BY DEF SectionNames
  <1>4. Scalar(env) = WithMode(sc)
    BY DEF Scalar
  <1> HIDE DEF sc
  <1>5. \A k : k # "mode" => Same(WithMode(sc), sc, k) /\ Same(WithMode(env), env, k)
    BY <1>1, WithModeIs
  <1>6. Same(WithMode(sc), WithMode(env), "mode")
    <2>1. Same(sc, env, "mode") /\ Same(sc, env, "proxyMode")
      BY <1>2, <1>3
    <2>2. QED
      BY <2>1 DEF Same, WithMode, @@
  <1>7. \A k : k \notin SectionNames => Same(Scalar(env), WithMode(env), k)
    BY <1>2, <1>4, <1>5, <1>6 DEF Same
  <1>8. \A k \in DOMAIN env \ (Numbers \cup SectionNames) : ~IsZero(k, env[k])
    BY DEF IsEnvironment
  <1>9. ASSUME NEW k \in DOMAIN WithMode(env) \ SectionNames, k \notin Numbers
        PROVE  States(WithMode(env), k)
    <2>1. CASE k # "mode"
      BY <1>5, <1>8, <1>9, <2>1 DEF Same, States
    <2>2. CASE k = "mode"
      <3>1. \A v : IsZero("mode", v) <=> IsZero("proxyMode", v)
        BY DEF IsZero, Numbers, Switches
      <3>2. "mode" \notin Numbers /\ "proxyMode" \notin Numbers
        BY DEF Numbers
      <3>3. CASE "mode" \in DOMAIN env
        BY <1>1, <1>3, <1>8, <2>2, <3>2, <3>3, WithModeIs DEF States
      <3>4. CASE "mode" \notin DOMAIN env
        <4>1. "proxyMode" \in DOMAIN env /\ WithMode(env).mode = env.proxyMode
          BY <1>1, <1>9, <2>2, <3>4, WithModeIs
        <4>2. QED
          BY <1>3, <1>8, <1>9, <2>2, <3>1, <3>2, <4>1 DEF States
      <3>5. QED
        BY <3>3, <3>4
    <2>3. QED
      BY <2>1, <2>2
  <1>10. QED
    BY <1>7, <1>9

\* Sources that do not touch the listener give no listener field.
LEMMA Untouched ==
  ASSUME NEW given, IsRecord(given), ~Touches(given)
  PROVE  \A f \in ListenerFields \cup {"proxyMode"} : f \notin DOMAIN WithMode(given)
  BY WithModeIs DEF Touches, Same

\* The listener fields of normal settings mirror the primary entry.
LEMMA Mirrored ==
  ASSUME NEW n, IsNormal(n), NEW f \in ListenerFields
  PROVE  /\ f \in DOMAIN n <=> AccessField[f] \in DOMAIN n.access[1]
         /\ f \in DOMAIN n => n[f] = n.access[1][AccessField[f]]
         /\ States(n, f) <=> f \in DOMAIN n
         /\ "mode" \in DOMAIN n
  <1>1. f \notin SectionNames \cup {"access"}
    BY FieldsAre DEF SectionNames
  <1>2. IsSettings(n)
    BY DEF IsNormal
  <1>3. f \in DOMAIN n => ~IsZero(f, n[f])
    BY <1>1, <1>2, FieldNotZero
  <1>4. "mode" \in ListenerFields /\ AccessField["mode"] = "type"
    BY ListenerFieldsAre DEF Addressing
  <1>5. \A h \in ListenerFields : /\ h \in DOMAIN n <=> AccessField[h] \in DOMAIN n.access[1]
                                  /\ h \in DOMAIN n => n[h] = n.access[1][AccessField[h]]
    BY DEF IsNormal
  <1>6. "type" \in DOMAIN n.access[1]
    BY DEF IsNormal
  <1>7. QED
    BY <1>3, <1>4, <1>5, <1>6 DEF States

\* What the settings without any file, and normalised, say of the listener.
LEMMA DefaultListener ==
  LET n == Normalize(DefaultSettings)
  IN /\ \A f \in Addressing : f \in DOMAIN n /\ n[f] = Preset[f] /\ DefaultSettings[f] = Preset[f]
     /\ \A f \in Addressing : f \in DOMAIN DefaultSettings
     /\ \A f \in Secrets : f \notin DOMAIN n /\ f \notin DOMAIN DefaultSettings
     /\ Entries(DefaultSettings) = <<>> /\ Beneath(DefaultSettings) = None
     /\ IsNormal(n)
  <1> DEFINE n == Normalize(DefaultSettings)
             d == DefaultSettings
             q == n.access[1]
  <1>1. /\ IsNormal(n) /\ IsSettings(d)
        /\ DOMAIN d = {"runtimeFamily", "transport", "mode", "listenHost",
                               "listenPort", "logLevel", "backend", "proxyMode"}
    BY DefaultSettingsAre, NormalizeNormal
  <1>2. Entries(d) = <<>>
    BY <1>1 DEF Entries, Get
  <1>3. \A f \in ListenerFields : /\ f \in DOMAIN n <=> AccessField[f] \in DOMAIN q
                                  /\ f \in DOMAIN n => n[f] = q[AccessField[f]]
    BY <1>1, Mirrored
  <1>4. /\ q.type = ModeOf(Selected(d)) /\ "type" \in DOMAIN q
        /\ \A f \in ListenerFields \ {"mode"} : f \in DOMAIN d =>
                 AccessField[f] \in DOMAIN q /\ q[AccessField[f]] = d[f]
        /\ \A k \in DOMAIN q \ {"type"} :
                 \/ k \in DOMAIN LegacyField /\ LegacyField[k] \in DOMAIN d
                 \/ k = "listenHost"
                 \/ k = "listenPort"
    BY <1>1, <1>2, UnlistedIs
  <1>5. d.mode = "socks5" /\ d.proxyMode = "socks5" /\ d.listenHost = "0.0.0.0" /\
            d.listenPort = 1080
    BY DefaultSettingsAre
  <1> HIDE DEF n, q, d
  <1>6. ModeOf(Selected(d)) = "socks5"
    <2>1. Same(Selected(d), d, "mode") /\ Same(Selected(d), d, "proxyMode")
      BY SelectedIs DEF Selecting
    <2>2. "socks5" # Unset
      BY UnsetIs
    <2>3. QED
      BY <1>1, <1>5, <2>1, <2>2, ModeOfIs DEF Same
  <1>7. \A f \in Addressing : f \in DOMAIN n /\ n[f] = Preset[f]
    <2>1. "mode" \in DOMAIN n /\ n["mode"] = "socks5"
      BY <1>3, <1>4, <1>6, ListenerFieldsAre DEF Addressing
    <2>2. "listenHost" \in DOMAIN n /\ n["listenHost"] = "0.0.0.0"
      BY <1>1, <1>3, <1>4, <1>5, ListenerFieldsAre DEF Addressing
    <2>3. "listenPort" \in DOMAIN n /\ n["listenPort"] = 1080
      BY <1>1, <1>3, <1>4, <1>5, ListenerFieldsAre DEF Addressing
    <2>4. QED
      BY <2>1, <2>2, <2>3, ListenerFieldsAre DEF Addressing
  <1>8. \A f \in Addressing : f \in DOMAIN d /\ d[f] = Preset[f]
    BY <1>1, <1>5, ListenerFieldsAre DEF Addressing
  <1>9. \A f \in Secrets : f \notin DOMAIN n /\ f \notin DOMAIN d
    <2>1. "username" \notin DOMAIN q /\ "password" \notin DOMAIN q
      BY <1>1, <1>4 DEF LegacyField
    <2>2. QED
      BY <1>1, <1>3, <2>1, ListenerFieldsAre DEF Secrets
  <1>10. Beneath(d) = None
    BY <1>2 DEF Beneath
  <1>11. QED
    BY <1>1, <1>2, <1>7, <1>8, <1>9, <1>10 DEF n, d

\* What valid normalised settings say of the listener, from what the list says.
LEMMA ListenerResolved ==
  ASSUME NEW g, IsSettings(g), Entries(g) # <<>>, "type" \in DOMAIN Beneath(g),
             Validate(Normalize(g))
  PROVE  LET s == Normalize(g)
         IN /\ \A f \in Addressing : f \in DOMAIN s
            /\ \A f \in Addressing : \A V : Among(g, f, V) => s[f] \in V
            /\ \A f \in Secrets : /\ f \in DOMAIN s <=> AccessField[f] \in DOMAIN Beneath(g)
                                  /\ f \in DOMAIN s => s[f] = Beneath(g)[AccessField[f]]
            /\ "username" \in DOMAIN Beneath(g) <=> "password" \in DOMAIN Beneath(g)
  <1> DEFINE s == Normalize(g)
             q == s.access
             b == Beneath(g)
  <1>1. IsNormal(s)
    BY NormalizeNormal
  <1>2. /\ {"type", "listenHost", "listenPort"} \subseteq DOMAIN q[1]
        /\ "username" \in DOMAIN q[1] <=> "password" \in DOMAIN q[1]
    BY <1>1, ValidIs
  <1>3. b = g.access[1]
    BY BeneathIs
  <1>4. /\ \A k : k \notin {"type", "listenHost"} => Same(q[1], b, k)
        /\ Same(q[1], b, "type")
        /\ "listenHost" \in DOMAIN b => Same(q[1], b, "listenHost")
        /\ "listenHost" \in DOMAIN q[1] \ DOMAIN b => q[1].listenHost = "0.0.0.0"
    BY <1>3, ListedIs
  <1>5. \A f \in ListenerFields :
          /\ f \in DOMAIN s <=> AccessField[f] \in DOMAIN q[1]
          /\ f \in DOMAIN s => s[f] = q[1][AccessField[f]]
    BY <1>1, Mirrored
  <1> HIDE DEF s, q, b
  <1>6. \A f \in Addressing : f \in DOMAIN s
    BY <1>2, <1>5, ListenerFieldsAre DEF Addressing
  <1>7. ASSUME NEW f \in Addressing, NEW V, Among(g, f, V)
        PROVE  s[f] \in V
    <2>1. s[f] = q[1][AccessField[f]]
      BY <1>5, <1>6, ListenerFieldsAre
    <2>2. /\ AccessField[f] \in DOMAIN b => b[AccessField[f]] \in V
          /\ AccessField[f] \in DOMAIN b \/ Preset[f] \in V
      BY <1>7 DEF Among, b
    <2>3. CASE f = "mode"
      BY <1>2, <1>4, <2>1, <2>2, <2>3, ListenerFieldsAre DEF Same
    <2>4. CASE f = "listenHost"
      BY <1>2, <1>4, <2>1, <2>2, <2>4, ListenerFieldsAre DEF Same
    <2>5. CASE f = "listenPort"
      BY <1>2, <1>4, <2>1, <2>2, <2>5, ListenerFieldsAre DEF Same
    <2>6. QED
      BY <2>3, <2>4, <2>5 DEF Addressing
  <1>8. Same(q[1], b, "username") /\ Same(q[1], b, "password")
    BY <1>4
  <1>9. \A f \in Secrets : /\ f \in DOMAIN s <=> AccessField[f] \in DOMAIN b
                           /\ f \in DOMAIN s => s[f] = b[AccessField[f]]
    BY <1>5, <1>8, ListenerFieldsAre DEF Secrets, Same
  <1>10. "username" \in DOMAIN b <=> "password" \in DOMAIN b
    BY <1>2, <1>8 DEF Same
  <1>11. QED
    BY <1>6, <1>7, <1>9, <1>10 DEF s, b
=================================================================================
