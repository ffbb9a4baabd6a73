----------------------------- MODULE SettingsProofs -----------------------------
(* Proofs about Settings and Rendering for every set of documents, variables,    *)
(* flags and arguments an operator can write (SettingsAssumption), and for every *)
(* account that registration returns (AssignedAssumption).                       *)
EXTENDS Rendering, SettingsLemmas

-----------------------------------------------------------------------------
(* What every command has resolved, from which sources.                      *)

\* What mode set makes of the settings it has read.
ModeChanged(settings, mode) ==
  LET s == Assign(settings, [mode |-> mode, proxyMode |-> mode])
  IN [access |-> IF Entries(s) = <<>> THEN <<AsAccess(s)>>
                 ELSE [s.access EXCEPT ![1] = Assign(@, [type |-> mode])]] @@ s

\* What transport set assigns besides the transport.
FamilyGiven == {None} \cup {[runtimeFamily |-> family] : family \in Families}

\* A command that has resolved the settings from its sources.
Resolution(c) ==
  /\ c.name = "resolve" /\ c.ok
  /\ c.stored # Corrupt /\ IsFile(c.stored, Absent)
  /\ Readable(c.standalone) /\ IsFile(c.standalone, NotGiven)
  /\ IsEnvironment(c.env) /\ IsFlags(c.flags)
  /\ c.sett = Layered(c.stored, c.standalone, c.env, c.flags) /\ Validate(c.sett)

\* One that has written what it made of the file it read.
SetCommand(c) ==
  /\ c.name \in {"transport set", "mode set"} /\ c.ok
  /\ c.stored # Corrupt /\ IsFile(c.stored, Absent)
  /\ IsNormal(c.sett) /\ Validate(c.sett) /\ file = Marshal(c.sett)
  /\ c.name = "transport set" =>
       \E transport \in Transports, given \in FamilyGiven :
         c.sett = Normalize(Assign(Mutable(c.stored), [transport |-> transport] @@ given))
  /\ c.name = "mode set" =>
       \E mode \in Modes : c.sett = Normalize(ModeChanged(Mutable(c.stored), mode))

\* A command that has succeeded has done what it computes from what it was given.
CommandInv ==
  /\ Readable(file) => IsSettings(file)
  /\ command # NoCommand =>
       \/ ~command.ok /\ IsSettings(command.sett)
       \/ Resolution(command)
       \/ SetCommand(command)

\* A file that is JSON can be loaded.
LEMMA FileOf ==
  ASSUME CommandInv, file # Corrupt
  PROVE  IsFile(file, Absent) /\ IsSettings(Mutable(file)) /\ MutableSettings = Mutable(file)
  <1>1. IsFile(file, Absent)
    BY DEF CommandInv, IsFile, Readable
  <1>2. IsSettings(Mutable(file))
    BY <1>1, ReadBack
  <1>3. QED
    BY <1>1, <1>2 DEF Mutable, MutableSettings

\* A list of one entry.
LEMMA SingleIs ==
  ASSUME NEW e
  PROVE  IsSequence(<<e>>) /\ DOMAIN <<e>> = {1} /\ <<e>>[1] = e
  BY DEF IsSequence, Range

\* mode set makes settings.
LEMMA ModeChangedTyped ==
  ASSUME NEW settings, NEW mode, IsSettings(settings)
  PROVE  IsSettings(ModeChanged(settings, mode))
  <1> DEFINE given == [mode |-> mode, proxyMode |-> mode]
             s == Assign(settings, given)
             typed == [type |-> mode]
             entries == IF Entries(s) = <<>> THEN <<AsAccess(s)>>
                        ELSE [s.access EXCEPT ![1] = Assign(s.access[1], typed)]
  <1>1. IsSettings(s)
    <2>1. DOMAIN given \subseteq Scalars
      BY ScalarsAre
    <2>2. QED
      BY <2>1, SettingsAssigned
  <1>2. ModeChanged(settings, mode) = [access |-> entries] @@ s
    BY DEF ModeChanged
  <1> HIDE DEF s
  <1>3. IsSequence(entries) /\ \A i \in DOMAIN entries : IsEntry(entries[i])
    <2>1. CASE Entries(s) = <<>>
      <3>1. entries = <<AsAccess(s)>>
        BY <2>1
      <3>2. IsSequence(entries) /\ DOMAIN entries = {1} /\ entries[1] = AsAccess(s)
        BY <3>1, SingleIs
      <3>3. QED
        BY <1>1, <3>2, AsAccessTyped
    <2>2. CASE Entries(s) # <<>>
      <3>1. /\ "access" \in DOMAIN s /\ 1 \in DOMAIN s.access /\ IsSequence(s.access)
            /\ \A i \in DOMAIN s.access : IsEntry(s.access[i])
        BY <1>1, <2>2, BeneathIs, SettingsAre
      <3>2. IsEntry(Assign(s.access[1], typed))
        <4> DEFINE e == Assign(s.access[1], typed)
        <4>1. /\ IsRecord(e)
              /\ \A k : k \in DOMAIN e <=>
                   IF k \in DOMAIN typed THEN ~IsZero(k, typed[k]) ELSE k \in DOMAIN s.access[1]
              /\ \A k \in DOMAIN e : e[k] = IF k \in DOMAIN typed THEN typed[k] ELSE s.access[1][k]
          BY AssignIs
        <4>2. DOMAIN typed = {"type"} /\ "type" \in EntryFields
          BY FieldsAre DEF EntryFields
        <4> HIDE DEF e, typed
        <4>3. IsEntry(e)
          BY <3>1, <4>1, <4>2 DEF IsEntry, NoZeros
        <4>4. QED
          BY <4>3 DEF e
      <3> DEFINE x == Assign(s.access[1], typed)
      <3>3. entries = [s.access EXCEPT ![1] = x]
        BY <2>2
      <3> HIDE DEF x
      <3>4. /\ DOMAIN entries = DOMAIN s.access /\ entries[1] = x
            /\ \A i \in DOMAIN entries : i # 1 => entries[i] = s.access[i]
        BY <3>1, <3>3
      <3>5. /\ DOMAIN s.access = 1..Len(s.access) /\ Len(s.access) \in Nat
        BY <3>1 DEF IsSequence
      <3>6. entries \in [1..Len(s.access) -> Range(entries)]
        BY <3>3, <3>4, <3>5 DEF Range
      <3>7. IsSequence(entries)
        BY <3>5, <3>6 DEF IsSequence
      <3>8. QED
        BY <3>1, <3>2, <3>4, <3>7 DEF x
    <2>3. QED
      BY <2>1, <2>2
  <1> HIDE DEF entries
  <1>4. IsSettings([access |-> entries])
    BY <1>3, GivenSettings
  <1>5. QED
    BY <1>1, <1>2, <1>4, SettingsMerged

\* A set command that saves.
LEMMA Saves ==
  ASSUME CommandInv, file # Corrupt, NEW name \in {"transport set", "mode set"}, NEW sett,
         SaveValidated(name, sett), IsSettings(sett),
         name = "transport set" =>
           \E transport \in Transports, given \in FamilyGiven :
             sett = Assign(Mutable(file), [transport |-> transport] @@ given),
         name = "mode set" =>
           \E mode \in Modes : sett = ModeChanged(Mutable(file), mode)
  PROVE  CommandInv'
  <1> DEFINE s == Normalize(sett)
  <1>1. IsNormal(s) /\ IsSettings(s)
    BY NormalizeNormal DEF IsNormal
  <1>2. PICK ok \in {FALSE, Validate(s)} :
             /\ command' = Resolved(name, ok, s, NotGiven, None, None)
             /\ file' = IF ok THEN Marshal(s) ELSE file
    BY DEF SaveValidated
  <1>3. /\ command'.name = name /\ command'.ok = ok /\ command'.sett = s
        /\ command'.stored = file
    BY <1>2 DEF Resolved
  <1>4. CASE ok = FALSE
    <2>1. file' = file /\ ~command'.ok /\ IsSettings(command'.sett)
      BY <1>1, <1>2, <1>3, <1>4
    <2>2. QED
      BY <2>1 DEF CommandInv, Readable
  <1>5. CASE ok # FALSE
    <2>1. ok = Validate(s)
      BY <1>2, <1>5
    <2>2. CASE ~Validate(s)
      <3>1. file' = file /\ ~command'.ok /\ IsSettings(command'.sett)
        BY <1>1, <1>2, <1>3, <2>1, <2>2
      <3>2. QED
        BY <3>1 DEF CommandInv, Readable
    <2>3. CASE Validate(s)
      <3>1. file' = Marshal(s) /\ command'.ok
        BY <1>2, <1>3, <2>1, <2>3
      <3>2. IsSettings(file')
        BY <1>1, <3>1, MarshalIs
      <3>3. IsFile(file, Absent)
        BY FileOf
      <3>4. SetCommand(command)'
        <4>1. command'.name = "transport set" =>
               \E transport \in Transports, given \in FamilyGiven :
                 command'.sett =
                     Normalize(Assign(Mutable(command'.stored), [transport |-> transport] @@ given))
          BY <1>3
        <4>2. command'.name = "mode set" =>
               \E mode \in Modes : command'.sett =
                   Normalize(ModeChanged(Mutable(command'.stored), mode))
          BY <1>3
        <4> HIDE DEF s
        <4>3. QED
          BY <1>1, <1>3, <2>3, <3>1, <3>3, <4>1, <4>2 DEF SetCommand
      <3>5. QED
        BY <3>2, <3>4 DEF CommandInv
    <2>4. QED
      BY <2>2, <2>3
  <1>6. QED
    BY <1>4, <1>5

\* A set command that cannot load keeps the invariant.
LEMMA Fails ==
  ASSUME CommandInv, NEW name, LoadFails(name)
  PROVE  CommandInv'
  <1>1. file' = file /\ command' = Resolved(name, FALSE, None, NotGiven, None, None)
    BY DEF LoadFails
  <1>2. ~command'.ok /\ command'.sett = None
    BY <1>1 DEF Resolved
  <1>3. QED
    BY <1>1, <1>2, GivenSettings DEF CommandInv, Readable

\* The invariant every theorem below rests on.
LEMMA CommandInvHolds == Spec => []CommandInv
  <1>1. Init => CommandInv
    BY DEF Init, CommandInv, Readable
  <1>2. CommandInv /\ [Next]_vars => CommandInv'
    <2> SUFFICES ASSUME CommandInv, [Next]_vars
                 PROVE  CommandInv'
      OBVIOUS
    <2>1. ASSUME NEW doc \in Documents \cup {Absent, Corrupt}, WriteSettings(doc)
          PROVE  CommandInv'
      <3>1. file' = doc /\ command' = NoCommand
        BY <2>1 DEF WriteSettings
      <3>2. Readable(doc) => IsSettings(doc)
        BY SettingsAssumption DEF Readable
      <3>3. QED
        BY <3>1, <3>2 DEF CommandInv
    <2>2. ASSUME NEW standalone \in Standalones \cup {NotGiven, Absent, Corrupt},
                 NEW env \in Environments, NEW flags \in FlagSets,
                 Resolve(standalone, env, flags)
          PROVE  CommandInv'
      <3>1. file' = file
        BY <2>2 DEF Resolve
      <3>2. CASE file = Corrupt \/ ~Readable(standalone)
        <4>1. command' = Resolved("resolve", FALSE, None, standalone, env, flags)
          BY <2>2, <3>2 DEF Resolve
        <4>2. ~command'.ok /\ command'.sett = None
          BY <4>1 DEF Resolved
        <4>3. QED
          BY <3>1, <4>2, GivenSettings DEF CommandInv, Readable
      <3>3. CASE ~(file = Corrupt \/ ~Readable(standalone))
        <4> DEFINE s == Layered(file, standalone, env, flags)
        <4>1. command' = Resolved("resolve", Validate(s), s, standalone, env, flags)
          BY <2>2, <3>3 DEF Resolve
        <4>2. /\ IsFile(file, Absent) /\ IsFile(standalone, NotGiven)
              /\ IsEnvironment(env) /\ IsFlags(flags)
          <5>1. IsFile(standalone, NotGiven)
            BY <3>3, SettingsAssumption DEF IsFile, Readable
          <5>2. QED
            BY <3>3, <5>1, FileOf, SettingsAssumption
        <4>3. IsSettings(s)
          BY <4>2, LayeredIs DEF IsNormal
        <4>4. /\ command'.name = "resolve" /\ command'.ok = Validate(s) /\ command'.sett = s
              /\ command'.stored = file /\ command'.standalone = standalone
              /\ command'.env = env /\ command'.flags = flags
          BY <4>1 DEF Resolved
        <4>5. CASE ~Validate(s)
          BY <3>1, <4>3, <4>4, <4>5 DEF CommandInv, Readable
        <4>6. CASE Validate(s)
          <5>1. Resolution(command)'
            BY <3>3, <4>2, <4>4, <4>6 DEF Resolution
          <5>2. QED
            BY <3>1, <5>1 DEF CommandInv, Readable
        <4>7. QED
          BY <4>5, <4>6
      <3>4. QED
        BY <3>2, <3>3
    <2>3. ASSUME NEW transport \in Transports, NEW family \in Families \cup {Unset},
                 TransportSet(transport, family)
          PROVE  CommandInv'
      <3>1. CASE LoadFails("transport set")
        BY <3>1, Fails
      <3>2. CASE ~LoadFails("transport set")
        <4> DEFINE given == CASE family # Unset           -> [runtimeFamily |-> family]
                              [] transport = "masque"    -> [runtimeFamily |-> "native"]
                              [] transport = "wireguard" -> [runtimeFamily |-> "legacy"]
                              [] OTHER                   -> None
                   all == [transport |-> transport] @@ given
                   sett == Assign(MutableSettings, all)
        <4>1. file # Corrupt /\ SaveValidated("transport set", sett)
          BY <2>3, <3>2 DEF TransportSet
        <4>2. given \in FamilyGiven
          BY DEF FamilyGiven, Families
        <4>3. DOMAIN all \subseteq Scalars
          <5>1. DOMAIN given \subseteq {"runtimeFamily"}
            BY <4>2, NoneIs DEF FamilyGiven
          <5> HIDE DEF given
          <5>2. DOMAIN all \subseteq {"transport", "runtimeFamily"}
            BY <5>1 DEF @@
          <5>3. QED
            BY <5>2, ScalarsAre
        <4>4. MutableSettings = Mutable(file) /\ IsSettings(Mutable(file))
          BY <4>1, FileOf
        <4> HIDE DEF given
        <4>5. \E tr \in Transports, gi \in FamilyGiven : sett =
                  Assign(Mutable(file), [transport |-> tr] @@ gi)
          BY <4>2, <4>4
        <4>6. IsSettings(sett)
          BY <4>3, <4>4, SettingsAssigned
        <4> HIDE DEF sett
        <4>7. QED
          BY <4>1, <4>5, <4>6, Saves
      <3>3. QED
        BY <3>1, <3>2
    <2>4. ASSUME NEW mode \in Modes, ModeSet(mode)
          PROVE  CommandInv'
      <3>1. CASE LoadFails("mode set")
        BY <3>1, Fails
      <3>2. CASE ~LoadFails("mode set")
        <4> DEFINE sett == ModeChanged(MutableSettings, mode)
        <4>1. file # Corrupt /\ SaveValidated("mode set", sett)
          BY <2>4, <3>2 DEF ModeSet, ModeChanged
        <4>2. MutableSettings = Mutable(file) /\ IsSettings(Mutable(file))
          BY <4>1, FileOf
        <4>3. \E m \in Modes : sett = ModeChanged(Mutable(file), m)
          BY <4>2
        <4>4. IsSettings(sett)
          BY <4>2, ModeChangedTyped
        <4> HIDE DEF sett
        <4>5. QED
          BY <4>1, <4>3, <4>4, Saves
      <3>3. QED
        BY <3>1, <3>2
    <2>5. CASE Exit
      BY <2>5 DEF Exit, CommandInv, Readable
    <2>6. CASE UNCHANGED vars
      BY <2>6 DEF vars, CommandInv, Readable, SetCommand, Resolution
    <2>7. QED
      BY <2>1, <2>2, <2>3, <2>4, <2>5, <2>6 DEF Next
  <1>3. QED
    BY <1>1, <1>2, PTL DEF Spec

\* Resolved settings are normal and valid.
LEMMA ResolutionIs ==
  ASSUME NEW c, Resolution(c)
  PROVE  IsNormal(c.sett) /\ IsSettings(c.sett) /\ Validate(c.sett)
  BY LayeredIs DEF Resolution, IsNormal

\* A command that has finished is a resolution or has written the file.
LEMMA FinishedIs ==
  ASSUME CommandInv, NEW names, Finished(names)
  PROVE  /\ command.name = "resolve" => Resolution(command)
         /\ command.name # "resolve" => SetCommand(command)
         /\ IsNormal(command.sett) /\ Validate(command.sett)
  <1>1. Resolution(command) \/ SetCommand(command)
    BY DEF CommandInv, Finished
  <1>2. CASE Resolution(command)
    BY <1>2, ResolutionIs DEF Resolution
  <1>3. CASE SetCommand(command)
    BY <1>3 DEF SetCommand
  <1>4. QED
    BY <1>1, <1>2, <1>3

-----------------------------------------------------------------------------
(* Type correctness, and the round trip through the file                     *)

\* Whatever documents, variables, flags and arguments there are, settings have
\* known fields, no zero values and a listener, and what a command writes lacks
\* the deprecated aliases (Settings.Normalize, MarshalJSON).
THEOREM SettingsTyped == Spec => []TypeOK
  <1>1. CommandInv => TypeOK
    <2> SUFFICES ASSUME CommandInv PROVE TypeOK
      OBVIOUS
    <2>1. CASE command = NoCommand
      BY <2>1 DEF CommandInv, TypeOK
    <2>2. CASE command # NoCommand /\ ~command.ok
      BY <2>2, ResolutionIs DEF CommandInv, TypeOK, Resolution, SetCommand
    <2>3. CASE command # NoCommand /\ Resolution(command)
      <3>1. IsSettings(command.sett) /\ Entries(command.sett) # <<>>
        BY <2>3, ResolutionIs, EntriesOf DEF IsNormal
      <3>2. QED
        BY <2>3, <3>1 DEF CommandInv, TypeOK, Resolution
    <2>4. CASE command # NoCommand /\ SetCommand(command)
      <3>1. IsSettings(command.sett) /\ Entries(command.sett) # <<>>
        BY <2>4, EntriesOf DEF IsNormal, SetCommand
      <3>2. DOMAIN file \cap {"backend", "proxyMode"} = {}
        BY <2>4, MarshalIs DEF SetCommand
      <3>3. QED
        BY <2>4, <3>1, <3>2 DEF CommandInv, TypeOK, SetCommand
    <2>5. QED
      BY <2>1, <2>2, <2>3, <2>4 DEF CommandInv
  <1>2. QED
    BY <1>1, CommandInvHolds, PTL

\* Valid settings survive being saved and loaded, whatever they are
\* (saveSettingsValidated, MarshalJSON, UnmarshalJSON, settings.Load).
THEOREM SavedSettingsAreFound == Spec => []SavedIsFound
  <1>1. CommandInv => SavedIsFound
    <2> SUFFICES ASSUME CommandInv, Finished({"resolve", "transport set", "mode set"})
                 PROVE  LET doc == IF command.name = "resolve" THEN Marshal(command.sett) ELSE file
                            found == Layered(doc, NotGiven, None, None)
                        IN Validate(found) /\ Trimmed(found) = Trimmed(command.sett)
      BY DEF SavedIsFound
    <2> DEFINE doc == IF command.name = "resolve" THEN Marshal(command.sett) ELSE file
    <2>1. IsNormal(command.sett) /\ Validate(command.sett)
      BY FinishedIs
    <2>2. doc = Marshal(command.sett)
      BY FinishedIs DEF SetCommand
    <2> HIDE DEF doc
    <2>3. QED
      BY <2>1, <2>2, FoundAgain, SettingsAssumption DEF doc
  <1>2. QED
    BY <1>1, CommandInvHolds, PTL

-----------------------------------------------------------------------------
(* The set commands                                                          *)

\* The same settings but for the selection.
LEMMA TransportChanges ==
  ASSUME NEW x, IsSettings(x), NEW given, DOMAIN given \subseteq Selecting
  PROVE  \A k : k \notin Selecting \cup {"backend"} =>
           Same(Normalize(Assign(x, given)), Normalize(x), k)
  <1> DEFINE y == Assign(x, given)
             n == Normalize(y)
             n0 == Normalize(x)
  <1>1. IsSettings(y)
    <2>1. DOMAIN given \subseteq Scalars
      BY ScalarsAre DEF Selecting
    <2>2. QED
      BY <2>1, SettingsAssigned
  <1>2. \A k : k \notin Selecting => Same(y, x, k)
    <2>1. /\ \A k : k \in DOMAIN y <=>
               IF k \in DOMAIN given THEN ~IsZero(k, given[k]) ELSE k \in DOMAIN x
          /\ \A k \in DOMAIN y : y[k] = IF k \in DOMAIN given THEN given[k] ELSE x[k]
      BY AssignIs
    <2> HIDE DEF y
    <2>2. QED
      BY <2>1 DEF Same
  <1> HIDE DEF y
  <1>3. \A k \in Listening : k \notin Selecting
    BY NamesAreApart DEF Listening, Selecting
  <1>4. \A k \in Listening : Same(n, n0, k)
    BY <1>2, <1>3, NormalizeListening
  <1>5. \A k \in Settled : Same(n, n0, k)
    <2>1. \A k \in Settled : Same(n, y, k) /\ Same(n0, x, k)
      BY <1>1, NormalizeKeeps
    <2>2. \A k \in Settled : Same(y, x, k)
      BY <1>2 DEF Settled, Selecting
    <2>3. QED
      BY <2>1, <2>2 DEF Same
  <1>6. \A k \in SectionNames : Same(n, n0, k)
    <2>1. \A k \in SectionNames : k \notin Selecting
      BY NamesAreApart
    <2>2. QED
      BY <1>2, <2>1, NormalizeSections
  <1>7. DOMAIN n \subseteq SettingsFields /\ DOMAIN n0 \subseteq SettingsFields
    BY <1>1, NormalizeNormal DEF IsNormal, IsSettings
  <1> HIDE DEF n, n0
  <1>8. \A k \in SettingsFields : k \notin Selecting \cup {"backend"} => Same(n, n0, k)
    BY <1>4, <1>5, <1>6, FieldKinds
  <1>9. \A k : k \notin Selecting \cup {"backend"} => Same(n, n0, k)
    BY <1>7, <1>8 DEF Same
  <1>10. QED
    BY <1>9 DEF n, n0, y

\* The list mode set makes.
LEMMA ModeChangedList ==
  ASSUME NEW x, IsSettings(x), NEW mode
  PROVE  LET y == ModeChanged(x, mode)
         IN /\ \A k : k \notin {"mode", "proxyMode", "access"} => Same(y, x, k)
            /\ "access" \in DOMAIN y /\ Entries(y) = y.access /\ y.access # <<>>
            /\ Entries(x) = <<>> =>
                 /\ DOMAIN y.access = {1}
                 /\ \A f \in ListenerFields \ {"mode"} :
                      /\ f \in DOMAIN x <=> AccessField[f] \in DOMAIN y.access[1]
                      /\ f \in DOMAIN x => y.access[1][AccessField[f]] = x[f]
                 /\ DOMAIN y.access[1] \subseteq DOMAIN LegacyField
            /\ Entries(x) # <<>> =>
                 /\ DOMAIN y.access = DOMAIN x.access
                 /\ \A i \in DOMAIN x.access : i # 1 => y.access[i] = x.access[i]
                 /\ \A k : k # "type" => Same(y.access[1], x.access[1], k)
  <1> DEFINE given == [mode |-> mode, proxyMode |-> mode]
             s == Assign(x, given)
             typed == [type |-> mode]
             entries == IF Entries(s) = <<>> THEN <<AsAccess(s)>>
                        ELSE [s.access EXCEPT ![1] = Assign(s.access[1], typed)]
             y == ModeChanged(x, mode)
  <1>1. \A k : k \notin {"mode", "proxyMode"} => Same(s, x, k)
    <2>1. /\ \A k : k \in DOMAIN s <=>
               IF k \in DOMAIN given THEN ~IsZero(k, given[k]) ELSE k \in DOMAIN x
          /\ \A k \in DOMAIN s : s[k] = IF k \in DOMAIN given THEN given[k] ELSE x[k]
      BY AssignIs
    <2>2. DOMAIN given = {"mode", "proxyMode"}
      OBVIOUS
    <2> HIDE DEF s, given
    <2>3. QED
      BY <2>1, <2>2 DEF Same
  <1>2. y = [access |-> entries] @@ s
    BY DEF ModeChanged
  <1> HIDE DEF s
  <1>3. Entries(s) = Entries(x) /\ (Entries(x) # <<>> => s.access = x.access)
    <2>1. Same(s, x, "access")
      BY <1>1
    <2>2. QED
      BY <2>1 DEF Same, Entries, Get
  <1>4. ASSUME Entries(x) = <<>>
        PROVE  /\ entries # <<>> /\ DOMAIN entries = {1}
               /\ \A f \in ListenerFields \ {"mode"} :
                      /\ f \in DOMAIN x <=> AccessField[f] \in DOMAIN entries[1]
                      /\ f \in DOMAIN x => entries[1][AccessField[f]] = x[f]
               /\ DOMAIN entries[1] \subseteq DOMAIN LegacyField
    <2>1. entries = <<AsAccess(s)>>
      BY <1>3, <1>4
    <2>2. entries # <<>> /\ DOMAIN entries = {1} /\ entries[1] = AsAccess(s)
      BY <2>1
    <2> HIDE DEF entries
    <2>3. \A f \in ListenerFields \ {"mode"} : Same(s, x, f)
      BY <1>1, NamesAreApart
    <2>4. QED
      BY <2>2, <2>3, AsAccessIs, FieldsAre DEF Same
  <1>5. ASSUME Entries(x) # <<>>
        PROVE  /\ entries # <<>> /\ DOMAIN entries = DOMAIN x.access
               /\ \A i \in DOMAIN x.access : i # 1 => entries[i] = x.access[i]
               /\ \A k : k # "type" => Same(entries[1], x.access[1], k)
    <2> DEFINE e == Assign(x.access[1], typed)
    <2>1. 1 \in DOMAIN x.access
      BY <1>5, BeneathIs
    <2>2. entries = [x.access EXCEPT ![1] = e]
      BY <1>3, <1>5
    <2>3. \A k : k # "type" => Same(e, x.access[1], k)
      <3>1. /\ \A k : k \in DOMAIN e <=>
               IF k \in DOMAIN typed THEN ~IsZero(k, typed[k]) ELSE k \in DOMAIN x.access[1]
            /\ \A k \in DOMAIN e : e[k] = IF k \in DOMAIN typed THEN typed[k] ELSE x.access[1][k]
        BY AssignIs
      <3>2. DOMAIN typed = {"type"}
        OBVIOUS
      <3> HIDE DEF e, typed
      <3>3. QED
        BY <3>1, <3>2 DEF Same
    <2> HIDE DEF e, entries
    <2>4. QED
      BY <2>1, <2>2, <2>3
  <1> HIDE DEF entries
  <1>6. "access" \in DOMAIN y /\ y.access = entries
    BY <1>2 DEF @@
  <1>7. \A k : k \notin {"mode", "proxyMode", "access"} => Same(y, x, k)
    <2> DEFINE w == [access |-> entries]
    <2>1. DOMAIN w = {"access"} /\ y = w @@ s
      BY <1>2
    <2> HIDE DEF w, y
    <2>2. QED
      BY <1>1, <2>1 DEF @@, Same
  <1> HIDE DEF y
  <1>8. entries # <<>>
    BY <1>4, <1>5
  <1>9. QED
    BY <1>4, <1>5, <1>6, <1>7, <1>8, EntriesOf DEF y

\* The same settings but for the mode, the list and a missing address.
LEMMA ModeChanges ==
  ASSUME NEW stored, IsFile(stored, Absent), NEW mode
  PROVE  LET n0 == Normalize(Mutable(stored))
             n == Normalize(ModeChanged(Mutable(stored), mode))
             address == IF n0.mode = "tun" THEN {"listenHost"} ELSE {}
         IN /\ \A k : k \notin {"mode", "proxyMode", "access"} \cup address => Same(n, n0, k)
            /\ IsSequence(n.access) /\ IsSequence(n0.access) /\ DOMAIN n.access = DOMAIN n0.access
            /\ \A i \in DOMAIN n.access : i # 1 => n.access[i] = n0.access[i]
            /\ \A k : k \notin {"type"} \cup address => Same(n.access[1], n0.access[1], k)
            /\ IsRecord(n.access[1]) /\ IsRecord(n0.access[1])
  <1> DEFINE x == Mutable(stored)
             y == ModeChanged(x, mode)
             n == Normalize(y)
             n0 == Normalize(x)
             address == IF n0.mode = "tun" THEN {"listenHost"} ELSE {}
  <1>1. IsSettings(x) /\ IsSettings(y)
    BY ReadBack, ModeChangedTyped
  <1>2. IsNormal(n) /\ IsNormal(n0)
    BY <1>1, NormalizeNormal
  <1>3. /\ \A k : k \notin {"mode", "proxyMode", "access"} => Same(y, x, k)
        /\ "access" \in DOMAIN y /\ Entries(y) = y.access /\ y.access # <<>>
        /\ Entries(x) = <<>> =>
             /\ DOMAIN y.access = {1}
             /\ \A f \in ListenerFields \ {"mode"} :
                  /\ f \in DOMAIN x <=> AccessField[f] \in DOMAIN y.access[1]
                  /\ f \in DOMAIN x => y.access[1][AccessField[f]] = x[f]
             /\ DOMAIN y.access[1] \subseteq DOMAIN LegacyField
        /\ Entries(x) # <<>> =>
             /\ DOMAIN y.access = DOMAIN x.access
             /\ \A i \in DOMAIN x.access : i # 1 => y.access[i] = x.access[i]
             /\ \A k : k # "type" => Same(y.access[1], x.access[1], k)
    BY <1>1, ModeChangedList
  <1> HIDE DEF y
  <1>4. /\ IsSequence(n.access) /\ 1 \in DOMAIN n.access /\ DOMAIN n.access = DOMAIN y.access
        /\ IsEntry(y.access[1]) /\ IsEntry(n.access[1])
        /\ \A i \in DOMAIN n.access : i # 1 => n.access[i] = NormalEntry(y.access[i])
        /\ \A k : k \notin {"type", "listenHost"} => Same(n.access[1], y.access[1], k)
        /\ "listenHost" \in DOMAIN y.access[1] => Same(n.access[1], y.access[1], "listenHost")
    BY <1>1, <1>3, ListedIs
  <1>5. /\ IsSequence(n0.access) /\ DOMAIN n.access = DOMAIN n0.access /\ IsEntry(n0.access[1])
        /\ \A i \in DOMAIN n.access : i # 1 => n.access[i] = n0.access[i]
        /\ \A k : k \notin {"type"} \cup address => Same(n.access[1], n0.access[1], k)
    <2>1. CASE Entries(x) = <<>>
      <3>1. x = DefaultSettings
        <4>1. CASE stored = Absent
          BY <4>1 DEF Mutable
        <4>2. CASE stored # Absent
          <5>1. IsNormal(x)
            BY <4>2, LaidIs DEF Mutable, IsFile
          <5>2. QED
            BY <2>1, <5>1, EntriesOf DEF IsNormal
        <4>3. QED
          BY <4>1, <4>2
      <3>2. "listenHost" \in DOMAIN x /\ "listenPort" \in DOMAIN x
        BY <3>1, DefaultSettingsAre
      <3> HIDE DEF x
      <3>3. /\ IsSequence(n0.access) /\ DOMAIN n0.access = {1} /\ IsEntry(n0.access[1])
            /\ \A f \in ListenerFields \ {"mode"} : f \in DOMAIN x =>
                 AccessField[f] \in DOMAIN n0.access[1] /\ n0.access[1][AccessField[f]] = x[f]
            /\ \A k \in DOMAIN n0.access[1] \ {"type"} :
                 \/ k \in DOMAIN LegacyField /\ LegacyField[k] \in DOMAIN x
                 \/ k = "listenHost"
                 \/ k = "listenPort"
        BY <1>1, <2>1, UnlistedIs
      <3> HIDE DEF n, n0
      <3>4. /\ \A f \in ListenerFields \ {"mode"} : Same(n0.access[1], y.access[1], AccessField[f])
        <4> SUFFICES ASSUME NEW f \in ListenerFields \ {"mode"}
                     PROVE  Same(n0.access[1], y.access[1], AccessField[f])
          OBVIOUS
        <4>1. CASE f \in DOMAIN x
          BY <1>3, <2>1, <3>3, <4>1 DEF Same
        <4>2. CASE f \notin DOMAIN x
          <5>1. AccessField[f] \notin {"type", "listenHost", "listenPort"} /\
                    LegacyField[AccessField[f]] = f
            BY <3>2, <4>2, FieldsAre DEF AccessField
          <5>2. AccessField[f] \notin DOMAIN n0.access[1]
            BY <3>3, <4>2, <5>1
          <5>3. QED
            BY <1>3, <2>1, <4>2, <5>2 DEF Same
        <4>3. QED
          BY <4>1, <4>2
      <3>5. "listenHost" \in DOMAIN y.access[1]
        BY <1>3, <2>1, <3>2, FieldsAre DEF AccessField
      <3>6. \A k \in DOMAIN LegacyField \ {"type"} : Same(n.access[1], n0.access[1], k)
        <4> SUFFICES ASSUME NEW k \in DOMAIN LegacyField \ {"type"}
                     PROVE  Same(n.access[1], n0.access[1], k)
          OBVIOUS
        <4>1. LegacyField[k] \in ListenerFields \ {"mode"} /\ AccessField[LegacyField[k]] = k
          BY FieldsAre DEF LegacyField
        <4>2. Same(n0.access[1], y.access[1], k)
          BY <3>4, <4>1
        <4>3. Same(n.access[1], y.access[1], k)
          BY <1>4, <3>5
        <4>4. QED
          BY <4>2, <4>3 DEF Same
      <3>7. \A k : k \notin DOMAIN LegacyField =>
                k \notin DOMAIN n.access[1] /\ k \notin DOMAIN n0.access[1]
        <4>1. {"type", "listenHost", "listenPort"} \subseteq DOMAIN LegacyField
          BY FieldsAre
        <4>2. \A k : k \notin DOMAIN LegacyField => k \notin DOMAIN n0.access[1]
          BY <3>3, <4>1
        <4>3. \A k : k \notin DOMAIN LegacyField => Same(n.access[1], y.access[1], k)
          BY <1>4, <4>1
        <4>4. \A k : k \notin DOMAIN LegacyField => k \notin DOMAIN n.access[1]
          BY <1>3, <2>1, <4>3 DEF Same
        <4>5. QED
          BY <4>2, <4>4
      <3>8. \A k : k # "type" => Same(n.access[1], n0.access[1], k)
        BY <3>6, <3>7 DEF Same
      <3>9. QED
        BY <1>3, <1>4, <2>1, <3>3, <3>8
    <2>2. CASE Entries(x) # <<>>
      <3>1. IsNormal(x) /\ n0 = x
        <4>1. stored # Absent
          BY <2>2, DefaultSettingsAre DEF Mutable, Entries, Get
        <4>2. QED
          BY <4>1, LaidIs, NormalFixed DEF Mutable, IsFile
      <3> HIDE DEF n, n0, x
      <3>2. /\ \A i \in DOMAIN x.access : NormalEntry(x.access[i]) = x.access[i]
            /\ IsSequence(x.access) /\ IsEntry(x.access[1]) /\ "type" \in DOMAIN x.access[1]
            /\ x.mode = x.access[1].type
        <4>1. "mode" \in DOMAIN x /\ x.mode = x.access[1].type
          BY <3>1, FieldsAre DEF IsNormal, AccessField
        <4>2. QED
          BY <3>1, <4>1, NormalPrimary DEF IsNormal
      <3>3. /\ DOMAIN n.access = DOMAIN x.access
            /\ \A i \in DOMAIN n.access : i # 1 => n.access[i] = x.access[i]
        BY <1>3, <1>4, <2>2, <3>2
      <3>4. x.mode # "tun" => "listenHost" \in DOMAIN x.access[1]
        BY <3>1, <3>2, NormalEntryIs, NormalPrimary DEF Get
      <3>5. \A k : k \notin {"type", "listenHost"} => Same(n.access[1], x.access[1], k)
        BY <1>3, <1>4, <2>2 DEF Same
      <3>6. x.mode # "tun" => Same(n.access[1], x.access[1], "listenHost")
        BY <1>3, <1>4, <2>2, <3>4 DEF Same
      <3>7. \A k : k \notin {"type"} \cup address => Same(n.access[1], x.access[1], k)
        BY <3>1, <3>5, <3>6
      <3>8. QED
        BY <3>1, <3>2, <3>3, <3>7
    <2>3. QED
      BY <2>1, <2>2
  <1>6. \A f \in ListenerFields : f \notin {"mode"} \cup address => Same(n, n0, f)
    <2> SUFFICES ASSUME NEW f \in ListenerFields, f \notin {"mode"} \cup address
                 PROVE  Same(n, n0, f)
      OBVIOUS
    <2>1. AccessField[f] \notin {"type"} \cup address
      BY FieldsAre DEF AccessField
    <2>2. Same(n.access[1], n0.access[1], AccessField[f])
      BY <1>5, <2>1
    <2>3. QED
      BY <1>2, <2>2 DEF IsNormal, Same
  <1>7. \A k \in Selecting \cup {"backend"} : Same(n, n0, k)
    <2>1. \A k \in Selecting \cup {"backend"} : Same(y, x, k)
      BY <1>3 DEF Selecting
    <2>2. QED
      BY <2>1, NormalizeSelection
  <1>8. \A k \in Settled : Same(n, n0, k)
    <2>1. \A k \in Settled : Same(n, y, k) /\ Same(n0, x, k)
      BY <1>1, NormalizeKeeps
    <2>2. \A k \in Settled : Same(y, x, k)
      BY <1>3 DEF Settled
    <2>3. QED
      BY <2>1, <2>2 DEF Same
  <1>9. \A k \in SectionNames : Same(n, n0, k)
    <2>1. \A k \in SectionNames : Same(y, x, k)
      BY <1>3 DEF SectionNames
    <2>2. QED
      BY <2>1, NormalizeSections
  <1>10. DOMAIN n \subseteq SettingsFields /\ DOMAIN n0 \subseteq SettingsFields
    BY <1>2 DEF IsNormal, IsSettings
  <1> HIDE DEF n, n0, address, x
  <1>11. \A k \in SettingsFields : k \notin {"mode", "proxyMode", "access"} \cup address =>
             Same(n, n0, k)
    BY <1>6, <1>7, <1>8, <1>9, FieldKinds DEF Listening
  <1>12. \A k : k \notin {"mode", "proxyMode", "access"} \cup address => Same(n, n0, k)
    BY <1>10, <1>11 DEF Same
  <1>13. IsRecord(n.access[1]) /\ IsRecord(n0.access[1])
    BY <1>4, <1>5 DEF IsEntry
  <1>14. QED
    BY <1>4, <1>5, <1>12, <1>13 DEF n, n0, address, x, y

\* transport set and mode set change their own part of what later commands
\* resolve (cmd/transport.go, cmd/mode.go).
THEOREM SetCommandsChangeTheirPart == Spec => []SetChangesOnlyItsPart
  <1>1. CommandInv => SetChangesOnlyItsPart
    <2> SUFFICES ASSUME CommandInv, Finished({"transport set", "mode set"})
                 PROVE  SetChangesOnlyItsPart
      BY DEF SetChangesOnlyItsPart
    <2> DEFINE stored == command.stored
               sett == command.sett
               before == Layered(stored, NotGiven, None, None)
               after == Layered(file, NotGiven, None, None)
               n0 == Normalize(Mutable(stored))
               address == IF before.mode = "tun" THEN {"listenHost"} ELSE {}
               selection == {"runtimeFamily", "transport", "backend"}
               listening == {"mode", "proxyMode", "access"} \cup address
    <2>1. command.name \in {"transport set", "mode set"}
      BY DEF Finished
    <2>2. SetCommand(command)
      BY <2>1, FinishedIs
    <2>3. IsFile(stored, Absent) /\ IsNormal(sett) /\ Validate(sett) /\ file = Marshal(sett)
      BY <2>2 DEF SetCommand
    <2>4. /\ IsNormal(before) /\ IsNormal(n0) /\ IsSettings(Mutable(stored))
          /\ \A k : k \notin SectionNames => Same(before, n0, k)
          /\ \A k \in SectionNames :
               /\ k \in DOMAIN before <=> k \in DOMAIN n0 /\ ~SaysNothing(n0, k)
               /\ k \in DOMAIN before => before[k] = n0[k]
      BY <2>3, ReadBack
    <2>5. after = Trimmed(sett)
      BY <2>3, FoundAgain, SettingsAssumption
    <2>6. /\ \A k : k \notin SectionNames => Same(after, sett, k)
          /\ \A k \in SectionNames :
              /\ k \in DOMAIN after <=> k \in DOMAIN sett /\ DOMAIN sett[k] # {}
              /\ k \in DOMAIN after => after[k] = sett[k]
      BY <2>5, TrimmedIs
    <2>7. before.mode = n0.mode /\ before.access = n0.access /\ after.access = sett.access
      <3>1. Same(before, n0, "mode") /\ Same(before, n0, "access") /\ Same(after, sett, "access")
        BY <2>4, <2>6 DEF SectionNames
      <3>2. "mode" \in DOMAIN n0 /\ "access" \in DOMAIN n0
        BY <2>4, FieldsAre DEF IsNormal, AccessField
      <3>3. "access" \in DOMAIN sett
        BY <2>3 DEF IsNormal
      <3>4. QED
        BY <3>1, <3>2, <3>3 DEF Same
    <2> HIDE DEF before, after, n0, stored, sett
    <2>8. ASSUME NEW part, part \cap SectionNames = {}, \A k : k \notin part => Same(sett, n0, k)
          PROVE  Trimmed(Without(after, part)) = Trimmed(Without(before, part))
      <3>1. \A k : k \notin part \cup SectionNames => Same(after, before, k)
        BY <2>4, <2>6, <2>8 DEF Same
      <3>2. \A k \in SectionNames : Same(sett, n0, k)
        BY <2>8
      <3>3. \A k \in SectionNames :
           /\ (k \in DOMAIN after /\ DOMAIN after[k] # {}) <=>
                  (k \in DOMAIN before /\ DOMAIN before[k] # {})
           /\ k \in DOMAIN after /\ DOMAIN after[k] # {} => after[k] = before[k]
        BY <2>4, <2>6, <3>2 DEF Same, SaysNothing
      <3>4. QED
        BY <2>8, <3>1, <3>3, TrimmedSame
    <2>9. CASE command.name = "transport set"
      <3>1. PICK transport \in Transports, given \in FamilyGiven :
              sett = Normalize(Assign(Mutable(stored), [transport |-> transport] @@ given))
        BY <2>2, <2>9 DEF SetCommand, stored, sett
      <3> DEFINE all == [transport |-> transport] @@ given
      <3>2. DOMAIN all \subseteq Selecting
        <4>1. DOMAIN given \subseteq {"runtimeFamily"}
          BY NoneIs DEF FamilyGiven
        <4>2. QED
          BY <4>1 DEF @@, Selecting
      <3> HIDE DEF all
      <3>3. \A k : k \notin Selecting \cup {"backend"} => Same(sett, n0, k)
        <4>1. sett = Normalize(Assign(Mutable(stored), all))
          BY <3>1 DEF all
        <4>2. QED
          BY <2>4, <3>2, <4>1, TransportChanges DEF n0
      <3>4. selection = Selecting \cup {"backend"} /\ selection \cap SectionNames = {}
        BY DEF Selecting, SectionNames
      <3>5. Trimmed(Without(after, selection)) = Trimmed(Without(before, selection))
        BY <2>8, <3>3, <3>4
      <3>6. QED
        BY <2>9, <3>5 DEF SetChangesOnlyItsPart, before, after, stored
    <2>10. CASE command.name = "mode set"
      <3>1. PICK mode \in Modes : sett = Normalize(ModeChanged(Mutable(stored), mode))
        BY <2>2, <2>10 DEF SetCommand, stored, sett
      <3>2. /\ \A k : k \notin listening => Same(sett, n0, k)
            /\ IsSequence(sett.access) /\ IsSequence(n0.access)
            /\ DOMAIN sett.access = DOMAIN n0.access /\ 1 \in DOMAIN sett.access
            /\ \A i \in DOMAIN sett.access : i # 1 => sett.access[i] = n0.access[i]
            /\ \A k : k \notin {"type"} \cup address => Same(sett.access[1], n0.access[1], k)
            /\ IsRecord(sett.access[1]) /\ IsRecord(n0.access[1])
        BY <2>3, <2>7, <3>1, ModeChanges, NormalPrimary DEF n0
      <3>3. listening \cap SectionNames = {}
        BY DEF SectionNames
      <3> HIDE DEF address
      <3>4. Trimmed(Without(after, listening)) = Trimmed(Without(before, listening))
        BY <2>8, <3>2, <3>3
      <3>5. Tail(after.access) = Tail(before.access)
        BY <2>7, <3>2, TailsEqual
      <3> DEFINE e == sett.access[1]
                 e0 == n0.access[1]
                 gone == {"type"} \cup address
      <3>6. Without(e, gone) = Without(e0, gone)
        <4>1. \A k : k \notin gone => Same(e, e0, k)
          BY <3>2
        <4> HIDE DEF e, e0, gone
        <4>2. \A k : Same(Without(e, gone), Without(e0, gone), k)
          BY <4>1 DEF Without, Restrict, Same
        <4>3. QED
          BY <4>2, WithoutIs, SameIsEqual
      <3>7. command.name # "transport set"
        BY <2>10
      <3>8. QED
        BY <2>7, <3>4, <3>5, <3>6, <3>7 DEF SetChangesOnlyItsPart, before, after, stored, address
    <2>11. QED
      BY <2>1, <2>9, <2>10
  <1>2. QED
    BY <1>1, CommandInvHolds, PTL

-----------------------------------------------------------------------------
(* What variables and flags leave alone                                      *)

\* The files beneath variables and flags, and the file in force.
LEMMA FilesAre ==
  ASSUME NEW c, Resolution(c)
  PROVE  LET o == Overlaid(c.stored, c.standalone)
             f == InForce(c)
         IN /\ IsSettings(o) /\ IsNormal(f) /\ IsNormal(Stored(c))
            /\ Stored(c) = Normalize(Mutable(c.stored))
            /\ c.stored # Absent => IsSettings(c.stored) /\ Stored(c) = LoadSettingsFile(c.stored)
            /\ c.standalone # NotGiven =>
                   IsSettings(c.standalone) /\ f = LoadSettingsFile(c.standalone)
            /\ c.standalone = NotGiven => f = Stored(c)
            /\ c.standalone # NotGiven \/ c.stored # Absent =>
                 \A k \in DOMAIN f : k \in DOMAIN o /\ o[k] = f[k]
            /\ c.standalone = NotGiven /\ c.stored = Absent =>
                 o = DefaultSettings /\ f = Normalize(DefaultSettings)
  <1> DEFINE o == Overlaid(c.stored, c.standalone)
             f == InForce(c)
             st == Stored(c)
  <1>1. /\ IsFile(c.stored, Absent) /\ IsFile(c.standalone, NotGiven)
        /\ IsEnvironment(c.env) /\ IsFlags(c.flags)
    BY DEF Resolution
  <1>2. IsSettings(o)
    BY <1>1, LayeredIs
  <1>3. c.stored # Absent => IsSettings(c.stored) /\ st = LoadSettingsFile(c.stored) /\ IsNormal(st)
    BY <1>1, LaidIs DEF IsFile, Stored
  <1>4. c.standalone # NotGiven =>
            IsSettings(c.standalone) /\ f = LoadSettingsFile(c.standalone) /\ IsNormal(f)
    BY <1>1, LaidIs DEF IsFile, InForce
  <1>5. c.standalone = NotGiven => f = st
    BY DEF InForce
  <1>6. c.stored = Absent => st = Normalize(DefaultSettings) /\ IsNormal(st)
    BY DefaultSettingsAre, NormalizeNormal DEF Stored
  <1>7. st = Normalize(Mutable(c.stored))
    <2>1. CASE c.stored = Absent
      BY <1>6, <2>1 DEF Mutable
    <2>2. CASE c.stored # Absent
      BY <1>3, <2>2, NormalFixed DEF Mutable
    <2>3. QED
      BY <2>1, <2>2
  <1>8. c.standalone # NotGiven => o = f @@ Persisted(c.stored)
    BY <1>4 DEF Overlaid
  <1>9. c.standalone = NotGiven /\ c.stored # Absent => o = f @@ DefaultSettings
    BY <1>3, <1>5 DEF Overlaid, Persisted
  <1>10. c.standalone = NotGiven /\ c.stored = Absent => o = DefaultSettings
    BY DEF Overlaid, Persisted
  <1> HIDE DEF o, f, st
  <1>11. c.standalone # NotGiven \/ c.stored # Absent =>
                 \A k \in DOMAIN f : k \in DOMAIN o /\ o[k] = f[k]
    BY <1>8, <1>9 DEF @@
  <1>12. IsNormal(f) /\ IsNormal(st)
    BY <1>3, <1>4, <1>5, <1>6
  <1>13. QED
    BY <1>2, <1>3, <1>4, <1>5, <1>6, <1>7, <1>10, <1>11, <1>12 DEF o, f, st

\* The layers of a resolution.
LEMMA LayersAre ==
  ASSUME NEW c, Resolution(c)
  PROVE  LET o == Overlaid(c.stored, c.standalone)
             e == ApplyEnv(o, c.env)
             g == ApplyOverrides(e, c.flags)
         IN /\ IsSettings(o) /\ IsSettings(e) /\ IsSettings(g)
            /\ IsEnvironment(c.env) /\ IsFlags(c.flags)
            /\ c.sett = Normalize(g) /\ IsNormal(c.sett) /\ Validate(c.sett)
  BY LayeredIs DEF Resolution

\* A resolution keeps the list but for what is about the primary listener.
LEMMA RestResolved ==
  ASSUME NEW c, Resolution(c)
  PROVE  /\ Tail(c.sett.access) = Tail(InForce(c).access)
         /\ \A k \in {"name", "mtu"} : Same(c.sett.access[1], InForce(c).access[1], k)
  <1> DEFINE o == Overlaid(c.stored, c.standalone)
             e == ApplyEnv(o, c.env)
             g == ApplyOverrides(e, c.flags)
             v == Varied(o, c.env)
             w == Flagged(e, c.flags)
             q == InForce(c).access
  <1>1. /\ IsSettings(o) /\ IsSettings(e) /\ IsSettings(g)
        /\ IsEnvironment(c.env) /\ IsFlags(c.flags)
        /\ c.sett = Normalize(g)
    BY LayersAre
  <1>2. IsNormal(InForce(c)) /\ IsSequence(q) /\ 1 \in DOMAIN q /\ q # <<>>
    BY FilesAre, NormalPrimary DEF IsNormal
  <1>3. Rest(o, q)
    <2>1. CASE c.standalone # NotGiven \/ c.stored # Absent
      <3>1. "access" \in DOMAIN o /\ o.access = q
        BY <2>1, FilesAre DEF IsNormal
      <3> HIDE DEF o, q
      <3>2. Entries(o) = q
        BY <3>1, EntriesOf
      <3>3. Beneath(o) = q[1]
        BY <1>2, <3>2 DEF Beneath
      <3>4. QED
        BY <1>2, <3>2, <3>3 DEF Rest, Same
    <2>2. CASE c.standalone = NotGiven /\ c.stored = Absent
      <3>1. o = DefaultSettings /\ q = Normalize(DefaultSettings).access
        BY <2>2, FilesAre
      <3>2. Entries(DefaultSettings) = <<>>
        BY DefaultSettingsAre DEF Entries, Get
      <3>3. /\ DOMAIN q = {1}
            /\ \A k \in DOMAIN q[1] \ {"type"} :
                 \/ k \in DOMAIN LegacyField
                 \/ k = "listenHost"
                 \/ k = "listenPort"
        BY <3>1, <3>2, DefaultSettingsAre, UnlistedIs
      <3> HIDE DEF q
      <3>4. \A k \in {"name", "mtu"} : k \notin DOMAIN q[1]
        BY <3>3, FieldsAre
      <3>5. Beneath(o) = None /\ Entries(o) = <<>>
        BY <3>1, <3>2 DEF Beneath
      <3>6. QED
        BY <3>3, <3>4, <3>5, NoneIs DEF Rest, Same
    <2>3. QED
      BY <2>1, <2>2
  <1>4. /\ IsSettings(v) /\ Same(v, o, "access")
        /\ e = IF Touches(c.env) THEN SyncPrimaryAccess(v) ELSE v
    BY <1>1, VariedIs
  <1> HIDE DEF e, q, o, v
  <1>5. Rest(v, q)
    BY <1>3, <1>4, RestKept
  <1>6. Rest(e, q)
    BY <1>4, <1>5, RestSynced
  <1>7. /\ IsSettings(w) /\ Same(w, e, "access")
        /\ g = IF Touches(c.flags) THEN SyncPrimaryAccess(w) ELSE w
    BY <1>1, FlaggedIs
  <1> HIDE DEF g, w
  <1>8. Rest(w, q)
    BY <1>6, <1>7, RestKept
  <1>9. Rest(g, q)
    BY <1>7, <1>8, RestSynced
  <1>10. \A i \in DOMAIN q : NormalEntry(q[i]) = q[i]
    BY <1>2 DEF IsNormal, q
  <1> DEFINE r == c.sett.access
  <1>11. /\ IsSequence(r) /\ 1 \in DOMAIN r /\ DOMAIN r = DOMAIN q
         /\ \A i \in DOMAIN r : i # 1 => r[i] = q[i]
         /\ \A k \in {"name", "mtu"} : Same(r[1], q[1], k)
    BY <1>1, <1>9, <1>10, RestNormal
  <1> HIDE DEF r
  <1>12. Tail(r) = Tail(q)
    BY <1>2, <1>11, TailsEqual
  <1>13. QED
    BY <1>11, <1>12 DEF r, q

\* The document a section comes from.
SectionIn(c, k) ==
  IF c.standalone # NotGiven /\ k \in DOMAIN c.standalone THEN c.standalone[k] ELSE c.stored[k]
Filed(c, k) ==
  \/ c.standalone # NotGiven /\ k \in DOMAIN c.standalone
  \/ c.stored # Absent /\ k \in DOMAIN c.stored

\* The section beneath the variables is that of the last file that has it.
LEMMA SectionsBeneath ==
  ASSUME NEW c, Resolution(c), NEW k \in SectionNames
  PROVE  /\ k \in DOMAIN Overlaid(c.stored, c.standalone) <=> Filed(c, k)
         /\ Filed(c, k) => Overlaid(c.stored, c.standalone)[k] = NormalSection(k, SectionIn(c, k))
  <1>0. ASSUME NEW doc, IsSettings(doc)
        PROVE  /\ k \in DOMAIN LoadSettingsFile(doc) <=> k \in DOMAIN doc
               /\ k \in DOMAIN doc => LoadSettingsFile(doc)[k] = NormalSection(k, doc[k])
    <2>1. /\ IsSettings(Laid(doc)) /\ LoadSettingsFile(doc) = Normalize(Laid(doc))
          /\ Same(Laid(doc), doc, k)
      BY <1>0, LaidIs, KindsApart
    <2>2. QED
      BY <2>1, NormalizeIs DEF Same
  <1> DEFINE p == Persisted(c.stored)
  <1>1. k \notin DOMAIN DefaultSettings
    BY KindsApart
  <1>2. IsFile(c.stored, Absent) /\ IsFile(c.standalone, NotGiven)
    BY DEF Resolution
  <1>3. /\ k \in DOMAIN p <=> c.stored # Absent /\ k \in DOMAIN c.stored
        /\ k \in DOMAIN p => p[k] = NormalSection(k, c.stored[k])
    <2>1. CASE c.stored = Absent
      BY <1>1, <2>1 DEF Persisted
    <2>2. CASE c.stored # Absent
      <3> DEFINE l == LoadSettingsFile(c.stored)
      <3>1. /\ k \in DOMAIN l <=> k \in DOMAIN c.stored
            /\ k \in DOMAIN c.stored => l[k] = NormalSection(k, c.stored[k])
        BY <1>0, <1>2, <2>2 DEF IsFile
      <3>2. p = l @@ DefaultSettings
        BY <2>2 DEF Persisted
      <3> HIDE DEF l, p
      <3>3. QED
        BY <1>1, <2>2, <3>1, <3>2 DEF @@
    <2>3. QED
      BY <2>1, <2>2
  <1>4. CASE c.standalone = NotGiven
    BY <1>3, <1>4 DEF Overlaid, Filed, SectionIn
  <1>5. CASE c.standalone # NotGiven
    <2> DEFINE l == LoadSettingsFile(c.standalone)
               o == Overlaid(c.stored, c.standalone)
    <2>1. /\ k \in DOMAIN l <=> k \in DOMAIN c.standalone
          /\ k \in DOMAIN c.standalone => l[k] = NormalSection(k, c.standalone[k])
      BY <1>0, <1>2, <1>5 DEF IsFile
    <2>2. o = l @@ p
      BY <1>5 DEF Overlaid
    <2> HIDE DEF l, p, o
    <2>3. QED
      BY <1>3, <1>5, <2>1, <2>2 DEF @@, Filed, SectionIn, o
  <1>6. QED
    BY <1>4, <1>5

\* A resolved section is that one, under its own variables.
LEMMA SectionsResolved ==
  ASSUME NEW c, Resolution(c), NEW k \in SectionNames
  PROVE  /\ k \in DOMAIN c.sett => Filed(c, k) \/ k \in DOMAIN c.env
         /\ Filed(c, k) => \A f \in DOMAIN SectionIn(c, k) \ DOMAIN Get(c.env, k, None) :
              f # "checks" => c.sett[k][f] = SectionIn(c, k)[f]
  <1> DEFINE o == Overlaid(c.stored, c.standalone)
             e == ApplyEnv(o, c.env)
             g == ApplyOverrides(e, c.flags)
             opts == Opts(o, c.env, k)
  <1>1. /\ IsSettings(o) /\ IsSettings(e) /\ IsSettings(g)
        /\ IsEnvironment(c.env) /\ IsFlags(c.flags)
        /\ c.sett = Normalize(g)
    BY LayersAre
  <1>2. /\ k \in DOMAIN e <=> k \in DOMAIN o \cup DOMAIN c.env /\ ~Drops(o, c.env, k)
        /\ k \in DOMAIN e => e[k] = opts
    BY <1>1, VariedIs
  <1>3. Same(g, e, k)
    BY <1>1, FlaggedIs
  <1>4. /\ k \in DOMAIN c.sett <=> k \in DOMAIN g
        /\ k \in DOMAIN c.sett => c.sett[k] = NormalSection(k, g[k])
    BY <1>1, NormalizeIs
  <1>5. /\ k \in DOMAIN o <=> Filed(c, k)
        /\ Filed(c, k) => o[k] = NormalSection(k, SectionIn(c, k))
    BY SectionsBeneath
  <1>6. \A f : f \notin DOMAIN Get(c.env, k, None) => Same(opts, Get(o, k, None), f)
    BY OptsAre
  <1>7. Drops(o, c.env, k) => DOMAIN opts = {}
    BY DEF Drops
  <1> HIDE DEF o, e, g, opts
  <1>8. k \in DOMAIN c.sett => Filed(c, k) \/ k \in DOMAIN c.env
    BY <1>2, <1>3, <1>4, <1>5 DEF Same
  <1>9. ASSUME Filed(c, k), NEW f \in DOMAIN SectionIn(c, k) \ DOMAIN Get(c.env, k, None),
                   f # "checks"
        PROVE  c.sett[k][f] = SectionIn(c, k)[f]
    <2>1. f \in DOMAIN o[k] /\ o[k][f] = SectionIn(c, k)[f] /\ k \in DOMAIN o
      BY <1>5, <1>9, NormalSectionKeeps
    <2>2. f \in DOMAIN opts /\ opts[f] = SectionIn(c, k)[f]
      BY <1>6, <1>9, <2>1 DEF Same, Get
    <2>3. k \in DOMAIN e /\ e[k] = opts
      BY <1>2, <1>7, <2>1, <2>2
    <2>4. k \in DOMAIN g /\ g[k] = opts
      BY <1>3, <2>3 DEF Same
    <2>5. c.sett[k] = NormalSection(k, opts)
      BY <1>4, <2>4
    <2>6. QED
      BY <1>9, <2>2, <2>5, NormalSectionKeeps
  <1>10. QED
    BY <1>8, <1>9

\* Variables and flags about the listener leave the other listeners, and every
\* section but their own, as the files have them (applyEnv, ApplyOverrides).
THEOREM OtherSettingsUntouched == Spec => []OthersUntouched
  <1>1. CommandInv => OthersUntouched
    <2> SUFFICES ASSUME CommandInv, Finished({"resolve"})
                 PROVE  OthersUntouched
      BY DEF OthersUntouched
    <2> DEFINE c == command
               files == IF c.standalone = NotGiven THEN {c.stored} ELSE {c.standalone, c.stored}
               filed(k) == \E f \in files : Readable(f) /\ k \in DOMAIN f
    <2>1. Resolution(c)
      BY FinishedIs DEF Finished
    <2>2. /\ Tail(c.sett.access) = Tail(InForce(c).access)
          /\ \A k \in {"name", "mtu"} : Same(c.sett.access[1], InForce(c).access[1], k)
      BY <2>1, RestResolved
    <2>3. \A k \in {"name", "mtu"} :
            Get(c.sett.access[1], k, Unset) = Get(InForce(c).access[1], k, Unset)
      BY <2>2 DEF Get, Same
    <2>4. \A k \in SectionNames : filed(k) <=> Filed(c, k)
      <3>1. Readable(c.standalone) /\ (Readable(c.stored) <=> c.stored # Absent)
        BY <2>1 DEF Resolution, Readable
      <3> HIDE DEF c
      <3>2. QED
        BY <3>1 DEF Filed
    <2>5. \A k \in SectionNames :
            /\ k \in DOMAIN c.sett => Filed(c, k) \/ k \in DOMAIN c.env
            /\ Filed(c, k) => \A f \in DOMAIN SectionIn(c, k) \ DOMAIN Get(c.env, k, None) :
                 f # "checks" => c.sett[k][f] = SectionIn(c, k)[f]
      BY <2>1, SectionsResolved
    <2>6. \A k \in DOMAIN c.sett \cap SectionNames : filed(k) \/ k \in DOMAIN c.env
      BY <2>4, <2>5
    <2>7. \A k \in SectionNames : filed(k) =>
            \A f \in DOMAIN SectionIn(c, k) \ DOMAIN Get(c.env, k, None) :
                 f # "checks" => c.sett[k][f] = SectionIn(c, k)[f]
      BY <2>4, <2>5
    <2>8. QED
      BY <2>2, <2>3, <2>6, <2>7 DEF OthersUntouched, SectionIn
  <1>2. QED
    BY <1>1, CommandInvHolds, PTL

-----------------------------------------------------------------------------
(* Precedence                                                                *)

\* Variables and flags are layers.
LEMMA StagesAre ==
  ASSUME NEW c, Resolution(c)
  PROVE  LET o == Overlaid(c.stored, c.standalone)
             e == ApplyEnv(o, c.env)
             g == ApplyOverrides(e, c.flags)
             v == Varied(o, c.env)
             w == Flagged(e, c.flags)
         IN /\ Stage(o, Scalar(c.env), v, e) /\ Stage(e, WithMode(c.flags), w, g)
            /\ Touches(c.env) => e = SyncPrimaryAccess(v)
            /\ Touches(c.flags) => g = SyncPrimaryAccess(w)
            /\ ~Touches(c.env) => e = v
            /\ ~Touches(c.flags) => g = w
            /\ \A k : k \notin SectionNames \cup {"access"} => Same(e, Assign(o, Scalar(c.env)), k)
            /\ \A k : k \notin SectionNames \cup {"access"} =>
                   Same(g, Assign(e, WithMode(c.flags)), k)
  <1> DEFINE o == Overlaid(c.stored, c.standalone)
             e == ApplyEnv(o, c.env)
             g == ApplyOverrides(e, c.flags)
             v == Varied(o, c.env)
             w == Flagged(e, c.flags)
  <1>1. /\ IsSettings(o) /\ IsSettings(e) /\ IsSettings(g)
        /\ IsEnvironment(c.env) /\ IsFlags(c.flags)
    BY LayersAre
  <1>2. \A f \in ListenerFields : f \notin SectionNames /\ f # "access"
    BY FieldsAre DEF SectionNames
  <1>3. /\ IsSettings(v) /\ Same(v, o, "access")
        /\ \A k : k \notin SectionNames => Same(v, Assign(o, Scalar(c.env)), k)
        /\ e = IF Touches(c.env) THEN SyncPrimaryAccess(v) ELSE v
    BY <1>1, VariedIs
  <1>4. /\ IsSettings(w) /\ Same(w, e, "access") /\ w = Assign(e, WithMode(c.flags))
        /\ g = IF Touches(c.flags) THEN SyncPrimaryAccess(w) ELSE w
    BY <1>1, FlaggedIs DEF Flagged
  <1>5. ~Touches(c.env) => ListenerFields \cap DOMAIN Scalar(c.env) = {}
    <2>1. ~Touches(c.env) => \A f \in ListenerFields : f \notin DOMAIN WithMode(c.env)
      BY <1>1, Untouched DEF IsEnvironment
    <2>2. \A f \in ListenerFields : Same(Scalar(c.env), WithMode(c.env), f)
      BY <1>1, <1>2, ScalarIs
    <2>3. QED
      BY <2>1, <2>2 DEF Same
  <1>6. ~Touches(c.flags) => ListenerFields \cap DOMAIN WithMode(c.flags) = {}
    BY <1>1, Untouched DEF IsFlags
  <1> HIDE DEF o, e, g, v, w
  <1>7. Stage(o, Scalar(c.env), v, e)
    BY <1>1, <1>2, <1>3, <1>5 DEF Stage
  <1>8. \A f \in ListenerFields : Same(w, Assign(e, WithMode(c.flags)), f)
    BY <1>4 DEF Same
  <1>9. Stage(e, WithMode(c.flags), w, g)
    BY <1>1, <1>4, <1>6, <1>8 DEF Stage
  <1>10. \A k : k # "access" => Same(e, v, k)
    BY <1>3, SyncPrimaryAccessIs DEF Same
  <1>11. \A k : k # "access" => Same(g, w, k)
    BY <1>4, SyncPrimaryAccessIs DEF Same
  <1>12. \A k : k \notin SectionNames \cup {"access"} => Same(e, Assign(o, Scalar(c.env)), k)
    BY <1>3, <1>10 DEF Same
  <1>13. \A k : k \notin SectionNames \cup {"access"} => Same(g, Assign(e, WithMode(c.flags)), k)
    BY <1>4, <1>11
  <1>14. QED
    BY <1>3, <1>4, <1>7, <1>9, <1>12, <1>13 DEF o, e, g, v, w

\* What the files beneath variables and flags say, against the file in force.
LEMMA FilesSay ==
  ASSUME NEW c, Resolution(c)
  PROVE  LET o == Overlaid(c.stored, c.standalone)
             n == InForce(c)
             st == Stored(c)
             d == DefaultSettings
         IN /\ \A k \in Selecting \cup {"logLevel"} :
                 k \in DOMAIN n /\ k \in DOMAIN o /\ o[k] = n[k]
            /\ "endpointOverride" \in DOMAIN n =>
                 "endpointOverride" \in DOMAIN o /\ o.endpointOverride = n.endpointOverride
            /\ "endpointOverride" \notin DOMAIN n => Same(o, st, "endpointOverride")
            /\ \A f \in Addressing \cap DOMAIN n : Among(o, f, {n[f]})
            /\ \A f \in Addressing \ DOMAIN n : Among(o, f, {Get(st, f, d[f]), d[f]})
            /\ \A f \in Secrets \cap DOMAIN n : Has(o, f, n[f])
            /\ c.standalone = NotGiven => \A f \in Secrets \ DOMAIN n : Lacks(o, f)
            /\ \/ Entries(o) # <<>> /\ "type" \in DOMAIN Beneath(o) /\ Same(o, n, "access")
               \/ o = d /\ n = Normalize(d)
            /\ IsNormal(n) /\ IsNormal(st)
  <1> DEFINE o == Overlaid(c.stored, c.standalone)
             n == InForce(c)
             st == Stored(c)
             d == DefaultSettings
             p == Persisted(c.stored)
  <1>1. /\ IsSettings(o) /\ IsNormal(n) /\ IsNormal(st)
        /\ c.stored # Absent => IsSettings(c.stored) /\ st = LoadSettingsFile(c.stored)
        /\ c.standalone # NotGiven => IsSettings(c.standalone) /\ n = LoadSettingsFile(c.standalone)
        /\ c.standalone = NotGiven => n = st
        /\ c.standalone # NotGiven \/ c.stored # Absent =>
                 \A k \in DOMAIN n : k \in DOMAIN o /\ o[k] = n[k]
        /\ c.standalone = NotGiven /\ c.stored = Absent => o = d /\ n = Normalize(d)
    BY FilesAre
  <1>2. c.stored = Absent => st = Normalize(d)
    BY DEF Stored
  <1>3. /\ c.stored = Absent => p = d
        /\ c.stored # Absent => p = st @@ d
    BY <1>1 DEF Persisted
  <1>4. /\ c.standalone = NotGiven => o = p
        /\ c.standalone # NotGiven => o = n @@ p
    BY <1>1 DEF Overlaid
  <1>5. /\ DOMAIN d = {"runtimeFamily", "transport", "mode", "listenHost",
                               "listenPort", "logLevel", "backend", "proxyMode"}
        /\ IsSettings(d)
    BY DefaultSettingsAre
  <1>6. /\ \A f \in Addressing : f \in DOMAIN Normalize(d) /\ Normalize(d)[f] = Preset[f] /\
               d[f] = Preset[f]
        /\ \A f \in Addressing : f \in DOMAIN d
        /\ \A f \in Secrets : f \notin DOMAIN Normalize(d) /\ f \notin DOMAIN d
        /\ Entries(d) = <<>> /\ Beneath(d) = None
    BY DefaultListener
  <1>7. /\ 1 \in DOMAIN n.access /\ n.access # <<>> /\ "access" \in DOMAIN n /\
               "type" \in DOMAIN n.access[1]
    BY <1>1, NormalPrimary DEF IsNormal
  <1>8. \A f \in ListenerFields :
          /\ f \in DOMAIN n <=> AccessField[f] \in DOMAIN n.access[1]
          /\ f \in DOMAIN n => n[f] = n.access[1][AccessField[f]]
    BY <1>1, Mirrored
  <1>9. "endpointOverride" \notin DOMAIN d /\ Selecting \cup {"logLevel"} \subseteq DOMAIN d
    BY <1>5 DEF Selecting
  <1>10. \A f \in ListenerFields : f \in Addressing \/ f \in Secrets
    BY ListenerFieldsAre
  <1> DEFINE Files == c.standalone # NotGiven \/ c.stored # Absent
  <1>11. ~Files => Same(Normalize(d), d, "endpointOverride")
    BY <1>5, NormalizeKeeps DEF Settled
  <1>12. c.stored = Absent => Same(st, d, "endpointOverride")
    BY <1>2, <1>5, NormalizeKeeps DEF Settled
  <1>13. \A k \in Selecting \cup {"logLevel"} : k \in DOMAIN n /\ k \in DOMAIN o /\ o[k] = n[k]
    <2>1. CASE Files
      <3>1. {"runtimeFamily", "transport", "logLevel"} \subseteq DOMAIN n
        BY <1>1, <2>1, LoadedStates
      <3>2. QED
        BY <1>1, <2>1, <3>1 DEF Selecting
    <2>2. CASE ~Files
      <3>1. \A k \in Selecting \cup Settled : k \in DOMAIN d =>
              k \in DOMAIN Normalize(d) /\ Normalize(d)[k] = d[k]
        BY <1>5, NormalizeKeeps
      <3>2. QED
        BY <1>1, <1>9, <2>2, <3>1 DEF Settled
    <2>3. QED
      BY <2>1, <2>2
  <1> HIDE DEF o, n, st, d, p
  <1>14. "endpointOverride" \in DOMAIN n =>
             "endpointOverride" \in DOMAIN o /\ o.endpointOverride = n.endpointOverride
    BY <1>1, <1>9, <1>11 DEF Same, d
  <1>15. "endpointOverride" \notin DOMAIN n => Same(o, st, "endpointOverride")
    <2>1. Same(p, st, "endpointOverride")
      BY <1>3, <1>9, <1>12 DEF Same, @@
    <2>2. "endpointOverride" \notin DOMAIN n => Same(o, p, "endpointOverride")
      BY <1>4 DEF Same, @@
    <2>3. QED
      BY <2>1, <2>2 DEF Same
  <1>16. Files => /\ Same(o, n, "access") /\ Entries(o) = n.access
                  /\ Entries(o) # <<>> /\ Beneath(o) = n.access[1]
    <2>1. Files => "access" \in DOMAIN o /\ o.access = n.access
      BY <1>1, <1>7
    <2>2. Files => Entries(o) = n.access
      BY <2>1, EntriesOf
    <2>3. QED
      BY <1>7, <2>1, <2>2 DEF Beneath, Same
  <1>17. \A f \in Addressing \cap DOMAIN n : Among(o, f, {n[f]})
    <2>1. CASE Files
      BY <1>1, <1>8, <1>16, <2>1, ListenerFieldsAre DEF Among
    <2>2. CASE ~Files
      <3>1. \A f \in Addressing : n[f] = Preset[f] /\ d[f] = Preset[f] /\ o = d
        BY <1>1, <1>6, <2>2 DEF d
      <3>2. Beneath(o) = None
        BY <1>1, <1>6, <2>2 DEF d
      <3>3. QED
        BY <3>1, <3>2, NoneIs DEF Among
    <2>3. QED
      BY <2>1, <2>2
  <1>18. \A f \in Addressing \ DOMAIN n : Among(o, f, {Get(st, f, d[f]), d[f]})
    <2>1. CASE Files
      <3>1. ASSUME NEW f \in Addressing \ DOMAIN n
            PROVE  Among(o, f, {Get(st, f, d[f]), d[f]})
        <4>1. f \in DOMAIN p /\ p[f] \in {Get(st, f, d[f]), d[f]}
          BY <1>3, <1>6, <3>1 DEF Get, @@, d
        <4>2. f \in DOMAIN o => o[f] = p[f]
          BY <1>4, <3>1 DEF @@
        <4>3. AccessField[f] \notin DOMAIN Beneath(o)
          BY <1>8, <1>16, <2>1, <3>1, ListenerFieldsAre
        <4>4. Preset[f] = d[f]
          BY <1>6, <3>1 DEF d
        <4>5. QED
          BY <4>1, <4>2, <4>3, <4>4 DEF Among
      <3>2. QED
        BY <3>1
    <2>2. CASE ~Files
      BY <1>1, <1>6, <2>2 DEF d
    <2>3. QED
      BY <2>1, <2>2
  <1>19. \A f \in Secrets \cap DOMAIN n : Has(o, f, n[f])
    <2>1. CASE Files
      BY <1>1, <1>8, <1>16, <2>1, ListenerFieldsAre DEF Has
    <2>2. CASE ~Files
      BY <1>1, <1>6, <2>2 DEF d
    <2>3. QED
      BY <2>1, <2>2
  <1>20. c.standalone = NotGiven => \A f \in Secrets \ DOMAIN n : Lacks(o, f)
    <2>1. CASE Files /\ c.standalone = NotGiven
      <3>1. o = n @@ d
        BY <1>1, <1>3, <1>4, <2>1
      <3>2. \A f \in Secrets \ DOMAIN n : f \notin DOMAIN o
        BY <1>6, <3>1 DEF @@, d
      <3>3. \A f \in Secrets \ DOMAIN n : AccessField[f] \notin DOMAIN Beneath(o)
        BY <1>8, <1>16, <2>1, ListenerFieldsAre
      <3>4. QED
        BY <3>2, <3>3 DEF Lacks
    <2>2. CASE ~Files
      BY <1>1, <1>6, <2>2, NoneIs DEF d, Lacks
    <2>3. QED
      BY <2>1, <2>2
  <1>21. \/ Entries(o) # <<>> /\ "type" \in DOMAIN Beneath(o) /\ Same(o, n, "access")
         \/ o = d /\ n = Normalize(d)
    BY <1>1, <1>7, <1>16
  <1>22. QED
    BY <1>1, <1>13, <1>14, <1>15, <1>17, <1>18, <1>19, <1>20, <1>21 DEF o, n, st, d

\* The field is what the first of the three sources says, or fallback if none does.
Follows(s, f, flags, env, n) ==
  /\ States(flags, f) => f \in DOMAIN s /\ s[f] = flags[f]
  /\ ~States(flags, f) /\ States(env, f) => f \in DOMAIN s /\ s[f] = env[f]
  /\ ~States(flags, f) /\ ~States(env, f) /\ f \in DOMAIN n => f \in DOMAIN s /\ s[f] = n[f]

\* Mode, host and port, when a variable or a flag is about the listener.
LEMMA AddressFollows ==
  ASSUME NEW c, Resolution(c), Touches(c.env) \/ Touches(c.flags), NEW f \in Addressing
  PROVE  /\ Follows(c.sett, f, WithMode(c.flags), WithMode(c.env), InForce(c))
         /\ ~States(WithMode(c.flags), f) /\ ~States(WithMode(c.env), f) /\
                f \notin DOMAIN InForce(c) =>
              c.sett[f] \in {Get(Stored(c), f, DefaultSettings[f]), DefaultSettings[f]}
  <1> DEFINE o == Overlaid(c.stored, c.standalone)
             e == ApplyEnv(o, c.env)
             g == ApplyOverrides(e, c.flags)
             v == Varied(o, c.env)
             w == Flagged(e, c.flags)
             fl == WithMode(c.flags)
             en == Scalar(c.env)
             n == InForce(c)
             V0 == {Get(Stored(c), f, DefaultSettings[f]), DefaultSettings[f]}
  <1>1. Stage(o, en, v, e) /\ Stage(e, fl, w, g)
    BY StagesAre
  <1>2. (Touches(c.env) => e = SyncPrimaryAccess(v)) /\ (Touches(c.flags) =>
            g = SyncPrimaryAccess(w))
    BY StagesAre
  <1>3. IsSettings(g) /\ c.sett = Normalize(g) /\ Validate(c.sett) /\ IsEnvironment(c.env)
    BY LayersAre
  <1>4. /\ f \in DOMAIN n => Among(o, f, {n[f]})
        /\ f \notin DOMAIN n => Among(o, f, V0)
        /\ \/ Entries(o) # <<>> /\ "type" \in DOMAIN Beneath(o)
           \/ o = DefaultSettings
    BY FilesSay
  <1>5. Same(en, WithMode(c.env), f) /\ f \in ListenerFields
    <2>1. f \in ListenerFields /\ f \notin SectionNames
      BY ListenerFieldsAre, FieldsAre DEF SectionNames
    <2>2. QED
      BY <1>3, <2>1, ScalarIs
  <1> HIDE DEF o, e, g, v, w, fl, en, n, V0
  <1>6. Entries(g) # <<>> /\ "type" \in DOMAIN Beneath(g)
    <2>1. CASE Touches(c.flags)
      BY <1>1, <1>2, <2>1, StageTyped
    <2>2. CASE Touches(c.env)
      <3>1. Entries(e) # <<>> /\ "type" \in DOMAIN Beneath(e)
        BY <1>1, <1>2, <2>2, StageTyped
      <3>2. QED
        BY <1>1, <3>1, StageTyped
    <2>3. QED
      BY <2>1, <2>2
  <1>7. f \in DOMAIN c.sett /\ \A V : Among(g, f, V) => c.sett[f] \in V
    BY <1>3, <1>6, ListenerResolved
  <1>8. States(fl, f) => c.sett[f] = fl[f]
    BY <1>1, <1>5, <1>7, StageStates, HasAmong
  <1>9. ~States(fl, f) => \A V : Among(e, f, V) => c.sett[f] \in V
    BY <1>1, <1>7, StageAmong
  <1>10. States(en, f) => Among(e, f, {en[f]})
    BY <1>1, <1>5, StageStates, HasAmong
  <1>11. ~States(en, f) => \A V : Among(o, f, V) => Among(e, f, V)
    BY <1>1, StageAmong
  <1>12. States(en, f) <=> States(WithMode(c.env), f)
    BY <1>5 DEF Same, States
  <1>13. States(en, f) => en[f] = WithMode(c.env)[f]
    BY <1>5 DEF Same, States
  <1>14. ~States(fl, f) /\ States(en, f) => c.sett[f] = en[f]
    BY <1>9, <1>10
  <1>15. ~States(fl, f) /\ ~States(en, f) /\ f \in DOMAIN n => c.sett[f] = n[f]
    <2>1. ~States(fl, f) /\ ~States(en, f) /\ f \in DOMAIN n => c.sett[f] \in {n[f]}
      BY <1>4, <1>9, <1>11
    <2>2. QED
      BY <2>1
  <1>16. ~States(fl, f) /\ ~States(en, f) /\ f \notin DOMAIN n => c.sett[f] \in V0
    BY <1>4, <1>9, <1>11
  <1>17. QED
    BY <1>7, <1>8, <1>12, <1>13, <1>14, <1>15, <1>16 DEF Follows, fl, en, n, V0

\* Its credentials, then.
LEMMA SecretFollows ==
  ASSUME NEW c, Resolution(c), Touches(c.env) \/ Touches(c.flags), NEW f \in Secrets
  PROVE  /\ Follows(c.sett, f, WithMode(c.flags), WithMode(c.env), InForce(c))
         /\ ~States(WithMode(c.flags), f) /\ ~States(WithMode(c.env), f)
            /\ f \notin DOMAIN InForce(c) /\ c.standalone = NotGiven => f \notin DOMAIN c.sett
  <1> DEFINE o == Overlaid(c.stored, c.standalone)
             e == ApplyEnv(o, c.env)
             g == ApplyOverrides(e, c.flags)
             v == Varied(o, c.env)
             w == Flagged(e, c.flags)
             fl == WithMode(c.flags)
             en == Scalar(c.env)
             n == InForce(c)
  <1>1. Stage(o, en, v, e) /\ Stage(e, fl, w, g)
    BY StagesAre
  <1>2. (Touches(c.env) => e = SyncPrimaryAccess(v)) /\ (Touches(c.flags) =>
            g = SyncPrimaryAccess(w))
    BY StagesAre
  <1>3. IsSettings(g) /\ c.sett = Normalize(g) /\ Validate(c.sett) /\ IsEnvironment(c.env)
    BY LayersAre
  <1>4. /\ f \in DOMAIN n => Has(o, f, n[f])
        /\ f \notin DOMAIN n /\ c.standalone = NotGiven => Lacks(o, f)
    BY FilesSay
  <1>5. f \in ListenerFields /\ AccessField[f] \in Credentials /\ f \notin SectionNames \cup Numbers
    BY ListenerFieldsAre, FieldsAre DEF SectionNames, Numbers, Secrets
  <1>6. Same(en, WithMode(c.env), f) /\ (f \in DOMAIN en => States(en, f))
    BY <1>3, <1>5, ScalarIs DEF Same, States
  <1> HIDE DEF o, e, g, v, w, fl, en, n
  <1>7. Entries(g) # <<>> /\ "type" \in DOMAIN Beneath(g)
    <2>1. CASE Touches(c.flags)
      BY <1>1, <1>2, <2>1, StageTyped
    <2>2. CASE Touches(c.env)
      <3>1. Entries(e) # <<>> /\ "type" \in DOMAIN Beneath(e)
        BY <1>1, <1>2, <2>2, StageTyped
      <3>2. QED
        BY <1>1, <3>1, StageTyped
    <2>3. QED
      BY <2>1, <2>2
  <1>8. /\ f \in DOMAIN c.sett <=> AccessField[f] \in DOMAIN Beneath(g)
        /\ f \in DOMAIN c.sett => c.sett[f] = Beneath(g)[AccessField[f]]
        /\ "username" \in DOMAIN Beneath(g) <=> "password" \in DOMAIN Beneath(g)
    BY <1>3, <1>7, ListenerResolved
  <1>9. \A x : Has(g, f, x) => f \in DOMAIN c.sett /\ c.sett[f] = x
    BY <1>8 DEF Has
  <1>10. States(fl, f) => f \in DOMAIN c.sett /\ c.sett[f] = fl[f]
    BY <1>1, <1>5, <1>9, StageStates
  <1>11. ASSUME NEW x, ~States(fl, f), Has(e, f, x)
         PROVE  f \in DOMAIN c.sett /\ c.sett[f] = x
    <2>1. \/ AccessField[f] \in DOMAIN Beneath(g) /\ Beneath(g)[AccessField[f]] = x
          \/ /\ AccessField[f] \notin DOMAIN Beneath(g)
             /\ \E k \in Credentials : k \in DOMAIN Beneath(g)
      BY <1>1, <1>11, StageSecret
    <2>2. AccessField[f] \in DOMAIN Beneath(g)
      BY <1>5, <1>8, <2>1 DEF Credentials
    <2>3. QED
      BY <1>8, <2>1, <2>2
  <1>12. States(en, f) => Has(e, f, en[f])
    BY <1>1, <1>5, StageStates
  <1>13. ~States(en, f) /\ f \in DOMAIN n => Has(e, f, n[f])
    BY <1>1, <1>4, <1>6, StageSecret
  <1>14. ~States(en, f) /\ ~States(fl, f) /\ f \notin DOMAIN n /\ c.standalone = NotGiven =>
             f \notin DOMAIN c.sett
    <2>1. ~States(en, f) /\ f \notin DOMAIN n /\ c.standalone = NotGiven => Lacks(e, f)
      BY <1>1, <1>4, StageLacks
    <2>2. ~States(en, f) /\ ~States(fl, f) /\ f \notin DOMAIN n /\ c.standalone = NotGiven =>
              Lacks(g, f)
      BY <1>1, <2>1, StageLacks
    <2>3. QED
      BY <1>8, <2>2 DEF Lacks
  <1>15. (States(en, f) <=> States(WithMode(c.env), f)) /\ (States(en, f) =>
             en[f] = WithMode(c.env)[f])
    BY <1>6 DEF Same, States
  <1>16. ~States(fl, f) /\ States(en, f) => f \in DOMAIN c.sett /\ c.sett[f] = en[f]
    BY <1>11, <1>12
  <1>17. ~States(fl, f) /\ ~States(en, f) /\ f \in DOMAIN n =>
             f \in DOMAIN c.sett /\ c.sett[f] = n[f]
    BY <1>11, <1>13
  <1>18. QED
    BY <1>10, <1>14, <1>15, <1>16, <1>17 DEF Follows, fl, n

\* Without a word about the listener it is that of the file in force.
LEMMA ListenerUntouched ==
  ASSUME NEW c, Resolution(c), ~Touches(c.env), ~Touches(c.flags)
  PROVE  /\ \A k \in Listening : Same(c.sett, InForce(c), k)
         /\ \A f \in ListenerFields : ~States(WithMode(c.flags), f) /\ ~States(WithMode(c.env), f)
  <1> DEFINE o == Overlaid(c.stored, c.standalone)
             e == ApplyEnv(o, c.env)
             g == ApplyOverrides(e, c.flags)
             v == Varied(o, c.env)
             w == Flagged(e, c.flags)
             fl == WithMode(c.flags)
             en == Scalar(c.env)
             n == InForce(c)
  <1>1. /\ Stage(o, en, v, e) /\ Stage(e, fl, w, g) /\ e = v /\ g = w
        /\ \A k : k \notin SectionNames \cup {"access"} => Same(e, Assign(o, en), k)
        /\ \A k : k \notin SectionNames \cup {"access"} => Same(g, Assign(e, fl), k)
    BY StagesAre
  <1>2. IsSettings(g) /\ c.sett = Normalize(g) /\ IsEnvironment(c.env) /\ IsFlags(c.flags)
    BY LayersAre
  <1>3. /\ Same(o, n, "access") \/ (o = DefaultSettings /\ n = Normalize(DefaultSettings))
        /\ IsNormal(n)
    BY FilesSay
  <1>4. \A f \in ListenerFields \cup {"proxyMode"} : f \notin DOMAIN fl /\
            f \notin DOMAIN WithMode(c.env)
    BY <1>2, Untouched DEF IsFlags, IsEnvironment
  <1>5. \A f \in ListenerFields \cup {"proxyMode"} : f \notin SectionNames \cup {"access"}
    BY FieldsAre DEF SectionNames
  <1>6. \A f \in ListenerFields \cup {"proxyMode"} : f \notin DOMAIN en
    BY <1>2, <1>4, <1>5, ScalarIs DEF Same
  <1> HIDE DEF o, e, g, v, w, fl, en, n
  <1>7. \A f \in ListenerFields \cup {"proxyMode"} : Same(Assign(o, en), o, f) /\
            Same(Assign(e, fl), e, f)
    BY <1>4, <1>6, AssignIs DEF Same
  <1>8. Same(g, o, "access")
    BY <1>1 DEF Stage, Same
  <1>9. \A k \in Listening : Same(g, o, k)
    BY <1>1, <1>5, <1>7, <1>8 DEF Same, Listening
  <1>10. \A k \in Listening : Same(c.sett, n, k)
    <2>1. CASE Same(o, n, "access")
      <3>1. Same(g, n, "access")
        BY <1>8, <2>1 DEF Same
      <3>2. QED
        BY <1>2, <1>3, <3>1, ListeningKept
    <2>2. CASE o = DefaultSettings /\ n = Normalize(DefaultSettings)
      BY <1>2, <1>9, <2>2, NormalizeListening
    <2>3. QED
      BY <1>3, <2>1, <2>2
  <1>11. \A f \in ListenerFields : ~States(fl, f) /\ ~States(WithMode(c.env), f)
    BY <1>4 DEF States
  <1>12. QED
    BY <1>10, <1>11 DEF fl, n

\* A field of the selection is what the first source says that does.
LEMMA SelectionFollows ==
  ASSUME NEW c, Resolution(c),
         NEW k \in Selecting \cup Settled,
         ~(k \in DOMAIN c.flags /\ IsZero(k, c.flags[k]))
  PROVE  /\ Follows(c.sett, k, WithMode(c.flags), WithMode(c.env), InForce(c))
         /\ ~States(WithMode(c.flags), k) /\ ~States(WithMode(c.env), k) /\
                k \notin DOMAIN InForce(c)
              => k = "endpointOverride" /\ Same(c.sett, Stored(c), k)
  <1> DEFINE o == Overlaid(c.stored, c.standalone)
             e == ApplyEnv(o, c.env)
             g == ApplyOverrides(e, c.flags)
             fl == WithMode(c.flags)
             en == Scalar(c.env)
             n == InForce(c)
             st == Stored(c)
  <1>1. /\ \A h : h \notin SectionNames \cup {"access"} => Same(e, Assign(o, en), h)
        /\ \A h : h \notin SectionNames \cup {"access"} => Same(g, Assign(e, fl), h)
    BY StagesAre
  <1>2. IsSettings(g) /\ c.sett = Normalize(g) /\ IsEnvironment(c.env) /\ IsFlags(c.flags)
    BY LayersAre
  <1>3. /\ \A h \in Selecting \cup {"logLevel"} : h \in DOMAIN n /\ h \in DOMAIN o /\ o[h] = n[h]
        /\ "endpointOverride" \in DOMAIN n =>
                 "endpointOverride" \in DOMAIN o /\ o.endpointOverride = n.endpointOverride
        /\ "endpointOverride" \notin DOMAIN n => Same(o, st, "endpointOverride")
    BY FilesSay
  <1>4. k \notin SectionNames \cup {"access"} /\ k \notin Numbers /\ k # "mode"
    BY DEF Selecting, Settled, SectionNames, Numbers
  <1>5. Same(fl, c.flags, k)
    BY <1>2, <1>4, WithModeIs DEF IsFlags
  <1>6. k \in DOMAIN fl => States(fl, k)
    BY <1>5 DEF Same, States
  <1>7. Same(en, WithMode(c.env), k) /\ (k \in DOMAIN en => States(en, k))
    BY <1>2, <1>4, ScalarIs DEF Same, States
  <1> HIDE DEF o, e, g, fl, en, n, st
  <1>8. /\ States(fl, k) => k \in DOMAIN g /\ g[k] = fl[k]
        /\ ~States(fl, k) => Same(g, e, k)
    BY <1>1, <1>4, <1>6, AssignIs DEF Same, States
  <1>9. /\ States(en, k) => k \in DOMAIN e /\ e[k] = en[k]
        /\ ~States(en, k) => Same(e, o, k)
    BY <1>1, <1>4, <1>7, AssignIs DEF Same, States
  <1>10. /\ \A h \in Selecting \cup Settled : h \in DOMAIN g =>
              h \in DOMAIN c.sett /\ c.sett[h] = g[h]
         /\ \A h \in Settled : Same(c.sett, g, h)
    BY <1>2, NormalizeKeeps
  <1>11. k \in DOMAIN n => k \in DOMAIN o /\ o[k] = n[k]
    BY <1>3 DEF Settled
  <1>12. (States(en, k) <=> States(WithMode(c.env), k)) /\ (States(en, k) =>
             en[k] = WithMode(c.env)[k])
    BY <1>7 DEF Same, States
  <1>13. States(fl, k) => k \in DOMAIN c.sett /\ c.sett[k] = fl[k]
    BY <1>8, <1>10
  <1>14. ~States(fl, k) /\ States(en, k) => k \in DOMAIN c.sett /\ c.sett[k] = en[k]
    BY <1>8, <1>9, <1>10 DEF Same
  <1>15. ~States(fl, k) /\ ~States(en, k) /\ k \in DOMAIN n =>
             k \in DOMAIN c.sett /\ c.sett[k] = n[k]
    BY <1>8, <1>9, <1>10, <1>11 DEF Same
  <1>16. k \notin DOMAIN n => k = "endpointOverride" /\ k \in Settled
    BY <1>3 DEF Settled
  <1>17. ~States(fl, k) /\ ~States(en, k) /\ k \notin DOMAIN n => Same(c.sett, st, k)
    BY <1>3, <1>8, <1>9, <1>10, <1>16 DEF Same
  <1>18. QED
    BY <1>12, <1>13, <1>14, <1>15, <1>16, <1>17 DEF Follows, fl, n, st

\* An endpoint that a flag empties is gone.
LEMMA EndpointEmptied ==
  ASSUME NEW c, Resolution(c), "endpointOverride" \in DOMAIN c.flags,
         IsZero("endpointOverride", c.flags["endpointOverride"])
  PROVE  "endpointOverride" \notin DOMAIN c.sett
  <1> DEFINE k == "endpointOverride"
             e == ApplyEnv(Overlaid(c.stored, c.standalone), c.env)
             g == ApplyOverrides(e, c.flags)
             fl == WithMode(c.flags)
  <1>1. \A h : h \notin SectionNames \cup {"access"} => Same(g, Assign(e, fl), h)
    BY StagesAre
  <1>2. IsSettings(g) /\ c.sett = Normalize(g) /\ IsFlags(c.flags)
    BY LayersAre
  <1>3. Same(fl, c.flags, k)
    BY <1>2, WithModeIs DEF IsFlags
  <1>4. k \notin SectionNames \cup {"access"} /\ k \in Settled
    BY DEF SectionNames, Settled
  <1> HIDE DEF e, g, fl, k
  <1>5. k \notin DOMAIN Assign(e, fl)
    <2>1. k \in DOMAIN fl /\ IsZero(k, fl[k])
      BY <1>3 DEF Same, k
    <2>2. QED
      BY <2>1, AssignIs
  <1>6. Same(c.sett, g, k)
    BY <1>2, <1>4, NormalizeKeeps
  <1>7. QED
    BY <1>1, <1>4, <1>5, <1>6 DEF Same, k

SourcesOf(c) ==
  <<WithMode(c.flags), WithMode(c.env), InForce(c),
    Restrict(Stored(c), DOMAIN Stored(c) \cap {"endpointOverride"})>>

\* A field that follows its sources is what the first of them states.
LEMMA FollowsFirst ==
  ASSUME NEW c, Resolution(c), NEW k \in ListenerFields \cup Selecting \cup Settled,
         Follows(c.sett, k, WithMode(c.flags), WithMode(c.env), InForce(c)),
         ~States(WithMode(c.flags), k) /\ ~States(WithMode(c.env), k) /\ k \notin DOMAIN InForce(c)
           => \/ k = "endpointOverride" /\ Same(c.sett, Stored(c), k)
              \/ k # "endpointOverride" /\ k \notin DOMAIN c.sett
  PROVE  Restrict(c.sett, DOMAIN c.sett \cap {k}) = FirstStated(SourcesOf(c), k)
  <1> DEFINE s == c.sett
             n == InForce(c)
             st == Stored(c)
             fl == WithMode(c.flags)
             en == WithMode(c.env)
             d == Restrict(st, DOMAIN st \cap {"endpointOverride"})
             left == Restrict(s, DOMAIN s \cap {k})
             first == FirstStated(<<fl, en, n, d>>, k)
  <1>1. k \notin SectionNames \cup {"access"}
    BY FieldsAre DEF SectionNames, Selecting, Settled
  <1>2. IsSettings(n) /\ IsSettings(st)
    BY FilesSay DEF IsNormal
  <1>3. (k \in DOMAIN n => ~IsZero(k, n[k])) /\ (k \in DOMAIN st => ~IsZero(k, st[k]))
    BY <1>1, <1>2, FieldNotZero
  <1>4. States(n, k) <=> k \in DOMAIN n
    BY <1>3 DEF States
  <1>5. /\ k \in DOMAIN d <=> k \in DOMAIN st /\ k = "endpointOverride"
        /\ k \in DOMAIN d => d[k] = st[k]
    BY DEF Restrict
  <1>6. States(d, k) <=> k \in DOMAIN st /\ k = "endpointOverride"
    BY <1>3, <1>5 DEF States
  <1>7. /\ k \in DOMAIN s => left = [x \in {k} |-> s[k]]
        /\ k \notin DOMAIN s => left = None
    BY FieldOf
  <1>8. first = FirstStated(SourcesOf(c), k)
    BY DEF SourcesOf
  <1> HIDE DEF s, n, st, fl, en, d, left
  <1>9. /\ States(fl, k) => first = [x \in {k} |-> fl[k]]
        /\ ~States(fl, k) /\ States(en, k) => first = [x \in {k} |-> en[k]]
        /\ ~States(fl, k) /\ ~States(en, k) /\ States(n, k) => first = [x \in {k} |-> n[k]]
        /\ ~States(fl, k) /\ ~States(en, k) /\ ~States(n, k) /\ States(d, k)
                 => first = [x \in {k} |-> d[k]]
        /\ ~States(fl, k) /\ ~States(en, k) /\ ~States(n, k) /\ ~States(d, k) => first = None
    BY FirstStatedIs
  <1> HIDE DEF first
  <1>10. left = first
    <2>1. CASE States(fl, k)
      BY <1>7, <1>9, <2>1 DEF Follows, s, fl
    <2>2. CASE ~States(fl, k) /\ States(en, k)
      BY <1>7, <1>9, <2>2 DEF Follows, s, fl, en
    <2>3. CASE ~States(fl, k) /\ ~States(en, k) /\ States(n, k)
      BY <1>4, <1>7, <1>9, <2>3 DEF Follows, s, fl, en, n
    <2>4. CASE ~States(fl, k) /\ ~States(en, k) /\ ~States(n, k)
      <3>1. \/ k = "endpointOverride" /\ Same(s, st, k)
            \/ k # "endpointOverride" /\ k \notin DOMAIN s
        BY <1>4, <2>4 DEF s, fl, en, n, st
      <3>2. CASE States(d, k)
        BY <1>5, <1>6, <1>7, <1>9, <2>4, <3>1, <3>2 DEF Same
      <3>3. CASE ~States(d, k)
        BY <1>6, <1>7, <1>9, <2>4, <3>1, <3>3 DEF Same
      <3>4. QED
        BY <3>2, <3>3
    <2>5. QED
      BY <2>1, <2>2, <2>3, <2>4
  <1>11. QED
    BY <1>8, <1>10 DEF left, s

\* A listener field that no source states, and that no credentials leak into.
LEMMA ListenerFollows ==
  ASSUME NEW c, Resolution(c), NEW f \in ListenerFields
  PROVE  LET open == ~States(WithMode(c.flags), f) /\ ~States(WithMode(c.env), f) /\
             f \notin DOMAIN InForce(c)
         IN /\ Follows(c.sett, f, WithMode(c.flags), WithMode(c.env), InForce(c))
            /\ open /\ f \in Addressing =>
                   c.sett[f] \in {Get(Stored(c), f, DefaultSettings[f]), DefaultSettings[f]}
            /\ open /\ f \in Secrets /\ ~Leaking(c) => f \notin DOMAIN c.sett
            /\ open => f # "mode"
  <1>1. IsNormal(InForce(c)) /\ IsNormal(c.sett) /\ Validate(c.sett)
    BY FilesSay, ResolutionIs
  <1>2. "mode" \in DOMAIN InForce(c)
    BY <1>1, Mirrored
  <1>3. Addressing \subseteq DOMAIN c.sett
    BY <1>1, ValidIs DEF Addressing
  <1>4. f \in Addressing \/ f \in Secrets
    BY ListenerFieldsAre
  <1>5. CASE ~Touches(c.env) /\ ~Touches(c.flags)
    <2>1. Same(c.sett, InForce(c), f) /\ ~States(WithMode(c.flags), f) /\
              ~States(WithMode(c.env), f)
      BY <1>5, ListenerUntouched DEF Listening
    <2>2. QED
      BY <1>2, <1>3, <2>1 DEF Same, Follows
  <1>6. CASE (Touches(c.env) \/ Touches(c.flags)) /\ f \in Addressing
    <2>1. f \notin Secrets
      BY <1>6 DEF Addressing, Secrets
    <2>2. QED
      BY <1>2, <1>6, <2>1, AddressFollows
  <1>7. CASE (Touches(c.env) \/ Touches(c.flags)) /\ f \in Secrets
    <2>1. f \notin Addressing
      BY <1>7 DEF Addressing, Secrets
    <2>2. f \notin DOMAIN InForce(c) /\ ~Leaking(c) => c.standalone = NotGiven
      <3>1. f \notin DOMAIN InForce(c) => AccessField[f] \notin DOMAIN InForce(c).access[1]
        BY <1>1, Mirrored
      <3>2. AccessField[f] \in Credentials
        BY <1>7, ListenerFieldsAre
      <3>3. QED
        BY <1>7, <3>1, <3>2 DEF Leaking
    <2>3. QED
      BY <1>2, <1>7, <2>1, <2>2, SecretFollows
  <1>8. QED
    BY <1>4, <1>5, <1>6, <1>7

\* Flags prevail over variables, variables over the file in force, in every
\* field of the selection and of the primary listener and in its mirror
\* (settings.Load, syncPrimaryAccessFromLegacy, Normalize).
THEOREM SourcesPrevailInOrder == Spec => []SourcesInOrder
  <1>1. CommandInv => SourcesInOrder
    <2> SUFFICES ASSUME CommandInv, Finished({"resolve"})
                 PROVE  SourcesInOrder
      BY DEF SourcesInOrder
    <2> DEFINE c == command
               s == c.sett
               sources == SourcesOf(c)
               emptied == {k \in DOMAIN c.flags : IsZero(k, c.flags[k])}
               selection == {"runtimeFamily", "transport", "logLevel", "endpointOverride"} \ emptied
               leaked == IF Leaking(c) THEN {"proxyUsername", "proxyPassword"} ELSE {}
               open == {k \in {"listenHost", "listenPort"} :
                          \A i \in DOMAIN sources : ~States(sources[i], k)}
    <2>1. Resolution(c)
      BY FinishedIs DEF Finished
    <2>2. IsNormal(s) /\ Validate(s)
      BY <2>1, ResolutionIs
    <2>3. \A k \in {"listenHost", "listenPort"} : k \in open <=>
            ~States(WithMode(c.flags), k) /\ ~States(WithMode(c.env), k) /\
                k \notin DOMAIN InForce(c)
      <3> TAKE k \in {"listenHost", "listenPort"}
      <3> DEFINE d == Restrict(Stored(c), DOMAIN Stored(c) \cap {"endpointOverride"})
      <3>1. ~States(d, k)
        BY DEF Restrict, States
      <3>2. States(InForce(c), k) <=> k \in DOMAIN InForce(c)
        BY <2>1, FilesSay, Mirrored, FieldsAre
      <3> HIDE DEF c, d
      <3>3. /\ DOMAIN sources = 1..4 /\ sources[1] = WithMode(c.flags) /\
                   sources[2] = WithMode(c.env)
            /\ sources[3] = InForce(c) /\ sources[4] = d
        BY DEF SourcesOf, d
      <3> HIDE DEF sources
      <3>4. QED
        BY <3>1, <3>2, <3>3
    <2>4. ASSUME NEW k \in selection
          PROVE  Restrict(s, DOMAIN s \cap {k}) = FirstStated(sources, k)
      <3>1. k \in Selecting \cup Settled /\ ~(k \in DOMAIN c.flags /\ IsZero(k, c.flags[k]))
        BY DEF Selecting, Settled
      <3>2. QED
        BY <2>1, <3>1, SelectionFollows, FollowsFirst
    <2> HIDE DEF open
    <2>5. ASSUME NEW k \in ListenerFields \ (leaked \cup open)
          PROVE  Restrict(s, DOMAIN s \cap {k}) = FirstStated(sources, k)
      <3> DEFINE unsaid == ~States(WithMode(c.flags), k) /\ ~States(WithMode(c.env), k)
                             /\ k \notin DOMAIN InForce(c)
      <3>1. /\ Follows(c.sett, k, WithMode(c.flags), WithMode(c.env), InForce(c))
            /\ unsaid /\ k \in Secrets /\ ~Leaking(c) => k \notin DOMAIN c.sett
            /\ unsaid => k # "mode"
        BY <2>1, ListenerFollows
      <3>2. k \in Secrets => ~Leaking(c)
        BY DEF Secrets
      <3>3. unsaid => k \notin DOMAIN c.sett
        <4>1. unsaid => k \notin {"listenHost", "listenPort"}
          BY <2>3
        <4>2. unsaid => k \in Secrets
          BY <3>1, <4>1, ListenerFieldsAre DEF Addressing
        <4>3. QED
          BY <3>1, <3>2, <4>2
      <3>4. k # "endpointOverride"
        BY FieldsAre
      <3>5. QED
        BY <2>1, <3>1, <3>3, <3>4, FollowsFirst
    <2>6. \A k \in open : s[k] \in {Get(Stored(c), k, DefaultSettings[k]), DefaultSettings[k]}
      <3>1. \A k \in open : k \in {"listenHost", "listenPort"}
        BY DEF open
      <3>2. \A k \in open : k \in Addressing /\ k \in ListenerFields
        BY <3>1, ListenerFieldsAre DEF Addressing
      <3>3. QED
        BY <2>1, <2>3, <3>1, <3>2, ListenerFollows
    <2>7. "endpointOverride" \in emptied => "endpointOverride" \notin DOMAIN s
      BY <2>1, EndpointEmptied
    <2>8. AsLegacy(s.access[1]) = Restrict(s, DOMAIN s \cap ListenerFields)
      <3> DEFINE l == AsLegacy(s.access[1])
                 r == Restrict(s, DOMAIN s \cap ListenerFields)
      <3>1. \A k : Same(l, r, k)
        <4>1. \A f \in ListenerFields : /\ f \in DOMAIN s <=> AccessField[f] \in DOMAIN s.access[1]
                                        /\ f \in DOMAIN s => s[f] = s.access[1][AccessField[f]]
          BY <2>2, Mirrored
        <4>2. /\ DOMAIN l \subseteq ListenerFields
              /\ \A f \in ListenerFields :
                   /\ f \in DOMAIN l <=> AccessField[f] \in DOMAIN s.access[1]
                   /\ f \in DOMAIN l => l[f] = s.access[1][AccessField[f]]
          BY AsLegacyIs
        <4>3. DOMAIN r = DOMAIN s \cap ListenerFields /\ \A f \in DOMAIN r : r[f] = s[f]
          BY DEF Restrict
        <4> HIDE DEF l, r, s
        <4>4. QED
          BY <4>1, <4>2, <4>3 DEF Same
      <3>2. IsRecord(l) /\ IsRecord(r)
        BY AsLegacyIs DEF IsRecord, Restrict
      <3>3. QED
        BY <3>1, <3>2, SameIsEqual
    <2>9. QED
      BY <2>4, <2>5, <2>6, <2>7, <2>8 DEF SourcesInOrder, SourcesOf, open
  <1>2. QED
    BY <1>1, CommandInvHolds, PTL

-----------------------------------------------------------------------------
(* Listeners                                                                 *)

\* The primary entry of valid settings is the first proxy, and its fields are there.
LEMMA PrimaryServed ==
  ASSUME NEW s, IsNormal(s), Validate(s)
  PROVE  LET p == s.access[1]
         IN /\ 1 \in DOMAIN s.access /\ FirstProxyAccess(s) = p /\ p \in Range(s.access)
            /\ \A i \in DOMAIN s.access : s.access[i].type \in Proxies
            /\ s.listenHost = p.listenHost /\ s.listenPort = p.listenPort
            /\ "username" \in DOMAIN p <=> "password" \in DOMAIN p
  <1> DEFINE q == s.access
             p == q[1]
  <1>1. /\ \A i \in DOMAIN q : q[i].type \in Proxies
        /\ "username" \in DOMAIN p <=> "password" \in DOMAIN p
        /\ {"listenHost", "listenPort"} \subseteq DOMAIN s
    BY ValidIs DEF Proxies
  <1>2. IsSequence(q) /\ q # <<>> /\ 1 \in DOMAIN q
    BY NormalPrimary DEF IsNormal
  <1>3. DOMAIN q = 1..Len(q) /\ Len(q) \in Nat
    BY <1>2, NonEmptyIs
  <1>4. s.listenHost = p.listenHost /\ s.listenPort = p.listenPort
    BY <1>1, Mirrored, ListenerFieldsAre DEF Addressing
  <1> DEFINE proxies == {i \in DOMAIN q : q[i].type \in Proxies}
             first == CHOOSE i \in proxies : \A j \in proxies : i <= j
  <1>5. FirstProxyAccess(s) = q[first]
    BY DEF FirstProxyAccess
  <1> HIDE DEF q
  <1>6. first = 1
    <2>1. proxies = 1..Len(q) /\ 1 \in proxies
      BY <1>1, <1>2, <1>3
    <2> HIDE DEF proxies
    <2>2. \A j \in proxies : 1 <= j
      BY <2>1, <1>3
    <2>3. \A i \in proxies : (\A j \in proxies : i <= j) => i = 1
      BY <2>1, <2>2, <1>3
    <2>4. QED
      BY <2>1, <2>2, <2>3
  <1>7. p \in Range(q)
    BY <1>2 DEF Range
  <1>8. QED
    BY <1>1, <1>2, <1>4, <1>5, <1>6, <1>7 DEF q

\* The loopback address of a loopback address is that.
LEMMA LocalTwice ==
  ASSUME NEW host
  PROVE  Local(Local(host)) = Local(host)
  <1>1. /\ "127.0.0.1" \notin {Unset, "0.0.0.0", "::", "[::]"}
        /\ "::1" \notin {Unset, "0.0.0.0", "::", "[::]"}
        /\ Unset \notin {"::", "[::]"}
    BY Zenon DEF Unset
  <1>2. CASE host \in {Unset, "0.0.0.0"}
    <2>1. Local(host) = "127.0.0.1"
      BY <1>1, <1>2 DEF Local
    <2>2. QED
      BY <1>1, <2>1 DEF Local
  <1>3. CASE host \notin {Unset, "0.0.0.0"} /\ host \in {"::", "[::]"}
    <2>1. Local(host) = "::1"
      BY <1>3 DEF Local
    <2>2. QED
      BY <1>1, <2>1 DEF Local
  <1>4. CASE host \notin {Unset, "0.0.0.0", "::", "[::]"}
    BY <1>4 DEF Local
  <1>5. QED
    BY <1>2, <1>3, <1>4

\* The listener on the primary address is reached at the addresses waited for and probed.
LEMMA PrimaryReached ==
  ASSUME NEW s, IsNormal(s), Validate(s), NEW listener,
         listener.host = s.access[1].listenHost, listener.port = s.access[1].listenPort,
         s.access[1].listenHost \notin Bracketed
  PROVE  \A address \in Awaited(s) \cup {ProbeTarget(s)} : Reaches(address, listener)
  <1> DEFINE p == s.access[1]
  <1>1. FirstProxyAccess(s) = p /\ s.listenHost = p.listenHost /\ s.listenPort = p.listenPort
    BY PrimaryServed
  <1> HIDE DEF p
  <1>2. Awaited(s) = {[host |-> p.listenHost, port |-> p.listenPort]}
    BY <1>1 DEF Awaited
  <1>3. ProbeTarget(s).host = Local(p.listenHost) /\ ProbeTarget(s).port = p.listenPort
    BY <1>1 DEF ProbeTarget
  <1>4. Reaches(ProbeTarget(s), listener)
    <2>1. Local(p.listenHost) \notin Bracketed
      BY HostAssumption DEF Local, p
    <2>2. QED
      BY <1>3, <2>1, LocalTwice DEF Reaches, p
  <1>5. Reaches([host |-> p.listenHost, port |-> p.listenPort], listener)
    BY DEF Reaches, p
  <1>6. QED
    BY <1>2, <1>4, <1>5

\* Valid settings name the backend that runs the selection.
LEMMA BackendIs ==
  ASSUME NEW s, IsNormal(s), Validate(s)
  PROVE  \/ /\ s.backend = "singbox-wireguard" /\ s.runtimeFamily = "legacy" /\
                   s.transport = "wireguard"
         \/ /\ s.backend = "native-masque" /\ s.runtimeFamily = "native" /\ s.transport = "masque"
  <1> DEFINE fits(sel) == s.runtimeFamily = sel.runtimeFamily /\ s.transport = sel.transport
             sel0 == CHOOSE sel \in Selections : fits(sel)
  <1>1. /\ "runtimeFamily" \in DOMAIN s /\ "transport" \in DOMAIN s
        /\ \/ s.runtimeFamily = "legacy" /\ s.transport = "wireguard"
           \/ s.runtimeFamily = "native" /\ s.transport = "masque"
        /\ DeriveBackendTag(s) = [backend |-> s.backend]
    BY ValidIs
  <1>2. Get(s, "runtimeFamily", Unset) = s.runtimeFamily /\ Get(s, "transport", Unset) = s.transport
    BY <1>1 DEF Get
  <1>3. \E sel \in Selections : fits(sel)
    BY <1>1 DEF Selections
  <1>4. sel0 \in Selections /\ fits(sel0)
    BY <1>3
  <1>5. DeriveBackendTag(s) = [backend |-> sel0.backend]
    BY <1>2, <1>3 DEF DeriveBackendTag
  <1>6. s.backend = sel0.backend
    BY <1>1, <1>5
  <1> HIDE DEF sel0
  <1>7. QED
    BY <1>1, <1>4, <1>6 DEF Selections

Served(c, listeners) ==
  \E l \in listeners :
    /\ \A address \in Awaited(c.sett) \cup {ProbeTarget(c.sett)} : Reaches(address, l)
    /\ ProbeTarget(c.sett).type = l.type /\ l.users \in {None, ProbeTarget(c.sett).users}

\* sing-box serves the listener that is awaited and probed.
LEMMA SingBoxServes ==
  ASSUME NEW c, IsNormal(c.sett), Validate(c.sett), Accepts(c.sett)
  PROVE  Served(c, SingBox(c.sett).inbounds)
  <1> DEFINE s == c.sett
             p == s.access[1]
             l == Inbound(p)
  <1>1. /\ 1 \in DOMAIN s.access /\ FirstProxyAccess(s) = p
        /\ "username" \in DOMAIN p <=> "password" \in DOMAIN p
    BY PrimaryServed
  <1>2. l.host = p.listenHost /\ l.port = p.listenPort /\ l.type = p.type /\ l.users = BuildUsers(p)
    BY DEF Inbound
  <1>3. l \in SingBox(s).inbounds
    BY <1>1 DEF SingBox
  <1>a. p.listenHost \notin Bracketed
    BY PrimaryServed DEF Accepts, Hosts
  <1>4. \A address \in Awaited(s) \cup {ProbeTarget(s)} : Reaches(address, l)
    BY <1>2, <1>a, PrimaryReached
  <1>5. ProbeTarget(s).type = p.type /\
            ProbeTarget(s).users = Restrict(p, DOMAIN p \cap Credentials)
    BY <1>1 DEF ProbeTarget
  <1> HIDE DEF p, s, l
  <1>6. BuildUsers(p) \in {None, Restrict(p, DOMAIN p \cap Credentials)}
    <2>1. CASE "username" \notin DOMAIN p
      BY <2>1 DEF BuildUsers
    <2>2. CASE "username" \in DOMAIN p
      <3>1. DOMAIN p \cap Credentials = {"username", "password"}
        BY <1>1, <2>2 DEF Credentials
      <3>2. BuildUsers(p) = [username |-> p.username, password |-> p.password]
        BY <1>1, <2>2 DEF BuildUsers, Get
      <3>3. Restrict(p, {"username", "password"}) =
                [username |-> p.username, password |-> p.password]
        BY DEF Restrict
      <3>4. QED
        BY <3>1, <3>2, <3>3
    <2>3. QED
      BY <2>1, <2>2
  <1>7. QED
    BY <1>2, <1>3, <1>4, <1>5, <1>6 DEF Served, s

\* The resolvers sing-box is given have an address.
LEMMA ServersAsked ==
  ASSUME NEW s, IsNormal(s), Validate(s), NEW server \in SingBox(s).servers
  PROVE  /\ server.mode # "local" => {"server", "serverPort"} \subseteq DOMAIN server
         /\ server.mode = "https" => "path" \in DOMAIN server
  <1> DEFINE dns == Get(s, "dns", None)
             kept == CASE Get(dns, "mode", Unset) =
                 "https" -> {"mode", "server", "serverPort", "path"}
                       [] Get(dns, "mode", Unset) = "local" -> {"mode"}
                       [] OTHER                          -> {"mode", "server", "serverPort"}
  <1>1. server \in BuildDNSConfig(dns)
    BY DEF SingBox
  <1>2. "mode" \in DOMAIN dns /\ server = Restrict(dns, DOMAIN dns \cap kept)
    BY <1>1 DEF BuildDNSConfig
  <1>3. "dns" \in DOMAIN s /\ dns = s.dns
    BY <1>2, NoneIs DEF Get
  <1>4. ValidDNS(dns) /\ NormalSection("dns", dns) = dns
    <2>1. Normalize(s) = s
      BY NormalFixed
    <2>2. "dns" \in SectionNames
      BY DEF SectionNames
    <2>3. QED
      BY <1>3, <2>1, <2>2 DEF Validate, IsNormal
  <1> HIDE DEF dns
  <1>5. Get(dns, "mode", Unset) = dns.mode
    BY <1>2 DEF Get
  <1>6. /\ dns.mode \in {"local", "udp", "https"}
        /\ dns.mode \in {"udp", "https"} => "server" \in DOMAIN dns
    BY <1>4, <1>5 DEF ValidDNS
  <1>7. /\ dns.mode = "https" => {"serverPort", "path"} \subseteq DOMAIN dns
        /\ dns.mode = "udp" => "serverPort" \in DOMAIN dns
    <2>1. /\ dns.mode = "https" => dns = dns @@ HTTPS
          /\ dns.mode = "udp" => dns = dns @@ UDP
      BY <1>4, <1>5, NormalSectionIs
    <2>2. DOMAIN (dns @@ HTTPS) = DOMAIN dns \cup {"serverPort", "path"}
      BY GivenAre DEF @@
    <2>3. DOMAIN (dns @@ UDP) = DOMAIN dns \cup {"serverPort"}
      BY GivenAre DEF @@
    <2>4. QED
      BY <2>1, <2>2, <2>3
  <1>8. DOMAIN server = DOMAIN dns \cap kept /\ \A k \in DOMAIN server : server[k] = dns[k]
    BY <1>2 DEF Restrict
  <1>9. /\ "mode" \in kept /\ (dns.mode = "https" =>
               kept = {"mode", "server", "serverPort", "path"})
        /\ dns.mode = "udp" => {"server", "serverPort"} \subseteq kept
    BY <1>5
  <1>10. "mode" \in DOMAIN server /\ server.mode = dns.mode
    BY <1>2, <1>8, <1>9
  <1> HIDE DEF kept
  <1>11. CASE dns.mode = "local"
    BY <1>10, <1>11
  <1>12. CASE dns.mode = "udp"
    BY <1>6, <1>7, <1>8, <1>9, <1>10, <1>12
  <1>13. CASE dns.mode = "https"
    BY <1>6, <1>7, <1>8, <1>9, <1>10, <1>13
  <1>14. QED
    BY <1>6, <1>11, <1>12, <1>13

\* Valid settings can be rendered for every account.
LEMMA AccountsRender ==
  ASSUME NEW s, IsNormal(s), Validate(s), NEW account \in Assigned
  PROVE  Renders(s, account)
  <1>1. \A i \in DOMAIN s.access : s.access[i].type \in Proxies
    BY PrimaryServed
  <1>2. "endpointOverride" \in DOMAIN s => s.endpointOverride \in Endpoints
    BY ValidIs
  <1>3. "ipv4" \in DOMAIN account /\ ("endpoint" \in DOMAIN account =>
            account.endpoint \in Endpoints)
    BY AssignedAssumption
  <1>4. ResolvePeerEndpoint(s, account) \in Endpoints
    BY <1>2, <1>3 DEF ResolvePeerEndpoint, Get, Endpoints
  <1>5. QED
    BY <1>1, <1>3, <1>4 DEF Renders

\* The native process resolves what the command has resolved, but for the log
\* level and the endpoint of its flags.
LEMMA ServiceResolves ==
  ASSUME NEW c, Resolution(c), c.sett.backend = "native-masque", ~Unheard(c, c.standalone)
  PROVE  LET t == ServiceSettings(c, c.standalone)
         IN /\ t.access = c.sett.access
            /\ RunsNative(t) \/ DOMAIN c.flags \cap {"logLevel", "endpointOverride"} # {}
  <1> DEFINE o == Overlaid(c.stored, c.standalone)
             e == ApplyEnv(o, c.env)
             g == ApplyOverrides(e, c.flags)
             w == Flagged(e, c.flags)
             t == ServiceSettings(c, c.standalone)
             s == c.sett
             fl == WithMode(c.flags)
             en == Scalar(c.env)
  <1>1. /\ IsSettings(o) /\ IsSettings(e) /\ IsSettings(g)
        /\ IsEnvironment(c.env) /\ IsFlags(c.flags)
        /\ s = Normalize(g) /\ IsNormal(s) /\ Validate(s)
    BY LayersAre
  <1>2. t = Normalize(e)
    <2>1. t = Normalize(ApplyOverrides(e, None))
      BY LayeredIs, NoSources DEF ServiceSettings, Resolution
    <2>2. QED
      BY <1>1, <2>1, NoOverrides
  <1>3. DOMAIN c.flags \subseteq Settled \cup {"backend"}
    BY <1>1, ScalarsAre, FieldsAre DEF Unheard, IsFlags, Settled
  <1>4. fl = c.flags /\ ~Touches(c.flags)
    <2>1. "proxyMode" \notin DOMAIN c.flags /\ \A f \in ListenerFields : f \notin DOMAIN c.flags
      BY <1>3, FieldsAre DEF Settled
    <2>2. QED
      BY <2>1 DEF WithMode, Touches
  <1>5. /\ \A k : k \notin SectionNames \cup {"access"} => Same(g, Assign(e, fl), k)
        /\ \A k : k \notin SectionNames \cup {"access"} => Same(e, Assign(o, en), k)
        /\ g = w
    BY <1>4, StagesAre
  <1>6. Same(w, e, "access") /\ \A k \in SectionNames : Same(g, e, k)
    BY <1>1, FlaggedIs
  <1>7. \A k \in Selecting : k \in DOMAIN o
    BY FilesSay
  <1>8. \A k \in Selecting : k \in DOMAIN en => ~IsZero(k, en[k])
    <2>1. \A k \in Selecting : k \notin SectionNames /\ k \notin Numbers
      BY DEF Selecting, SectionNames, Numbers
    <2>2. QED
      BY <1>1, <2>1, ScalarIs DEF Same, States
  <1> HIDE DEF o, e, g, w, t, s, fl, en
  <1>9. \A k : k \notin SectionNames \cup {"access"} \cup DOMAIN fl => Same(g, e, k)
    BY <1>5, AssignIs DEF Same
  <1>10. Same(g, e, "access")
    BY <1>5, <1>6
  <1>11. \A k \in Listening : Same(g, e, k)
    <2>1. \A k \in Listening \ {"access"} : k \notin SectionNames \cup DOMAIN fl
      BY <1>3, <1>4, FieldsAre DEF Listening, Settled, SectionNames
    <2>2. QED
      BY <1>9, <1>10, <2>1
  <1>12. \A k \in Listening : Same(s, t, k)
    BY <1>1, <1>2, <1>11, NormalizeListening
  <1>13. \A k \in SectionNames : Same(s, t, k)
    BY <1>1, <1>2, <1>6, NormalizeSections
  <1>14. \A k \in Selecting : Same(s, t, k)
    <2>1. \A k \in Selecting : k \in DOMAIN e
      <3>1. \A k \in Selecting : k \notin SectionNames \cup {"access"}
        BY DEF Selecting, SectionNames
      <3>2. QED
        BY <1>5, <1>7, <1>8, <3>1, AssignIs DEF Same
    <2>2. \A k \in Selecting : k \notin SectionNames \cup {"access"} \cup DOMAIN fl
      BY <1>3, <1>4 DEF Selecting, SectionNames, Settled
    <2>3. \A k \in Selecting : k \in DOMAIN g /\ g[k] = e[k]
      BY <1>9, <2>1, <2>2 DEF Same
    <2>4. \A k \in Selecting : k \in DOMAIN s /\ s[k] = g[k] /\ k \in DOMAIN t /\ t[k] = e[k]
      BY <1>1, <1>2, <2>1, <2>3, NormalizeKeeps
    <2>5. QED
      BY <2>3, <2>4 DEF Same
  <1>15. DOMAIN c.flags \cap Settled = {} => \A k \in Settled : Same(s, t, k)
    <2>1. \A k \in Settled : k \notin SectionNames \cup {"access"}
      BY DEF Settled, SectionNames
    <2>2. DOMAIN c.flags \cap Settled = {} => \A k \in Settled : Same(g, e, k)
      BY <1>4, <1>9, <2>1
    <2>3. \A k \in Settled : Same(s, g, k) /\ Same(t, e, k)
      BY <1>1, <1>2, NormalizeKeeps
    <2>4. QED
      BY <2>2, <2>3 DEF Same
  <1>16. t.access = s.access
    BY <1>1, <1>12 DEF Listening, Same, IsNormal
  <1>17. IsNormal(t)
    BY <1>1, <1>2, NormalizeNormal
  <1>18. s.runtimeFamily = "native" /\ s.transport = "masque"
    <2>1. s.backend = "native-masque"
      BY DEF s
    <2>2. QED
      BY <1>1, <2>1, BackendIs
  <1>19. {"runtimeFamily", "transport"} \subseteq DOMAIN s
    BY <1>1, ValidIs
  <1>20. t.runtimeFamily = "native" /\ t.transport = "masque"
    BY <1>14, <1>18, <1>19 DEF Same, Selecting
  <1>21. ASSUME \A k \in Settled : Same(s, t, k)
         PROVE  Validate(t)
    <2>1. Normalize(s) = s /\ Normalize(t) = t
      BY <1>1, <1>17, NormalFixed
    <2>2. /\ Same(s, t, "runtimeFamily") /\ Same(s, t, "transport")
          /\ Same(s, t, "logLevel") /\ Same(s, t, "endpointOverride")
          /\ Same(s, t, "caps") /\ Same(s, t, "dns") /\ Same(s, t, "rotation")
      BY <1>13, <1>14, <1>21 DEF Selecting, Settled, SectionNames
    <2>3. /\ Get(t, "runtimeFamily", Unset) = Get(s, "runtimeFamily", Unset)
          /\ Get(t, "transport", Unset) = Get(s, "transport", Unset)
          /\ Get(t, "logLevel", Unset) = Get(s, "logLevel", Unset)
      BY <2>2 DEF Get, Same
    <2>4. /\ <<Get(s, "runtimeFamily", Unset), Get(s, "transport", Unset)>>
               \in {<<"legacy", "wireguard">>, <<"native", "masque">>}
          /\ Get(s, "logLevel", Unset) \in LogLevels
          /\ "endpointOverride" \in DOMAIN s => s.endpointOverride \in Endpoints
          /\ ValidAccess(s.access)
          /\ "caps" \in DOMAIN s => ValidCaps(s.caps)
          /\ "dns" \in DOMAIN s => ValidDNS(s.dns)
          /\ "rotation" \in DOMAIN s => ValidRotation(s.rotation)
      BY <1>1, <2>1 DEF Validate
    <2>5. /\ "endpointOverride" \in DOMAIN t => t.endpointOverride \in Endpoints
          /\ "caps" \in DOMAIN t => ValidCaps(t.caps)
          /\ "dns" \in DOMAIN t => ValidDNS(t.dns)
          /\ "rotation" \in DOMAIN t => ValidRotation(t.rotation)
      BY <2>2, <2>4 DEF Same
    <2>6. QED
      BY <1>16, <2>1, <2>3, <2>4, <2>5 DEF Validate
  <1>22. RunsNative(t) \/ DOMAIN c.flags \cap Settled # {}
    BY <1>15, <1>20, <1>21 DEF RunsNative
  <1>23. QED
    BY <1>16, <1>22 DEF Settled, t, s

\* The native process opens the listener that is awaited and probed.
LEMMA NativeServes ==
  ASSUME NEW c, IsNormal(c.sett), Validate(c.sett),
         Hosts(c.sett) \cap BareIPv6 = {}, c.sett.listenHost \notin Bracketed, NEW t, t.access = c.sett.access
  PROVE  Served(c, FrontEnds(t))
  <1> DEFINE s == c.sett
             p == s.access[1]
             l == [type |-> p.type, host |-> p.listenHost, port |-> p.listenPort,
                   users |-> Restrict(p, DOMAIN p \cap Credentials)]
  <1>1. /\ FirstProxyAccess(s) = p /\ p \in Range(s.access)
        /\ s.listenHost = p.listenHost
    BY PrimaryServed
  <1>2. l \in FrontEnds(t)
    BY <1>1 DEF FrontEnds, Hosts
  <1>3. l.host = p.listenHost /\ l.port = p.listenPort /\ l.type = p.type
        /\ l.users = Restrict(p, DOMAIN p \cap Credentials)
    OBVIOUS
  <1>4. \A address \in Awaited(s) \cup {ProbeTarget(s)} : Reaches(address, l)
    BY <1>1, <1>3, PrimaryReached
  <1>5. ProbeTarget(s).type = p.type /\
            ProbeTarget(s).users = Restrict(p, DOMAIN p \cap Credentials)
    BY <1>1 DEF ProbeTarget
  <1> HIDE DEF p, s, l
  <1>6. QED
    BY <1>2, <1>3, <1>4, <1>5 DEF Served, s

\* Valid settings can be rendered, and the listener that is awaited and probed
\* is one the backend serves (renderer.go, rotate.go, daemon.go).
THEOREM ServedAsAwaited == Spec => []ListenersAgree
  <1>1. CommandInv => ListenersAgree
    <2> SUFFICES ASSUME CommandInv, Finished({"resolve"})
                 PROVE  ListenersAgree
      BY DEF ListenersAgree
    <2> DEFINE c == command
               s == c.sett
               singbox == /\ \A account \in Assigned : Renders(s, account)
                          /\ Accepts(s) => Served(c, SingBox(s).inbounds)
                          /\ \A server \in SingBox(s).servers :
                               /\ server.mode # "local" =>
                                      {"server", "serverPort"} \subseteq DOMAIN server
                               /\ server.mode = "https" => "path" \in DOMAIN server
               native == \A standalone \in {NotGiven, c.standalone} :
                           \/ Unheard(c, standalone)
                           \/ Hosts(s) \cap BareIPv6 # {} \/ s.listenHost \in Bracketed
                           \/ /\ \/ RunsNative(ServiceSettings(c, standalone))
                                 \/ DOMAIN c.flags \cap {"logLevel", "endpointOverride"} # {}
                              /\ Served(c, FrontEnds(ServiceSettings(c, standalone)))
    <2>1. Resolution(c) /\ IsNormal(s) /\ Validate(s)
      BY FinishedIs, ResolutionIs DEF Finished
    <2>2. singbox
      BY <2>1, AccountsRender, SingBoxServes, ServersAsked
    <2>3. s.backend = "native-masque" => native
      <3> SUFFICES ASSUME s.backend = "native-masque", NEW standalone \in {NotGiven, c.standalone},
                          ~Unheard(c, standalone),
                          Hosts(s) \cap BareIPv6 = {}, s.listenHost \notin Bracketed
                   PROVE  /\ \/ RunsNative(ServiceSettings(c, standalone))
                             \/ DOMAIN c.flags \cap {"logLevel", "endpointOverride"} # {}
                          /\ Served(c, FrontEnds(ServiceSettings(c, standalone)))
        OBVIOUS
      <3>1. standalone = c.standalone
        BY DEF Unheard
      <3>2. QED
        BY <2>1, <3>1, ServiceResolves, NativeServes
    <2>4. s.backend = "singbox-wireguard" \/ s.backend = "native-masque"
      BY <2>1, BackendIs
    <2> HIDE DEF singbox, native
    <2>5. (CASE s.backend = "singbox-wireguard" -> singbox [] s.backend = "native-masque" -> native)
      BY <2>2, <2>3, <2>4
    <2>6. QED
      BY <2>5 DEF ListenersAgree, Served, singbox, native
  <1>2. QED
    BY <1>1, CommandInvHolds, PTL
=================================================================================
