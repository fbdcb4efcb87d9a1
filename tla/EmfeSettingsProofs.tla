------------------------- MODULE EmfeSettingsProofs -------------------------
(***************************************************************************)
(* Proofs about EmfeSettings for any settings, any strings as their values *)
(* and any crash.                                                          *)
(***************************************************************************)
EXTENDS EmfeSettings, TLAPS

\* The instance's tables hold strings and the hardware is a known variant.
InstanceType ==
  /\ stagedSettings \in Settings /\ settings \in Settings /\ appliedSettings \in Settings
  /\ variant \in Supported
  /\ HardwareIsApplied

\* A variant is always a supported one.
LEMMA VariantType == \A v : VariantOf(v) \in Supported
BY SettingsAssumption DEF VariantOf

\* The file is what the last save wrote of the committed values, with at most
\* torn rows besides.
FileInv ==
  /\ file \in Rows \cup {NoFile}
  /\ unwritten \subseteq Key
  /\ saved \in Settings \cup {NoFile}
  /\ whole \in BOOLEAN
  /\ (file = NoFile) = (saved = NoFile)
  /\ unwritten # {} => file # NoFile /\ saved = settings /\ DOMAIN file = Key \ unwritten /\ ~whole
  /\ file # NoFile => \A k \in DOMAIN file : file[k] \in {saved[k], Torn}
  /\ unwritten # {} \/ whole => file # NoFile /\ \A k \in DOMAIN file : file[k] # Torn
  /\ whole => DOMAIN file = Key

Inv == InstanceType /\ FileInv

\* What a row of the file is.
LEMMA RowType ==
  ASSUME file \in Rows, NEW k \in DOMAIN file
  PROVE  k \in Key /\ file[k] \in Value \cup {Torn}
BY DEF Rows

\* A file with one more row is a file.
LEMMA MoreRows ==
  ASSUME file \in Rows, NEW k \in Key, NEW v \in Value \cup {Torn}
  PROVE  /\ [j \in DOMAIN file \cup {k} |-> IF j = k THEN v ELSE file[j]] \in Rows
         /\ DOMAIN file \subseteq Key
<1>1. PICK keys \in SUBSET Key : file \in [keys -> Value \cup {Torn}]
  BY DEF Rows
<1>2. DOMAIN file = keys
  BY <1>1
<1> DEFINE more == keys \cup {k}
           g == [j \in more |-> IF j = k THEN v ELSE file[j]]
<1>3. g \in [more -> Value \cup {Torn}] /\ more \in SUBSET Key
  BY <1>1
<1> HIDE DEF g
<1>4. g \in Rows
  BY <1>3 DEF Rows
<1>5. QED
  BY <1>2, <1>4 DEF g

\* What is read for a key is a string the user once entered.
LEMMA ReadsType ==
  ASSUME Inv, file # NoFile, NEW k \in Key
  PROVE  /\ Reads(k) \in Value
         /\ Reads(k) \in {saved[k], settings[k]}
         /\ whole => Reads(k) = saved[k]
<1>1. file \in Rows /\ settings[k] \in Value
  BY DEF Inv, FileInv, InstanceType, Settings
<1>2. CASE k \in DOMAIN file /\ file[k] # Torn
  BY <1>1, <1>2, RowType DEF Reads, Inv, FileInv
<1>3. CASE ~(k \in DOMAIN file /\ file[k] # Torn)
  BY <1>1, <1>3 DEF Reads, Inv, FileInv
<1>4. QED
  BY <1>2, <1>3

\* The instance's tables.
LEMMA InstanceStep ==
  ASSUME Inv, Next
  PROVE  InstanceType'
<1> USE SettingsAssumption DEF Settings, InstanceType, HardwareIsApplied
<1>1. CASE SetSetting
  BY <1>1 DEF SetSetting, Inv
<1>2. CASE ApplySettings
  BY <1>2 DEF ApplySettings, Inv
<1>3. CASE Reset
  BY <1>3, VariantType DEF Reset, Inv
<1>4. CASE SaveBegin \/ SaveRow
  BY <1>4 DEF SaveBegin, SaveRow, Inv, instanceVars
<1>5. CASE LoadSettings
  <2>1. settings' = [k \in Key |-> Reads(k)] /\ \A k \in Key : Reads(k) \in Value
    BY <1>5, ReadsType DEF LoadSettings
  <2>2. settings' \in Settings /\ settings'[CpuVariant] = Reads(CpuVariant)
    BY <2>1
  <2>3. QED
    BY <1>5, <2>2, VariantType DEF LoadSettings
<1>6. CASE Restart
  <2>1. Defaults \in Settings /\ Defaults[CpuVariant] = Default
    BY DEF Defaults
  <2>2. QED
    BY <1>6, <2>1, VariantType DEF Restart
<1>7. QED
  BY <1>1, <1>2, <1>3, <1>4, <1>5, <1>6 DEF Next

\* The file, which only a save and a crash touch.
LEMMA FileStep ==
  ASSUME Inv, Next
  PROVE  FileInv'
<1>1. CASE SetSetting \/ ApplySettings \/ Reset \/ LoadSettings
  BY <1>1 DEF SetSetting, ApplySettings, Reset, LoadSettings, Free, Inv, FileInv
<1>2. CASE SaveBegin
  <2>1. <<>> \in Rows /\ DOMAIN <<>> = {} /\ settings \in Settings
    <3>1. <<>> \in [{} -> Value \cup {Torn}]
      OBVIOUS
    <3>2. QED
      BY <3>1 DEF Rows, Inv, InstanceType
  <2>2. <<>> # NoFile /\ settings # NoFile
    <3>1. settings \in [Key -> Value \cup {Torn}]
      BY <2>1 DEF Settings
    <3>2. settings \in Rows
      BY <3>1 DEF Rows
    <3>3. QED
      BY <2>1, <3>2, SettingsAssumption
  <2>3. QED
    BY <1>2, <2>1, <2>2, SettingsAssumption DEF SaveBegin, Free, Inv, FileInv, instanceVars
<1>3. CASE SaveRow
  <2>1. PICK k \in unwritten :
          /\ file' = [j \in DOMAIN file \cup {k} |-> IF j = k THEN settings[k] ELSE file[j]]
          /\ unwritten' = unwritten \ {k} /\ whole' = (unwritten = {k})
    BY <1>3 DEF SaveRow
  <2>2. /\ k \in Key /\ file \in Rows /\ settings[k] \in Value
        /\ saved = settings /\ DOMAIN file = Key \ unwritten
    BY <2>1 DEF Inv, FileInv, InstanceType, Settings
  <2>3. file' \in Rows /\ DOMAIN file' = DOMAIN file \cup {k}
    BY <2>1, <2>2, MoreRows
  <2>4. file' # NoFile /\ settings[k] # Torn
    BY <2>2, <2>3, SettingsAssumption
  <2>5. \A j \in DOMAIN file' : file'[j] = saved[j] /\ file'[j] # Torn
    BY <2>1, <2>2, <2>4 DEF Inv, FileInv
  <2>6. DOMAIN file' = Key \ unwritten'
    BY <2>1, <2>2, <2>3 DEF Inv, FileInv
  <2>7. saved' = saved /\ settings' = settings /\ saved \in Settings
    BY <1>3, <2>2 DEF SaveRow, instanceVars, Inv, InstanceType
  <2>8. saved # NoFile
    BY <2>1 DEF Inv, FileInv
  <2>9. QED
    BY <2>1, <2>2, <2>3, <2>4, <2>5, <2>6, <2>7, <2>8 DEF Inv, FileInv
<1>4. CASE Restart
  <2>1. unwritten' = {} /\ saved' = saved /\ whole' = whole
    BY <1>4 DEF Restart
  <2>2. CASE file' = file
    BY <2>1, <2>2 DEF Inv, FileInv
  <2>3. CASE \E k \in unwritten :
               file' = [j \in DOMAIN file \cup {k} |-> IF j = k THEN Torn ELSE file[j]]
    <3>1. PICK k \in unwritten :
            file' = [j \in DOMAIN file \cup {k} |-> IF j = k THEN Torn ELSE file[j]]
      BY <2>3
    <3>2. k \in Key /\ file \in Rows /\ ~whole /\ file # NoFile /\ saved # NoFile
      BY <3>1 DEF Inv, FileInv
    <3>3. file' \in Rows
      BY <3>1, <3>2, MoreRows
    <3>4. \A j \in DOMAIN file' : file'[j] \in {saved[j], Torn}
      BY <3>1, <3>2 DEF Inv, FileInv
    <3>5. file' # NoFile
      BY <3>3, SettingsAssumption
    <3>6. QED
      BY <2>1, <3>2, <3>3, <3>4, <3>5 DEF Inv, FileInv
  <2>4. QED
    BY <1>4, <2>2, <2>3 DEF Restart
<1>5. QED
  BY <1>1, <1>2, <1>3, <1>4 DEF Next

\* The tables and the file stay sound through any calls and crashes.
LEMMA Invariant == Spec => []Inv
<1>1. Init => Inv
  <2>1. Defaults \in Settings /\ Defaults[CpuVariant] = Default
    BY SettingsAssumption DEF Defaults, Settings
  <2>2. QED
    BY <2>1, VariantType DEF Init, Inv, InstanceType, HardwareIsApplied, FileInv
<1>2. Inv /\ [Next]_vars => Inv'
  <2>1. ASSUME Inv, UNCHANGED vars
        PROVE  Inv'
    BY <2>1 DEF Inv, InstanceType, HardwareIsApplied, FileInv, vars, instanceVars
  <2>2. QED
    BY <2>1, InstanceStep, FileStep DEF Inv
<1>3. QED
  BY <1>1, <1>2, PTL DEF Spec

\* No sequence of calls and crashes makes a setting of something that was not
\* entered whole.
THEOREM SettingsTyped == Spec => []TypeOK
<1>1. Inv => TypeOK
  BY DEF Inv, InstanceType, FileInv, TypeOK
<1>2. QED
  BY <1>1, Invariant, PTL

\* The processor is always the variant the applied settings name.
THEOREM HardwareMatches == Spec => []HardwareIsApplied
<1>1. Inv => HardwareIsApplied
  BY DEF Inv, InstanceType
<1>2. QED
  BY <1>1, Invariant, PTL

\* Settings that require a reset take effect together, or not at all.
THEOREM DeferredSettings == Spec => DeferredTogether
<1>1. ASSUME Next, \E k \in ResetKey : appliedSettings'[k] # appliedSettings[k]
      PROVE  appliedSettings' = settings'
  <2>1. ~ApplySettings
    BY <1>1, SettingsAssumption DEF ApplySettings
  <2>2. QED
    BY <1>1, <2>1
    DEF Next, SetSetting, Reset, SaveBegin, SaveRow, LoadSettings, Restart, instanceVars
<1>2. [Next]_vars => [(\E k \in ResetKey : appliedSettings'[k] # appliedSettings[k])
                        => appliedSettings' = settings']_vars
  BY <1>1
<1>3. QED
  BY <1>2, PTL DEF Spec, DeferredTogether

\* A load after a finished save gives every setting back; after a crash in the
\* middle of one, each is as it was saved or as it was before the load.
THEOREM LoadAfterSave == Spec => LoadRestores
<1>1. ASSUME Inv, LoadSettings, saved # NoFile
      PROVE  (\A k \in Key : settings'[k] \in {saved[k], settings[k]}) /\ (whole => settings' = saved)
  <2>1. file # NoFile /\ settings' = [k \in Key |-> Reads(k)]
    BY <1>1 DEF LoadSettings
  <2>2. \A k \in Key : Reads(k) \in {saved[k], settings[k]} /\ (whole => Reads(k) = saved[k])
    BY <1>1, <2>1, ReadsType
  <2>3. saved \in Settings
    BY <1>1 DEF Inv, FileInv
  <2>4. QED
    BY <2>1, <2>2, <2>3 DEF Settings
<1>2. Inv /\ [Next]_vars =>
        [LoadSettings /\ saved # NoFile =>
           /\ \A k \in Key : settings'[k] \in {saved[k], settings[k]}
           /\ whole => settings' = saved]_vars
  BY <1>1
<1>3. QED
  BY <1>2, Invariant, PTL DEF Spec, LoadRestores
=============================================================================
