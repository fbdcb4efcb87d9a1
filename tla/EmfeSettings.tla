---------------------------- MODULE EmfeSettings ----------------------------
(***************************************************************************)
(* The settings of a plugin instance (z8000/src/plugin_z8000.cpp; the em8  *)
(* plugin has the same code without the variant): what the dialog shows,   *)
(* what was committed, what the hardware runs with, and the file that      *)
(* outlives the process.                                                   *)
(***************************************************************************)
CONSTANTS
  Key,          \* the settings
  ResetKey,     \* those with EMFE_SETTING_FLAG_REQUIRES_RESET
  CpuVariant,   \* the one the processor is built from
  Value,        \* strings a user can enter
  Supported,    \* those ApplyVariantFromSettings knows
  Default,      \* the default value of every setting
  NoFile,       \* there is no settings file
  Torn          \* what stands in the file for a value whose end is missing

Rows == UNION {[keys -> Value \cup {Torn}] : keys \in SUBSET Key}

ASSUME SettingsAssumption ==
  /\ CpuVariant \in ResetKey /\ ResetKey \subseteq Key
  /\ Default \in Supported /\ Supported \subseteq Value
  /\ Torn \notin Value /\ NoFile \notin Rows

VARIABLES
  stagedSettings, settings, appliedSettings,
  variant,    \* m_variant
  file,       \* the rows of appsettings.json, or NoFile
  unwritten,  \* the keys emfe_save_settings has still to write
  saved,      \* history: what the last save began to write, or NoFile
  whole       \* history: and that it wrote all of it

instanceVars == <<stagedSettings, settings, appliedSettings, variant>>
vars == <<instanceVars, file, unwritten, saved, whole>>

Settings == [Key -> Value]
Defaults == [k \in Key |-> Default]
VariantOf(v) == IF v \in Supported THEN v ELSE Default

Init ==
  /\ stagedSettings = Defaults /\ settings = Defaults /\ appliedSettings = Defaults
  /\ variant = VariantOf(Default)
  /\ file = NoFile /\ unwritten = {} /\ saved = NoFile /\ whole = FALSE
-----------------------------------------------------------------------------
(***************************************************************************)
(* The calls of the frontend.  One at a time: a save that has begun ends   *)
(* or dies with the process before the next call.                          *)
(***************************************************************************)
Free == unwritten = {}

SetSetting ==
  /\ Free
  /\ \E k \in Key, v \in Value : stagedSettings' = [stagedSettings EXCEPT ![k] = v]
  /\ UNCHANGED <<settings, appliedSettings, variant, file, unwritten, saved, whole>>

\* Mutant: the test of the flag is inverted.
ApplySettingsInverted ==
  /\ Free
  /\ settings' = stagedSettings
  /\ appliedSettings' = [k \in Key |-> IF k \in ResetKey THEN stagedSettings[k]
                                       ELSE appliedSettings[k]]
  /\ UNCHANGED <<stagedSettings, variant, file, unwritten, saved, whole>>

ApplySettings ==
  /\ Free
  /\ settings' = stagedSettings
  /\ appliedSettings' = [k \in Key |-> IF k \in ResetKey THEN appliedSettings[k]
                                       ELSE stagedSettings[k]]
  /\ UNCHANGED <<stagedSettings, variant, file, unwritten, saved, whole>>

Reset ==
  /\ Free
  /\ appliedSettings' = settings
  /\ variant' = VariantOf(settings[CpuVariant])
  /\ UNCHANGED <<stagedSettings, settings, file, unwritten, saved, whole>>

\* Opening the file for writing empties it.
SaveBegin ==
  /\ Free
  /\ file' = <<>> /\ unwritten' = Key /\ saved' = settings /\ whole' = FALSE
  /\ UNCHANGED instanceVars

\* Mutant: what the dialog shows is written.
SaveRowStaged ==
  /\ \E k \in unwritten :
       /\ file' = [j \in DOMAIN file \cup {k} |-> IF j = k THEN stagedSettings[k] ELSE file[j]]
       /\ unwritten' = unwritten \ {k} /\ whole' = (unwritten = {k})
  /\ UNCHANGED <<instanceVars, saved>>

\* The rows come in the order of the hash table.
SaveRow ==
  /\ \E k \in unwritten :
       /\ file' = [j \in DOMAIN file \cup {k} |-> IF j = k THEN settings[k] ELSE file[j]]
       /\ unwritten' = unwritten \ {k} /\ whole' = (unwritten = {k})
  /\ UNCHANGED <<instanceVars, saved>>

\* Mutant: a value without its closing quote is taken for one.
ReadsTorn(k) == IF k \in DOMAIN file THEN file[k] ELSE settings[k]

\* A key that is not found, or whose value has no closing quote, keeps its value.
Reads(k) == IF k \in DOMAIN file /\ file[k] # Torn THEN file[k] ELSE settings[k]

LoadSettings ==
  /\ Free /\ file # NoFile
  /\ settings' = [k \in Key |-> Reads(k)]
  /\ stagedSettings' = settings' /\ appliedSettings' = settings'
  /\ variant' = VariantOf(Reads(CpuVariant))
  /\ UNCHANGED <<file, unwritten, saved, whole>>

\* The process ends, in the middle of a save or not, and another one starts.
\* The row that was being written is there, in part, or not at all.
Restart ==
  /\ stagedSettings' = Defaults /\ settings' = Defaults /\ appliedSettings' = Defaults
  /\ variant' = VariantOf(Default)
  /\ unwritten' = {}
  /\ \/ UNCHANGED file
     \/ \E k \in unwritten :
          file' = [j \in DOMAIN file \cup {k} |-> IF j = k THEN Torn ELSE file[j]]
  /\ UNCHANGED <<saved, whole>>

Next == SetSetting \/ ApplySettings \/ Reset \/ SaveBegin \/ SaveRow \/ LoadSettings \/ Restart

Spec == Init /\ [][Next]_vars
-----------------------------------------------------------------------------
(***************************************************************************)
(* Properties.                                                             *)
(***************************************************************************)
\* Every variable keeps its type: a torn value stays in the file and never
\* becomes a setting.
TypeOK ==
  /\ stagedSettings \in Settings /\ settings \in Settings /\ appliedSettings \in Settings
  /\ variant \in Supported
  /\ file \in Rows \cup {NoFile}
  /\ unwritten \subseteq Key
  /\ saved \in Settings \cup {NoFile} /\ whole \in BOOLEAN

\* The processor is the variant that emfe_get_applied_setting names, whatever
\* has been staged, committed, loaded or reset since.
HardwareIsApplied == variant = VariantOf(appliedSettings[CpuVariant])

\* A setting that requires a reset takes effect together with everything that
\* was committed: there is no moment at which only some of them have.
DeferredTogether ==
  [][(\E k \in ResetKey : appliedSettings'[k] # appliedSettings[k])
       => appliedSettings' = settings']_vars

\* Loading gives back what the last save wrote.  After a crash in the middle of
\* it a setting may fall back to the default, but never to anything else.
LoadRestores ==
  [][LoadSettings /\ saved # NoFile =>
       /\ \A k \in Key : settings'[k] \in {saved[k], settings[k]}
       /\ whole => settings' = saved]_vars
=============================================================================
