-------------------------- MODULE RunConfiguration --------------------------
(***************************************************************************)
(* What a run is configured with, as values: the variables an FMU lists,   *)
(* the YAML profile that maps them to the pins of the board, and the byte  *)
(* layouts built from it.  src/fmu_model.c (lists and mappings),           *)
(* src/profile_config.c, src/daq_schema.c, src/app_config.c.               *)
(*                                                                         *)
(* An FMU is the sequence of its variables in XML order, each a record of  *)
(* name, causality, type and vr.  A profile document is the record the     *)
(* YAML text parses to; one that is not YAML, or lacks a key, is the value *)
(* BadYaml.  Scales and offsets are small integers.                        *)
(***************************************************************************)
EXTENDS Integers, Sequences, FiniteSets, SequencesExt

CONSTANTS
    MaxOutputs,    \* MAX_OUTPUTS: outputs that can be selected
    MaxInputs,     \* INPUT_STATE_MAX_CHANNELS
    MaxCandidates, \* MAX_CANDIDATE_OUTPUTS: outputs the menu offers
    MaxMappings,   \* PROFILE_CONFIG_MAX_MAPPINGS
    BadYaml,       \* a document that is no profile
    Garbage,       \* a value reference no variable of any FMU has
    Failed         \* the outcome of a stage that refuses

ASSUME ConfigurationAssumption == {MaxOutputs, MaxInputs, MaxCandidates, MaxMappings} \subseteq Nat \ {0}

\* p lists the indices in S by ascending key, those of one key in their own
\* order.
Sorts(p, S, key) ==
    /\ \A i \in S : \E k \in DOMAIN p : p[k] = i
    /\ \A j, k \in DOMAIN p : j < k =>
          \/ key[p[j]] < key[p[k]]
          \/ key[p[j]] = key[p[k]] /\ p[j] < p[k]

\* What an insertion sort makes of them, and with the index itself as the key
\* what a loop that skips all others visits.
Arranged(S, key) == CHOOSE p \in [1..Cardinality(S) -> S] : Sorts(p, S, key)

-----------------------------------------------------------------------------
(***************************************************************************)
(* The numeric variables of an FMU: fmu_model_list_numeric_outputs and     *)
(* fmu_model_list_numeric_inputs.                                          *)
(***************************************************************************)

\* Where in the XML the numeric variables of a causality are, in order.
Positions(fmu, causality) ==
    Arranged({i \in DOMAIN fmu : fmu[i].causality = causality /\ fmu[i].type # "string"},
             [i \in DOMAIN fmu |-> i])

ListOutputs(fmu) ==
    LET at == Positions(fmu, "output")
    IN  [k \in DOMAIN at |-> [name |-> fmu[at[k]].name, type |-> fmu[at[k]].type,
                              vr |-> fmu[at[k]].vr, xml |-> at[k], index |-> k - 1]]

ListInputs(fmu) ==
    LET at == Positions(fmu, "input")
    IN  [k \in DOMAIN at |-> [name |-> fmu[at[k]].name, type |-> fmu[at[k]].type,
                              vr |-> fmu[at[k]].vr]]

-----------------------------------------------------------------------------
(***************************************************************************)
(* The pins of the ESP32 profile: GPIO, function, and the place and width  *)
(* of their bytes in the acquisition or actuation payload.                 *)
(***************************************************************************)

Pin(gpio, function, offset, width) ==
    [gpio |-> gpio, function |-> function, offset |-> offset, width |-> width]

Pins ==
    [GPIO4_DI   |-> Pin(4, "DI", 0, 1),    GPIO13_DI  |-> Pin(13, "DI", 1, 1),
     GPIO14_DI  |-> Pin(14, "DI", 2, 1),   GPIO27_DI  |-> Pin(27, "DI", 3, 1),
     GPIO32_AI  |-> Pin(32, "AI", 4, 4),   GPIO33_AI  |-> Pin(33, "AI", 8, 4),
     GPIO34_AI  |-> Pin(34, "AI", 12, 4),  GPIO35_AI  |-> Pin(35, "AI", 16, 4),
     GPIO36_AI  |-> Pin(36, "AI", 20, 4),  GPIO39_AI  |-> Pin(39, "AI", 24, 4),
     GPIO16_DO  |-> Pin(16, "DO", 0, 1),   GPIO17_DO  |-> Pin(17, "DO", 1, 1),
     GPIO18_PWM |-> Pin(18, "PWM", 2, 4),  GPIO19_PWM |-> Pin(19, "PWM", 6, 4),
     GPIO21_DO  |-> Pin(21, "DO", 10, 1),  GPIO22_DO  |-> Pin(22, "DO", 11, 1),
     GPIO23_DO  |-> Pin(23, "DO", 12, 1),  GPIO25_AO  |-> Pin(25, "AO", 13, 4),
     GPIO26_AO  |-> Pin(26, "AO", 17, 4)]

IsInputFunction(function) == function \in {"AI", "DI"}
IsInput(mapping) == IsInputFunction(Pins[mapping.channel].function)

\* IsEsp32ChannelTypeCompatible.
TypeFits(channel, type) ==
    type = IF Pins[channel].function \in {"DI", "DO"} THEN "boolean" ELSE "real"

\* The checks of ProfileConfigLoadYaml on a document and on each mapping.
ProfileConfigLoadYaml(doc) ==
    IF /\ doc # BadYaml
       /\ doc.version = 1 /\ doc.id = 1 /\ doc.step > 0 /\ doc.stop > 0
       /\ Len(doc.mappings) <= MaxMappings
       /\ \A i \in DOMAIN doc.mappings :
             LET m == doc.mappings[i]
             IN  m.channel \in DOMAIN Pins /\ m.scale # 0 /\ TypeFits(m.channel, m.type)
    THEN doc ELSE Failed

-----------------------------------------------------------------------------
(***************************************************************************)
(* fmu_model_resolve_profile_mappings: each mapping gets the place of its  *)
(* variable in the FMU's lists, found by name and type.                    *)
(***************************************************************************)

\* The first entry that fits, or 0.
Find(list, mapping) ==
    SelectInSeq(list, LAMBDA v : v.name = mapping.variable /\ v.type = mapping.type)

\* Where the search may end.  The array holds the first limit entries, the loop
\* is bounded by the length of the whole list: past the array it compares with
\* what happens to lie there, which may fit anywhere or nowhere (0).
Places(list, limit, mapping) ==
    LET first == Find(list, mapping)
    IN  IF first \in 1..limit THEN {first} ELSE {0} \cup (limit + 1)..Len(list)

\* The references a mapping may get from the place k.
References(fmu, list, limit, k) ==
    IF k <= limit THEN {list[k].vr} ELSE {Garbage} \cup {fmu[i].vr : i \in DOMAIN fmu}

\* What may become of one mapping.
Resolutions(fmu, m) ==
    LET list == IF IsInput(m) THEN ListInputs(fmu) ELSE ListOutputs(fmu)
        limit == IF IsInput(m) THEN MaxInputs ELSE MaxOutputs
        entry(k, vr) == [channel |-> m.channel, variable |-> m.variable, type |-> m.type,
                         scale |-> m.scale, offset |-> m.offset,
                         vr |-> vr, index |-> k - 1]
    IN  UNION {{entry(k, vr) : vr \in References(fmu, list, limit, k)} :
                  k \in Places(list, limit, m) \ {0}}

\* What may become of all of them; nothing if one is not found.
Resolve(fmu, mappings) ==
    {r \in [DOMAIN mappings -> UNION {Resolutions(fmu, mappings[i]) : i \in DOMAIN mappings}] :
        \A i \in DOMAIN mappings : r[i] \in Resolutions(fmu, mappings[i])}

-----------------------------------------------------------------------------
(***************************************************************************)
(* The payload layouts: BuildAcquisitionField and BuildActuationField,     *)
(* SortFieldsByOffset, DaqSchemaBuildFixedPayload.                         *)
(***************************************************************************)

Field(m) == LET pin == Pins[m.channel]
            IN  [gpio |-> pin.gpio, at |-> pin.offset, width |-> pin.width,
                 type |-> m.type, scale |-> m.scale, offset |-> m.offset,
                 vr |-> m.vr, index |-> m.index]

FieldFits(f) == f.type = "boolean" => f.scale = 1 /\ f.offset = 0

BuildFixedPayload(fields, size) ==
    IF /\ \A i \in DOMAIN fields : FieldFits(fields[i])
       /\ \A i, j \in DOMAIN fields : i < j =>
             /\ fields[j].at >= fields[i].at + fields[i].width
             /\ fields[i].gpio # fields[j].gpio
             /\ fields[i].index # fields[j].index
       /\ \A i \in DOMAIN fields : fields[i].at + fields[i].width <= size
    THEN [fields |-> fields, size |-> size] ELSE Failed

Schema(mappings, input, limit, size) ==
    LET chosen == {i \in DOMAIN mappings : IsInput(mappings[i]) = input}
        sorted == Arranged(chosen, [i \in DOMAIN mappings |-> Field(mappings[i]).at])
    IN  IF Cardinality(chosen) > limit THEN Failed
        ELSE BuildFixedPayload([k \in DOMAIN sorted |-> Field(mappings[sorted[k]])], size)

AcquisitionSchema(mappings) == Schema(mappings, TRUE, 10, 28)
ActuationSchema(mappings) == Schema(mappings, FALSE, 9, 21)

\* DaqAcquisitionInit: what the board sends goes to inputs the run has.
AcquisitionFits(schema, inputs) ==
    \A i \in DOMAIN schema.fields :
       LET f == schema.fields[i]
       IN  f.index < Len(inputs) /\ inputs[f.index + 1].type = f.type

\* The profiles a document may become for an FMU: every stage accepts it, or
\* nothing of it is used.
LoadProfileCandidate(fmu, doc) ==
    LET resolved == {r \in Resolve(fmu, doc.mappings) :
                        AcquisitionSchema(r) # Failed /\ ActuationSchema(r) # Failed}
    IN  IF ProfileConfigLoadYaml(doc) = Failed THEN {}
        ELSE {[mappings |-> r, acquisition |-> AcquisitionSchema(r),
               actuation |-> ActuationSchema(r), step |-> doc.step] : r \in resolved}

-----------------------------------------------------------------------------
(***************************************************************************)
(* The outputs selected for the run.                                       *)
(***************************************************************************)

\* app_config_normalize_outputs: ascending XML order.
Normalize(outputs) ==
    LET sorted == Arranged(DOMAIN outputs, [i \in DOMAIN outputs |-> outputs[i].xml])
    IN  [k \in DOMAIN outputs |-> outputs[sorted[k]]]

Duplicated(outputs) == \E i, j \in DOMAIN outputs : i # j /\ outputs[i].xml = outputs[j].xml

\* ProfileOutputsAreSelected.
MappedOutputsSelected(profile, outputs) ==
    \A i \in DOMAIN profile.mappings :
       LET m == profile.mappings[i]
       IN  IsInput(m) \/ \E k \in DOMAIN outputs :
              /\ outputs[k].index = m.index /\ outputs[k].vr = m.vr
              /\ outputs[k].type = m.type
=============================================================================
