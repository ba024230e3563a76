---------------------------- MODULE ConsoleProofs ----------------------------
(***************************************************************************)
(* Proofs about the command-line runner, for every set of FMUs and         *)
(* profiles, every queue capacity and every interleaving of the runner,    *)
(* the simulation thread, the plotter and a signal: the FMI library is     *)
(* called in a legal order and given back everything, the plotter shows    *)
(* what the queue took, a CSV is made of the latest run's whole log, and   *)
(* a run uses the configuration of the FMU it steps.                       *)
(*                                                                         *)
(* The inductive invariant has four parts; only the last needs another,    *)
(* ModelInv.                                                               *)
(*   ModelInv  the adapter and the library are in one of three states,     *)
(*             and where the runner and the simulation thread are says     *)
(*             which;                                                      *)
(*   PlotInv   the ring's indices, what is between them, and how far the   *)
(*             simulation is when the plotter reads producer_done;         *)
(*   LogInv    which run a log and a CSV are of;                           *)
(*   ConfigInv selection, profile and layouts are of the FMU that is       *)
(*             loaded.                                                     *)
(***************************************************************************)
EXTENDS Console, SequenceTheorems, FiniteSetTheorems, WellFoundedInduction, TLAPS

-----------------------------------------------------------------------------
(* The FMU adapter.                                                          *)

Names == DOMAIN Fmus

Adapters ==
    [name : Names \cup {NoFmu}, tmp : BOOLEAN, context : BOOLEAN, fmu : BOOLEAN,
     dll : BOOLEAN, instantiated : BOOLEAN, initialized : BOOLEAN,
     live : SUBSET Resources, mode : Modes, misused : BOOLEAN]

\* An adapter with these fields, on which no call came out of order.
Is(m, n, t, c, x, d, i, z, l, o) ==
    /\ m \in Adapters /\ ~m.misused
    /\ m.name = n /\ m.tmp = t /\ m.context = c /\ m.fmu = x /\ m.dll = d
    /\ m.instantiated = i /\ m.initialized = z /\ m.live = l /\ m.mode = o

\* Nothing is loaded; an FMU is loaded and has no instance; its instance is
\* ready to step.
IsEmpty(m) == Is(m, NoFmu, FALSE, FALSE, FALSE, FALSE, FALSE, FALSE, {}, "none")
IsLoaded(m) ==
    \E f \in Names : Is(m, f, TRUE, TRUE, TRUE, TRUE, FALSE, FALSE, Resources, "none")
IsReady(m) ==
    \E f \in Names : Is(m, f, TRUE, TRUE, TRUE, TRUE, TRUE, TRUE, Resources, "step")

\* How a step may leave its instance; such an instance is to be released.
AfterStep == {"step", "stepFailed", "error", "fatal"}
IsStepped(m) ==
    \E f \in Names, o \in AfterStep :
       Is(m, f, TRUE, TRUE, TRUE, TRUE, TRUE, TRUE, Resources, o)

\* Where there is an instance: between its preparation and its release.
HasInstance ==
    \/ pc \in {"daqc", "log", "plot", "start"}
    \/ simPc \in {"loop", "push", "write", "release"}

ModelInv ==
    /\ simPc \in {"none", "loop", "push", "write", "release", "done", "exited"}
    /\ simPc # "none" => pc = "join"
    /\ HasInstance => IsStepped(model)
    /\ HasInstance /\ simPc # "release" => IsReady(model)
    /\ ~HasInstance => IsEmpty(model) \/ IsLoaded(model)
    /\ pc = "exited" => IsEmpty(model)

-----------------------------------------------------------------------------
(* The queue and the plotter.                                                *)

Slots == 0..(Capacity - 1)

\* s is the end of t.
EndOf(s, t) ==
    /\ Len(s) <= Len(t)
    /\ \A i \in 1..Len(s) : s[i] = t[Len(t) - Len(s) + i]

\* The simulation has pushed its last sample.
SimOver == \/ pc = "join" /\ simPc = "exited"
           \/ pc \in {"stopDaqc", "plotJoin"}

\* How many samples are in the ring, and where in it the place k is.
Dist == IF head >= tail THEN head - tail ELSE head - tail + Capacity
At(k) == IF k < Capacity THEN k ELSE k - Capacity

RingInv ==
    /\ head \in Slots /\ tail \in Slots /\ slots \in [Slots -> Nat] /\ steps \in Nat
    /\ accepted \in Seq(Nat) /\ taken \in Seq(Nat)
    /\ Len(accepted) = Len(taken) + Dist
    /\ \A i \in 1..Len(taken) : accepted[i] = taken[i]
    /\ \A i \in 1..Dist : accepted[Len(taken) + i] = slots[At(tail + i - 1)]
    /\ simPc = "write" => Dist < Capacity - 1
    /\ plotPc \in {"copy", "recopy"} => Dist > 0

HistoryInv == history \in Seq(Nat) /\ EndOf(history, taken)

DoneInv ==
    /\ simPc \in {"none", "loop", "push", "write", "release", "done", "exited"}
    /\ simPc # "none" => pc = "join"
    /\ pc \in {"menu", "prepare", "daqc", "log", "plot", "exited"} =>
          plotPc = "none" /\ ~fresh
    /\ fresh /\ producerDone => SimOver
    /\ fresh /\ plotPc \in {"repop", "recopy", "ended"} => SimOver
    /\ fresh /\ plotPc = "ended" => head = tail

PlotInv == RingInv /\ HistoryInv /\ DoneInv

-----------------------------------------------------------------------------
(* The logs.                                                                 *)

LastRunsWhole(l) == l.run = runs /\ l.complete

LogInv ==
    /\ csv # NoLog => LastRunsWhole(csv)
    /\ logging = "complete" => LastRunsWhole(logFile)
    /\ lastLogClosed => LastRunsWhole(logFile) /\ pc \in {"menu", "exited"}
    /\ pc \in {"menu", "prepare", "daqc", "log", "exited"} => logging = "off"

-----------------------------------------------------------------------------
(* The configuration.                                                        *)

IsConfig(c) ==
    c = [fmu |-> c.fmu, outputs |-> c.outputs, inputs |-> c.inputs,
         profile |-> c.profile, step |-> c.step]

Causality(m) == IF IsInput(m) THEN "input" ELSE "output"

\* How much of its list the search for a mapping may look at.
Limit(m) == IF IsInput(m) THEN MaxInputs ELSE MaxOutputs

\* The variable at a mapping's index among those of its causality.
Mapped(fmu, m) == fmu[Positions(fmu, Causality(m))[m.index + 1]]

\* That variable is the one the mapping refers to.
IsExact(fmu, m) == Mapped(fmu, m).vr = m.vr /\ Mapped(fmu, m).type = m.type

\* A resolved mapping: its index is a place among the numeric variables of its
\* causality, and within the array that is searched that of the variable it names.
IsResolved(fmu, m) ==
    /\ m.channel \in DOMAIN Pins
    /\ m.index \in Nat /\ m.index + 1 \in DOMAIN Positions(fmu, Causality(m))
    /\ Mapped(fmu, m).causality = Causality(m)
    /\ m.index < Limit(m) => IsExact(fmu, m) /\ Mapped(fmu, m).name = m.variable

\* A layout has a field for each mapping of its direction, with bytes of its own.
IsLayout(schema, mappings, input) ==
    LET fields == {schema.fields[i] : i \in DOMAIN schema.fields}
        mapped == {i \in DOMAIN mappings : IsInput(mappings[i]) = input}
    IN  /\ \A f, g \in fields : f # g =>
              Bytes(f) \cap Bytes(g) = {} /\ f.index # g.index
        /\ \A f \in fields : Bytes(f) \subseteq 0..(schema.size - 1)
        /\ Cardinality(fields) = Cardinality(mapped)
        /\ \A i \in mapped : \E f \in fields :
              /\ f.gpio = Pins[mappings[i].channel].gpio
              /\ f.index = mappings[i].index /\ f.vr = mappings[i].vr

\* A profile resolved with the FMU, and both its layouts.
IsLaidOut(fmu, profile) ==
    /\ \A i \in DOMAIN profile.mappings : IsResolved(fmu, profile.mappings[i])
    /\ IsLayout(profile.acquisition, profile.mappings, TRUE)
    /\ IsLayout(profile.actuation, profile.mappings, FALSE)

\* A configuration for an FMU: what it selects, reads and maps is listed there.
ConfiguredFor(c, name) ==
    LET fmu == Fmus[name]
    IN  /\ c.fmu = name
        /\ c.outputs \in Seq(Range(ListOutputs(fmu)))
        /\ c.inputs \in Seq(Range(ListInputs(fmu))) /\ Len(c.inputs) <= MaxInputs
        /\ c.profile # Failed => IsLaidOut(fmu, c.profile)

\* ProfileOutputsAreSelected accepts it, and DaqAcquisitionInit does.
Selects(c) == c.profile # Failed => MappedOutputsSelected(c.profile, c.outputs)
FitsBoard(c) == c.profile # Failed /\ AcquisitionFits(c.profile.acquisition, c.inputs)

InXmlOrder(outputs) ==
    \A i, j \in DOMAIN outputs : i < j => outputs[i].xml < outputs[j].xml

ConfigInv ==
    /\ IsConfig(config)
    /\ model.fmu => ConfiguredFor(config, model.name)
    /\ pc \notin {"menu", "exited"} =>
          model.fmu /\ InXmlOrder(config.outputs) /\ Selects(config)
    /\ runtime = "on" =>
          pc \notin {"menu", "exited", "prepare", "daqc", "plotJoin"} /\ FitsBoard(config)

-----------------------------------------------------------------------------
(* What the adapter's functions do to the adapters that occur.               *)

\* An adapter the library has no complaint about, with no instance, that knows
\* what the library holds for it.
Tidy(m) ==
    /\ m \in Adapters /\ ~m.misused
    /\ ~m.instantiated /\ ~m.initialized /\ m.mode = "none"
    /\ "tmp" \in m.live <=> m.tmp
    /\ "context" \in m.live <=> m.context
    /\ "xml" \in m.live <=> m.fmu
    /\ "dll" \in m.live <=> m.dll

\* fmu_model_unload gives back one resource after the other.
LEMMA FreeDll ==
  ASSUME NEW m, Tidy(m), m.dll
  PROVE  LET n == [Free(m, "dll", {}) EXCEPT !.dll = FALSE]
         IN  Tidy(n) /\ ~n.dll
<1>1. "dll" \in m.live /\ m.live \cap {} = {} /\ m.mode = "none"
  BY DEF Tidy
<1>2. Free(m, "dll", {}) = [m EXCEPT !.live = @ \ {"dll"}]
  BY <1>1 DEF Free
<1> DEFINE n == [Free(m, "dll", {}) EXCEPT !.dll = FALSE]
<1>3. /\ n \in Adapters /\ n.live = m.live \ {"dll"} /\ ~n.dll
      /\ n.instantiated = m.instantiated /\ n.initialized = m.initialized
      /\ n.mode = m.mode /\ n.misused = m.misused
      /\ n.tmp = m.tmp /\ n.context = m.context /\ n.fmu = m.fmu
  BY <1>2 DEF Tidy, Adapters
<1> HIDE DEF n
<1> QED BY <1>3 DEF Tidy, n

\* Giving back the XML of an adapter that holds it.
LEMMA FreeXml ==
  ASSUME NEW m, Tidy(m), m.fmu, ~m.dll
  PROVE  LET n == [Free(m, "xml", {"dll"}) EXCEPT !.fmu = FALSE]
         IN  Tidy(n) /\ ~n.fmu /\ ~n.dll
<1>1. "xml" \in m.live /\ m.live \cap {"dll"} = {} /\ m.mode = "none"
  BY DEF Tidy
<1>2. Free(m, "xml", {"dll"}) = [m EXCEPT !.live = @ \ {"xml"}]
  BY <1>1 DEF Free
<1> DEFINE n == [Free(m, "xml", {"dll"}) EXCEPT !.fmu = FALSE]
<1>3. /\ n \in Adapters /\ n.live = m.live \ {"xml"} /\ ~n.fmu
      /\ n.instantiated = m.instantiated /\ n.initialized = m.initialized
      /\ n.mode = m.mode /\ n.misused = m.misused
      /\ n.tmp = m.tmp /\ n.context = m.context /\ n.dll = m.dll
  BY <1>2 DEF Tidy, Adapters
<1> HIDE DEF n
<1> QED BY <1>3 DEF Tidy, n

\* Giving back the context.
LEMMA FreeContext ==
  ASSUME NEW m, Tidy(m), m.context, ~m.dll, ~m.fmu
  PROVE  LET n == [Free(m, "context", {"xml"}) EXCEPT !.context = FALSE]
         IN  Tidy(n) /\ ~n.context /\ ~n.dll /\ ~n.fmu
<1>1. "context" \in m.live /\ m.live \cap {"xml"} = {} /\ m.mode = "none"
  BY DEF Tidy
<1>2. Free(m, "context", {"xml"}) = [m EXCEPT !.live = @ \ {"context"}]
  BY <1>1 DEF Free
<1> DEFINE n == [Free(m, "context", {"xml"}) EXCEPT !.context = FALSE]
<1>3. /\ n \in Adapters /\ n.live = m.live \ {"context"} /\ ~n.context
      /\ n.instantiated = m.instantiated /\ n.initialized = m.initialized
      /\ n.mode = m.mode /\ n.misused = m.misused
      /\ n.tmp = m.tmp /\ n.fmu = m.fmu /\ n.dll = m.dll
  BY <1>2 DEF Tidy, Adapters
<1> HIDE DEF n
<1> QED BY <1>3 DEF Tidy, n

\* Removing the directory.
LEMMA FreeTmp ==
  ASSUME NEW m, Tidy(m), m.tmp, ~m.dll, ~m.fmu, ~m.context
  PROVE  LET n == [Free(m, "tmp", {"dll", "xml"}) EXCEPT !.tmp = FALSE]
         IN  Tidy(n) /\ ~n.tmp /\ ~n.dll /\ ~n.fmu /\ ~n.context
<1>1. "tmp" \in m.live /\ m.live \cap {"dll", "xml"} = {} /\ m.mode = "none"
  BY DEF Tidy
<1>2. Free(m, "tmp", {"dll", "xml"}) = [m EXCEPT !.live = @ \ {"tmp"}]
  BY <1>1 DEF Free
<1> DEFINE n == [Free(m, "tmp", {"dll", "xml"}) EXCEPT !.tmp = FALSE]
<1>3. /\ n \in Adapters /\ n.live = m.live \ {"tmp"} /\ ~n.tmp
      /\ n.instantiated = m.instantiated /\ n.initialized = m.initialized
      /\ n.mode = m.mode /\ n.misused = m.misused
      /\ n.context = m.context /\ n.fmu = m.fmu /\ n.dll = m.dll
  BY ZenonT(60), <1>2 DEF Tidy, Adapters
<1> HIDE DEF n
<1> QED BY <1>3 DEF Tidy, n

\* However far a load got, fmu_model_unload gives back all of it.
LEMMA UnloadEmpties ==
  ASSUME NEW m, Tidy(m), m.dll => m.fmu
  PROVE  IsEmpty(fmu_model_unload(m))
<1> DEFINE noDll == IF m.fmu /\ m.dll
                    THEN [Free(m, "dll", {}) EXCEPT !.dll = FALSE] ELSE m
           noFmu == IF noDll.fmu
                    THEN [Free(noDll, "xml", {"dll"}) EXCEPT !.fmu = FALSE] ELSE noDll
           noContext == IF noFmu.context
                        THEN [Free(noFmu, "context", {"xml"}) EXCEPT !.context = FALSE]
                        ELSE noFmu
           noTmp == IF noContext.tmp
                    THEN [Free(noContext, "tmp", {"dll", "xml"}) EXCEPT !.tmp = FALSE]
                    ELSE noContext
           last == [noTmp EXCEPT !.name = NoFmu]
<1>1. ~m.instantiated
  BY DEF Tidy
<1>2. fmu_model_unload(m) = last
  BY <1>1 DEF fmu_model_unload
<1>3. Tidy(noDll) /\ ~noDll.dll
  BY FreeDll
<1> HIDE DEF noDll
<1>4. Tidy(noFmu) /\ ~noFmu.dll /\ ~noFmu.fmu
  BY <1>3, FreeXml
<1> HIDE DEF noFmu
<1>5. Tidy(noContext) /\ ~noContext.dll /\ ~noContext.fmu /\ ~noContext.context
  BY <1>4, FreeContext
<1> HIDE DEF noContext
<1>6. Tidy(noTmp) /\ ~noTmp.dll /\ ~noTmp.fmu /\ ~noTmp.context /\ ~noTmp.tmp
  BY <1>5, FreeTmp
<1> HIDE DEF noTmp
<1>7. noTmp.live = {} /\ noTmp \in Adapters
  BY <1>6 DEF Tidy, Adapters, Resources
<1>8. IsEmpty(last)
  BY <1>6, <1>7 DEF Tidy, IsEmpty, Is, Adapters
<1> QED BY <1>2, <1>8

\* fmu_model_load takes one resource after the other.
LEMMA CreateTmp ==
  ASSUME NEW m, Tidy(m), ~m.tmp
  PROVE  LET n == [Create(m, "tmp") EXCEPT !.tmp = TRUE]
         IN  /\ Tidy(n) /\ n.tmp
             /\ n.name = m.name /\ n.context = m.context /\ n.fmu = m.fmu /\ n.dll = m.dll
<1>1. Create(m, "tmp") = [m EXCEPT !.live = @ \cup {"tmp"}]
  BY DEF Create, Tidy
<1> DEFINE n == [Create(m, "tmp") EXCEPT !.tmp = TRUE]
<1>2. /\ n \in Adapters /\ n.live = m.live \cup {"tmp"} /\ n.tmp
      /\ n.instantiated = m.instantiated /\ n.initialized = m.initialized
      /\ n.mode = m.mode /\ n.misused = m.misused
      /\ n.name = m.name /\ n.context = m.context /\ n.fmu = m.fmu /\ n.dll = m.dll
  BY ZenonT(60), <1>1 DEF Tidy, Adapters, Resources
<1> HIDE DEF n
<1>3. Tidy(n)
  BY <1>2 DEF Tidy
<1> QED BY <1>2, <1>3 DEF n

\* Stages of fmu_model_load: the context,
LEMMA CreateContext ==
  ASSUME NEW m, Tidy(m), ~m.context
  PROVE  LET n == [Create(m, "context") EXCEPT !.context = TRUE]
         IN  /\ Tidy(n) /\ n.context
             /\ n.name = m.name /\ n.tmp = m.tmp /\ n.fmu = m.fmu /\ n.dll = m.dll
<1>1. Create(m, "context") = [m EXCEPT !.live = @ \cup {"context"}]
  BY DEF Create, Tidy
<1> DEFINE n == [Create(m, "context") EXCEPT !.context = TRUE]
<1>2. /\ n \in Adapters /\ n.live = m.live \cup {"context"} /\ n.context
      /\ n.instantiated = m.instantiated /\ n.initialized = m.initialized
      /\ n.mode = m.mode /\ n.misused = m.misused
      /\ n.name = m.name /\ n.tmp = m.tmp /\ n.fmu = m.fmu /\ n.dll = m.dll
  BY ZenonT(60), <1>1 DEF Tidy, Adapters, Resources
<1> HIDE DEF n
<1>3. Tidy(n)
  BY <1>2 DEF Tidy
<1> QED BY <1>2, <1>3 DEF n

\* the XML,
LEMMA CreateXml ==
  ASSUME NEW m, Tidy(m), ~m.fmu
  PROVE  LET n == [Create(m, "xml") EXCEPT !.fmu = TRUE]
         IN  /\ Tidy(n) /\ n.fmu
             /\ n.name = m.name /\ n.tmp = m.tmp /\ n.context = m.context /\ n.dll = m.dll
<1>1. Create(m, "xml") = [m EXCEPT !.live = @ \cup {"xml"}]
  BY DEF Create, Tidy
<1> DEFINE n == [Create(m, "xml") EXCEPT !.fmu = TRUE]
<1>2. /\ n \in Adapters /\ n.live = m.live \cup {"xml"} /\ n.fmu
      /\ n.instantiated = m.instantiated /\ n.initialized = m.initialized
      /\ n.mode = m.mode /\ n.misused = m.misused
      /\ n.name = m.name /\ n.tmp = m.tmp /\ n.context = m.context /\ n.dll = m.dll
  BY ZenonT(60), <1>1 DEF Tidy, Adapters, Resources
<1> HIDE DEF n
<1>3. Tidy(n)
  BY <1>2 DEF Tidy
<1> QED BY <1>2, <1>3 DEF n

\* and the library.
LEMMA CreateDll ==
  ASSUME NEW m, Tidy(m), ~m.dll
  PROVE  LET n == [Create(m, "dll") EXCEPT !.dll = TRUE]
         IN  /\ Tidy(n) /\ n.dll
             /\ n.name = m.name /\ n.tmp = m.tmp /\ n.context = m.context /\ n.fmu = m.fmu
<1>1. Create(m, "dll") = [m EXCEPT !.live = @ \cup {"dll"}]
  BY DEF Create, Tidy
<1> DEFINE n == [Create(m, "dll") EXCEPT !.dll = TRUE]
<1>2. /\ n \in Adapters /\ n.live = m.live \cup {"dll"} /\ n.dll
      /\ n.instantiated = m.instantiated /\ n.initialized = m.initialized
      /\ n.mode = m.mode /\ n.misused = m.misused
      /\ n.name = m.name /\ n.tmp = m.tmp /\ n.context = m.context /\ n.fmu = m.fmu
  BY <1>1 DEF Tidy, Adapters, Resources
<1> HIDE DEF n
<1>3. Tidy(n)
  BY <1>2 DEF Tidy
<1> QED BY <1>2, <1>3 DEF n

\* The two states between runs are tidy.
LEMMA IdleIsTidy ==
  ASSUME NEW m, IsEmpty(m) \/ IsLoaded(m)
  PROVE  Tidy(m) /\ (m.dll => m.fmu)
  BY DEF IsEmpty, IsLoaded, Is, Tidy, Resources

\* fmu_model_load: whatever fails, nothing is left; otherwise the FMU is loaded.
LEMMA LoadOutcomes ==
  ASSUME NEW m, IsEmpty(m) \/ IsLoaded(m), NEW f \in Names
  PROVE  /\ \A r \in fmu_model_load(m, f).failed : IsEmpty(r)
         /\ \A r \in fmu_model_load(m, f).loaded : IsLoaded(r) /\ r.name = f
<1> DEFINE empty == fmu_model_init(fmu_model_unload(m))
           extracted == [Create(empty, "tmp") EXCEPT !.tmp = TRUE]
           opened == [Create(extracted, "context") EXCEPT !.context = TRUE]
           parsed == [Create(opened, "xml") EXCEPT !.fmu = TRUE]
           named == [parsed EXCEPT !.name = f]
           bound == [Create(named, "dll") EXCEPT !.dll = TRUE]
<1>0. /\ fmu_model_load(m, f).failed
            = {empty, fmu_model_unload(extracted), fmu_model_unload(opened),
               fmu_model_unload(parsed), fmu_model_unload(named)}
      /\ fmu_model_load(m, f).loaded = {bound}
  BY Zenon DEF fmu_model_load
<1>1. IsEmpty(empty)
  <2> DEFINE u == fmu_model_unload(m)
  <2>1. IsEmpty(u)
    BY IdleIsTidy, UnloadEmpties
  <2> HIDE DEF u
  <2>2. IsEmpty(fmu_model_init(u))
    BY <2>1 DEF IsEmpty, Is, Adapters, fmu_model_init
  <2> QED BY <2>2 DEF u
<1>2. Tidy(empty) /\ ~empty.tmp /\ ~empty.context /\ ~empty.fmu /\ ~empty.dll
  BY <1>1 DEF IsEmpty, Is, Tidy
<1> HIDE DEF empty
<1>3. /\ Tidy(extracted) /\ extracted.tmp /\ ~extracted.context /\ ~extracted.fmu
      /\ ~extracted.dll
  BY <1>2, CreateTmp
<1>4. IsEmpty(fmu_model_unload(extracted))
  BY <1>3, UnloadEmpties
<1> HIDE DEF extracted
<1>5. Tidy(opened) /\ opened.tmp /\ opened.context /\ ~opened.fmu /\ ~opened.dll
  BY <1>3, CreateContext
<1>6. IsEmpty(fmu_model_unload(opened))
  BY <1>5, UnloadEmpties
<1> HIDE DEF opened
<1>7. Tidy(parsed) /\ parsed.tmp /\ parsed.context /\ parsed.fmu /\ ~parsed.dll
  BY <1>5, CreateXml
<1>8. IsEmpty(fmu_model_unload(parsed))
  BY <1>7, UnloadEmpties
<1> HIDE DEF parsed
<1>9. /\ Tidy(named) /\ named.tmp /\ named.context /\ named.fmu /\ ~named.dll
      /\ named.name = f
  BY <1>7 DEF Tidy, Adapters
<1>10. IsEmpty(fmu_model_unload(named))
  BY <1>9, UnloadEmpties
<1> HIDE DEF named
<1>11. /\ Tidy(bound) /\ bound.tmp /\ bound.context /\ bound.fmu /\ bound.dll
       /\ bound.name = f
  BY <1>9, CreateDll
<1> HIDE DEF bound
<1>12. bound.live = Resources
  BY <1>11 DEF Tidy, Adapters, Resources
<1>13. IsLoaded(bound)
  BY <1>11, <1>12 DEF IsLoaded, Is, Tidy, Adapters
<1> QED BY <1>0, <1>1, <1>4, <1>6, <1>8, <1>10, <1>11, <1>13

\* An adapter that has all it needs of an FMU.
Complete(m) ==
    /\ m \in Adapters /\ ~m.misused /\ m.name \in Names
    /\ m.tmp /\ m.context /\ m.fmu /\ m.dll /\ m.live = Resources

\* A loaded and a prepared adapter, as complete adapters in a mode.
LEMMA CompleteForms ==
  ASSUME NEW m
  PROVE  /\ IsLoaded(m) <=> Complete(m) /\ ~m.instantiated /\ ~m.initialized /\ m.mode = "none"
         /\ IsReady(m) <=> Complete(m) /\ m.instantiated /\ m.initialized /\ m.mode = "step"
         /\ IsStepped(m) <=> /\ Complete(m) /\ m.instantiated /\ m.initialized
                            /\ m.mode \in AfterStep
<1>1. IsLoaded(m) <=> Complete(m) /\ ~m.instantiated /\ ~m.initialized /\ m.mode = "none"
  BY DEF IsLoaded, Is, Complete, Adapters
<1>2. IsReady(m) <=> Complete(m) /\ m.instantiated /\ m.initialized /\ m.mode = "step"
  BY DEF IsReady, Is, Complete, Adapters
<1>3. IsStepped(m) <=> /\ Complete(m) /\ m.instantiated /\ m.initialized
                       /\ m.mode \in AfterStep
  BY DEF IsStepped, Is, Complete, Adapters
<1> QED BY <1>1, <1>2, <1>3

\* A call that is legal changes the mode and nothing else.
LEMMA LegalCall ==
  ASSUME NEW m, Complete(m), NEW call, NEW from, m.mode \in from, NEW to \in Modes
  PROVE  LET n == Call(m, call, from, to)
         IN  /\ Complete(n) /\ n.mode = to
             /\ n.instantiated = m.instantiated /\ n.initialized = m.initialized
<1>1. Call(m, call, from, to) = [m EXCEPT !.mode = to]
  BY DEF Call, Complete, Resources
<1> QED BY <1>1 DEF Complete, Adapters

\* A call on a broken instance leaves the adapter and the instance as they are.
LEMMA CallOnBroken ==
  ASSUME NEW m, Complete(m), NEW call, NEW from, NEW to, m.mode \notin from,
         <<call, m.mode>> \in OnBrokenInstance
  PROVE  LET n == Call(m, call, from, to)
         IN  /\ Complete(n) /\ n.mode = m.mode
             /\ n.instantiated = m.instantiated /\ n.initialized = m.initialized
<1>1. Call(m, call, from, to) = [m EXCEPT !.misused = @ \/ FALSE]
  BY DEF Call, Misuse
<1> HIDE DEF Complete
<1>2. [m EXCEPT !.misused = @ \/ FALSE] = [m EXCEPT !.misused = FALSE]
  BY DEF Complete
<1> QED BY <1>1, <1>2 DEF Complete, Adapters

\* A call that fails changes the mode at most.
LEMMA FailedCall ==
  ASSUME NEW m, Complete(m), NEW left \in SUBSET Modes, NEW n \in Failures(m, left)
  PROVE  /\ Complete(n) /\ n.mode \in left \cup {m.mode}
         /\ n.instantiated = m.instantiated /\ n.initialized = m.initialized
<1>1. CASE n = m
  BY <1>1
<1>2. ASSUME NEW o \in left, n = [m EXCEPT !.mode = o]
      PROVE  /\ Complete(n) /\ n.mode = o
             /\ n.instantiated = m.instantiated /\ n.initialized = m.initialized
  BY <1>2 DEF Complete, Adapters
<1> QED BY <1>1, <1>2 DEF Failures

\* fmi2_import_free_instance.
LEMMA ReleaseReleases ==
  ASSUME NEW m, Complete(m), m.mode \in Modes \ {"none"}
  PROVE  Complete(Release(m)) /\ Release(m).mode = "none"
<1> DEFINE called == IF m.mode \in Modes \ {"none", "fatal"} THEN m ELSE Misuse(m, "release")
<1>1. Complete(called)
  <2>1. CASE m.mode # "fatal"
    BY <2>1
  <2>2. CASE m.mode = "fatal"
    <3>1. called = Misuse(m, "release") /\ <<"release", m.mode>> \in OnBrokenInstance
      BY <2>2 DEF OnBrokenInstance
    <3>2. called = [m EXCEPT !.misused = FALSE]
      BY <3>1 DEF Misuse, Complete
    <3> QED BY <3>2 DEF Complete, Adapters
  <2> QED BY <2>1, <2>2
<1>2. Release(m) = [called EXCEPT !.mode = "none"]
  BY DEF Release
<1> HIDE DEF called
<1> QED BY <1>1, <1>2 DEF Complete, Adapters, Modes

\* fmu_model_terminate: an instance is freed in whatever mode it is, and is
\* terminated first if it was initialized.
LEMMA TerminateFrees ==
  ASSUME NEW m, Complete(m),
         m.instantiated => m.mode # "none",
         m.initialized => m.mode \in AfterStep,
         ~m.instantiated => m.mode = "none" /\ ~m.initialized
  PROVE  IsLoaded(fmu_model_terminate(m))
<1> DEFINE terminated == IF m.initialized THEN Terminate(m) ELSE m
           freed == Release(terminated)
           last == [freed EXCEPT !.instantiated = FALSE, !.initialized = FALSE]
<1>1. CASE ~m.instantiated
  <2>1. fmu_model_terminate(m) = m
    BY <1>1 DEF fmu_model_terminate
  <2> QED BY <1>1, <2>1, CompleteForms
<1>2. CASE m.instantiated
  <2>1. fmu_model_terminate(m) = last
    BY <1>2 DEF fmu_model_terminate, Complete
  <2>2. Complete(terminated) /\ terminated.mode \in Modes \ {"none"}
    <3>1. CASE m.initialized /\ m.mode \in {"step", "stepFailed"}
      BY <3>1, LegalCall DEF Modes, Terminate
    <3>2. CASE m.initialized /\ m.mode \in {"error", "fatal"}
      <4>1. <<"terminate", m.mode>> \in OnBrokenInstance
        BY <3>2 DEF OnBrokenInstance
      <4>2. m.mode \notin {"step", "stepFailed"} /\ m.mode \in Modes \ {"none"}
        BY <3>2 DEF Modes
      <4>3. Complete(Terminate(m)) /\ Terminate(m).mode = m.mode
        BY <4>1, <4>2, CallOnBroken DEF Terminate
      <4> QED BY <3>2, <4>2, <4>3
    <3>3. CASE ~m.initialized
      BY <1>2, <3>3 DEF Complete, Adapters
    <3> QED BY <3>1, <3>2, <3>3 DEF AfterStep
  <2> HIDE DEF terminated
  <2>3. Complete(freed) /\ freed.mode = "none"
    BY <2>2, ReleaseReleases
  <2> HIDE DEF freed
  <2>4. Complete(last) /\ last.mode = "none" /\ ~last.instantiated /\ ~last.initialized
    BY <2>3 DEF Complete, Adapters
  <2> HIDE DEF last
  <2> QED BY <2>1, <2>4, CompleteForms
<1> QED BY <1>1, <1>2

\* RtSimulationPrepare: an instance ready to step, or none.
LEMMA PrepareOutcomes ==
  ASSUME NEW m, IsEmpty(m) \/ IsLoaded(m)
  PROVE  /\ \A r \in RtSimulationPrepare(m).prepared : IsReady(r)
         /\ \A r \in RtSimulationPrepare(m).failed : IsEmpty(r) \/ IsLoaded(r)
<1>1. CASE IsEmpty(m)
  <2>1. ~m.fmu
    BY <1>1 DEF IsEmpty, Is
  <2>2. RtSimulationPrepare(m) = [failed |-> {m}, prepared |-> {}]
    BY <2>1 DEF RtSimulationPrepare
  <2> QED BY <1>1, <2>2
<1>2. CASE IsLoaded(m)
  <2> DEFINE called == Call(m, "instantiate", {"none"}, "instantiated")
             created == [called EXCEPT !.instantiated = TRUE]
             setup == Call(created, "setup", {"instantiated"}, "instantiated")
             entered == Call(setup, "enter", {"instantiated"}, "initialization")
             stepping == Call(entered, "exit", {"initialization"}, "step")
             ready == [stepping EXCEPT !.initialized = TRUE]
             resolved == Call(ready, "get", {"step"}, "step")
             broken(o) == [created EXCEPT !.mode = o]
             silenced == {Call(broken(o), "setup", {"instantiated"}, "instantiated") :
                             o \in Broken}
             stages == {created, setup, entered, resolved}
             results == {m} \cup silenced \cup UNION {Failures(y, Broken) : y \in stages}
  <2>1. Complete(m) /\ m.mode = "none" /\ ~m.instantiated /\ ~m.initialized
    BY <1>2, CompleteForms
  <2>2. RtSimulationPrepare(m)
          = [failed |-> {fmu_model_terminate(x) : x \in results}, prepared |-> {resolved}]
    BY <2>1 DEF RtSimulationPrepare, Complete
  <2>3. /\ Complete(called) /\ called.mode = "instantiated"
        /\ ~called.instantiated /\ ~called.initialized
    BY <2>1, LegalCall DEF Modes
  <2> HIDE DEF called
  <2>4. /\ Complete(created) /\ created.mode = "instantiated"
        /\ created.instantiated /\ ~created.initialized
    BY <2>3 DEF Complete, Adapters
  <2> HIDE DEF created
  <2>5. /\ Complete(setup) /\ setup.mode = "instantiated"
        /\ setup.instantiated /\ ~setup.initialized
    BY <2>4, LegalCall DEF Modes
  <2> HIDE DEF setup
  <2>6. /\ Complete(entered) /\ entered.mode = "initialization"
        /\ entered.instantiated /\ ~entered.initialized
    BY <2>5, LegalCall DEF Modes
  <2> HIDE DEF entered
  <2>7. /\ Complete(stepping) /\ stepping.mode = "step"
        /\ stepping.instantiated /\ ~stepping.initialized
    BY <2>6, LegalCall DEF Modes
  <2> HIDE DEF stepping
  <2>8. Complete(ready) /\ ready.mode = "step" /\ ready.instantiated /\ ready.initialized
    BY <2>7 DEF Complete, Adapters
  <2> HIDE DEF ready
  <2>9. /\ Complete(resolved) /\ resolved.mode = "step"
        /\ resolved.instantiated /\ resolved.initialized
    BY <2>8, LegalCall DEF Modes
  <2> HIDE DEF resolved
  <2>10. IsReady(resolved)
    BY <2>9, CompleteForms
  <2> DEFINE Ended(x) == /\ Complete(x)
                         /\ x.instantiated => x.mode # "none"
                         /\ x.initialized => x.mode \in AfterStep
                         /\ ~x.instantiated => x.mode = "none" /\ ~x.initialized
  <2>11. ASSUME NEW o \in Broken
         PROVE  Ended(Call(broken(o), "setup", {"instantiated"}, "instantiated"))
    <3>1. /\ Complete(broken(o)) /\ broken(o).mode = o
          /\ broken(o).instantiated /\ ~broken(o).initialized
      BY <2>4, <2>11 DEF Complete, Adapters, Broken, Modes
    <3>2. <<"setup", o>> \in OnBrokenInstance /\ o \notin {"instantiated"} /\ o # "none"
      BY <2>11 DEF Broken, OnBrokenInstance
    <3> HIDE DEF broken
    <3> QED BY <3>1, <3>2, CallOnBroken
  <2>12. ASSUME NEW y \in stages, NEW x \in Failures(y, Broken)
         PROVE  Ended(x)
    <3>1. /\ Complete(y) /\ y.instantiated /\ y.mode # "none"
          /\ y.initialized => y.mode = "step"
      BY <2>4, <2>5, <2>6, <2>9
    <3>2. Broken \in SUBSET Modes
      BY DEF Broken, Modes
    <3>3. /\ Complete(x) /\ x.mode \in Broken \cup {y.mode}
          /\ x.instantiated = y.instantiated /\ x.initialized = y.initialized
      BY <3>1, <3>2, FailedCall
    <3> QED BY <3>1, <3>3 DEF Broken, AfterStep
  <2>13. Ended(m)
    BY <2>1
  <2>14. ASSUME NEW x \in results
         PROVE  IsLoaded(fmu_model_terminate(x))
    <3> HIDE DEF broken, stages
    <3>1. Ended(x)
      <4> HIDE DEF Ended
      <4> QED BY <2>11, <2>12, <2>13
    <3> QED BY <3>1, TerminateFrees
  <2> HIDE DEF results
  <2> QED BY <2>2, <2>10, <2>14
<1> QED BY <1>1, <1>2

\* A communication step, done or failed, and the end of the instance.
LEMMA ReadyOutcomes ==
  ASSUME NEW m, IsReady(m)
  PROVE  /\ \A r \in fmu_model_step(m).done : IsReady(r)
         /\ \A r \in fmu_model_step(m).failed : IsStepped(r)
         /\ IsStepped(m)
<1> DEFINE n == Call(m, "step", {"step"}, "step")
           left == Broken \cup {"stepFailed"}
<1>1. Complete(m) /\ m.instantiated /\ m.initialized /\ m.mode = "step"
  BY CompleteForms
<1>2. Complete(n) /\ n.mode = "step" /\ n.instantiated /\ n.initialized
  BY <1>1, LegalCall DEF Modes
<1>3. fmu_model_step(m) = [done |-> {n}, failed |-> Failures(n, left)]
  BY DEF fmu_model_step
<1> HIDE DEF n
<1>4. IsReady(n)
  BY <1>2, CompleteForms
<1>5. ASSUME NEW r \in Failures(n, left) PROVE IsStepped(r)
  <2>1. left \in SUBSET Modes
    BY DEF Broken, Modes
  <2> HIDE DEF left
  <2>2. /\ Complete(r) /\ r.mode \in left \cup {"step"} /\ r.instantiated /\ r.initialized
    BY <1>2, <2>1, FailedCall
  <2>3. r.mode \in AfterStep
    BY <2>2 DEF left, Broken, AfterStep
  <2> QED BY <2>2, <2>3, CompleteForms
<1>6. IsStepped(m)
  BY <1>1, CompleteForms DEF AfterStep
<1> HIDE DEF left
<1> QED BY <1>3, <1>4, <1>5, <1>6

\* The end of an instance.
LEMMA SteppedEnds ==
  ASSUME NEW m, IsStepped(m)
  PROVE  IsLoaded(fmu_model_terminate(m))
<1>1. Complete(m) /\ m.instantiated /\ m.initialized /\ m.mode \in AfterStep
  BY CompleteForms
<1>2. m.mode # "none"
  BY <1>1 DEF AfterStep
<1> QED BY <1>1, <1>2, TerminateFrees

-----------------------------------------------------------------------------
(* ModelInv.                                                                 *)

\* Nothing that ModelInv is about changes.
LEMMA ModelKept ==
  ASSUME ModelInv, UNCHANGED <<pc, simPc, model>>
  PROVE  ModelInv'
  BY DEF ModelInv, HasInstance

\* Every step keeps the adapter where the runner believes it is.
LEMMA ModelStep == ModelInv /\ [Next]_vars => ModelInv'
<1> SUFFICES ASSUME ModelInv, [Next]_vars
             PROVE  ModelInv'
  OBVIOUS
<1>1. ASSUME pc = "menu" PROVE simPc = "none" /\ (IsEmpty(model) \/ IsLoaded(model))
  BY <1>1 DEF ModelInv, HasInstance
<1>2. ASSUME NEW m, IsReady(m) PROVE IsStepped(m)
  BY <1>2, ReadyOutcomes
<1>3. CASE load_fmu_menu
  <2>1. pc = "menu" /\ pc' = "menu" /\ simPc' = simPc
    BY <1>3 DEF load_fmu_menu, LoadFmu, Idle
  <2>2. IsEmpty(model') \/ IsLoaded(model')
    BY <1>1, <1>3, <2>1, LoadOutcomes DEF load_fmu_menu, LoadFmu, Names
  <2> QED BY <1>1, <2>1, <2>2 DEF ModelInv, HasInstance
<1>4. CASE select_outputs
  BY <1>4, ModelKept DEF select_outputs, Idle
<1>5. CASE load_profile_menu
  BY <1>5, ModelKept DEF load_profile_menu, Idle
<1>6. CASE configure_timing
  BY <1>6, ModelKept DEF configure_timing, Idle
<1>7. CASE ConvertClosedLog
  BY <1>7, ModelKept DEF ConvertClosedLog
<1>8. CASE Begin
  <2>1. pc = "menu" /\ pc' = "prepare" /\ simPc' = simPc /\ model' = model
    BY <1>8 DEF Begin, PassChecks
  <2> QED BY <1>1, <2>1 DEF ModelInv, HasInstance
<1>9. CASE Exit
  <2>1. pc = "menu" /\ pc' = "exited" /\ simPc' = simPc /\ model' = fmu_model_unload(model)
    BY <1>9 DEF Exit
  <2>2. IsEmpty(model')
    BY <1>1, <2>1, IdleIsTidy, UnloadEmpties
  <2> QED BY <1>1, <2>1, <2>2 DEF ModelInv, HasInstance
<1>10. CASE Prepare
  <2>1. /\ pc = "prepare" /\ simPc = "none" /\ simPc' = "none"
        /\ IsEmpty(model) \/ IsLoaded(model)
    BY <1>10 DEF Prepare, ModelInv, HasInstance
  <2>2. \/ pc' \in {"daqc", "log"} /\ IsReady(model')
        \/ pc' = "menu" /\ (IsEmpty(model') \/ IsLoaded(model'))
    BY <1>10, <2>1, PrepareOutcomes DEF Prepare, Return
  <2> QED BY <1>2, <2>1, <2>2 DEF ModelInv, HasInstance
<1>11. CASE StartDaqc
  <2>1. /\ pc = "daqc" /\ simPc = "none" /\ simPc' = "none"
        /\ IsReady(model) /\ IsStepped(model)
    BY <1>11 DEF StartDaqc, ModelInv, HasInstance
  <2>2. \/ pc' = "log" /\ model' = model
        \/ pc' = "menu" /\ model' = fmu_model_terminate(model)
    BY <1>11 DEF StartDaqc, Return
  <2> QED BY <2>1, <2>2, SteppedEnds DEF ModelInv, HasInstance
<1>12. CASE StartLogging
  BY <1>12 DEF StartLogging, ModelInv, HasInstance
<1>13. CASE StartPlotter
  BY <1>13 DEF StartPlotter, ModelInv, HasInstance
<1>14. CASE Start
  BY <1>14 DEF Start, ModelInv, HasInstance
<1>15. CASE StartFails
  <2>1. /\ pc = "start" /\ pc' = "abandon" /\ simPc = "none" /\ simPc' = "none"
        /\ IsStepped(model) /\ model' = fmu_model_terminate(model)
    BY <1>15 DEF StartFails, ModelInv, HasInstance
  <2> QED BY <2>1, SteppedEnds DEF ModelInv, HasInstance
<1>16. CASE Abandon
  BY <1>16 DEF Abandon, Return, ModelInv, HasInstance
<1>17. CASE Join
  BY <1>17 DEF Join, ModelInv, HasInstance
<1>18. CASE StopDaqc
  BY <1>18 DEF StopDaqc, ModelInv, HasInstance
<1>19. CASE JoinPlotter
  BY <1>19 DEF JoinPlotter, Return, ModelInv, HasInstance
<1>20. CASE Signal
  BY <1>20, ModelKept DEF Signal
<1>21. CASE SimStep
  <2>1. /\ simPc = "loop" /\ pc' = pc /\ pc = "join"
        /\ IsReady(model)
        /\ \/ model' \in fmu_model_step(model).done /\ simPc' \in {"loop", "push"}
           \/ model' \in fmu_model_step(model).failed /\ simPc' = "release"
    BY <1>21 DEF SimStep, SimOnly, ModelInv, HasInstance
  <2>2. \/ IsReady(model') /\ simPc' \in {"loop", "push"}
        \/ IsStepped(model') /\ simPc' = "release"
    BY <2>1, ReadyOutcomes
  <2> QED BY <1>2, <2>1, <2>2 DEF ModelInv, HasInstance
<1>22. CASE PushCheck
  BY <1>22 DEF PushCheck, SimOnly, ModelInv, HasInstance
<1>23. CASE PushPublish
  BY <1>23 DEF PushPublish, SimOnly, ModelInv, HasInstance
<1>24. CASE SimLeave
  BY <1>24 DEF SimLeave, SimOnly, ModelInv, HasInstance
<1>25. CASE ReleasePreparedSimulation
  <2>1. /\ simPc = "release" /\ simPc' = "done" /\ pc' = pc /\ pc = "join"
        /\ IsStepped(model) /\ model' = fmu_model_terminate(model)
    BY <1>25 DEF ReleasePreparedSimulation, SimOnly, ModelInv, HasInstance
  <2> QED BY <2>1, SteppedEnds DEF ModelInv, HasInstance
<1>26. CASE SimDone
  BY <1>26 DEF SimDone, Exits, SimOnly, ModelInv, HasInstance
<1>27. CASE Plot
  BY <1>27, ModelKept
     DEF Plot, PlotOpen, PopCheck, PopTake, PlotFlag, ReadFlag, PlotLastLook, PlotOnly
<1>28. CASE UNCHANGED vars
  BY <1>28, ModelKept DEF vars
<1> QED
  BY <1>3, <1>4, <1>5, <1>6, <1>7, <1>8, <1>9, <1>10, <1>11, <1>12, <1>13, <1>14, <1>15,
     <1>16, <1>17, <1>18, <1>19, <1>20, <1>21, <1>22, <1>23, <1>24, <1>25, <1>26, <1>27,
     <1>28 DEF Next, Menu, Run, Sim

\* The adapter and the library are in the state the place of the runner and of
\* the simulation thread says.
THEOREM ConsoleModel == Spec => []ModelInv
<1>1. Init => ModelInv
  <2> SUFFICES ASSUME Init PROVE ModelInv
    OBVIOUS
  <2>1. pc = "menu" /\ simPc = "none" /\ model = NewModel
    BY DEF Init
  <2>2. IsEmpty(NewModel)
    BY DEF IsEmpty, Is, Adapters, NewModel, Resources, Modes
  <2> QED BY <2>1, <2>2 DEF ModelInv, HasInstance
<1> QED BY <1>1, ModelStep, PTL DEF Spec

\* fmu_model.c and its callers: no call of the FMI library out of order but for
\* those on an instance that answered with an error (OnBrokenInstance), no
\* instance outlives its run, nothing is left when the runner ends; for every
\* set of FMUs and profiles and however a load, a preparation, a step or a start
\* fails.
THEOREM ConsoleFmuLifecycle == Spec => []FmuLifecycle
<1>1. ModelInv => FmuLifecycle
  BY DEF ModelInv, HasInstance, FmuLifecycle, IsEmpty, IsLoaded, IsReady, IsStepped, Is
<1> QED BY <1>1, ConsoleModel, PTL

-----------------------------------------------------------------------------
(* LogInv.                                                                   *)

\* Steps that touch neither the logs nor the runner.
LEMMA LogKept ==
  ASSUME LogInv, UNCHANGED <<pc, log, runs>>
  PROVE  LogInv'
  BY DEF LogInv, LastRunsWhole, log

\* The log a run finishes with is whole only if it is the run's own.
LEMMA FinishedLog ==
  ASSUME LogInv, FinishLogging, UNCHANGED runs
  PROVE  logging' = "complete" => LastRunsWhole(logFile)'
  BY DEF LogInv, FinishLogging, Written, LastRunsWhole

\* Every step keeps what is known of the logs.
LEMMA LogStep == LogInv /\ [Next]_vars => LogInv'
<1> SUFFICES ASSUME LogInv, [Next]_vars
             PROVE  LogInv'
  OBVIOUS
<1>1. CASE load_fmu_menu \/ select_outputs \/ load_profile_menu \/ configure_timing
  BY <1>1, LogKept
     DEF load_fmu_menu, LoadFmu, select_outputs, load_profile_menu, configure_timing, Idle
<1>2. CASE ConvertClosedLog
  <2>1. csv' = csv \/ csv' = logFile
    BY <1>2 DEF ConvertClosedLog
  <2>2. lastLogClosed /\ UNCHANGED <<pc, logging, logFile, lastLogClosed, runs>>
    BY <1>2 DEF ConvertClosedLog
  <2> QED BY <2>1, <2>2 DEF LogInv, LastRunsWhole
<1>3. CASE Begin
  <2>1. /\ pc = "menu" /\ pc' = "prepare" /\ csv' = NoLog /\ lastLogClosed' = FALSE
        /\ logging' = logging
    BY <1>3 DEF Begin, PassChecks
  <2> QED BY <2>1 DEF LogInv
<1>4. CASE Exit
  BY <1>4 DEF Exit, LogInv, LastRunsWhole, log
<1>5. CASE Prepare
  BY <1>5 DEF Prepare, Return, LogInv, LastRunsWhole, log
<1>6. CASE StartDaqc
  BY <1>6 DEF StartDaqc, Return, LogInv, LastRunsWhole, log
<1>7. CASE StartLogging
  <2>1. /\ pc = "log" /\ pc' = "plot" /\ logging' # "complete"
        /\ UNCHANGED <<lastLogClosed, csv, runs>>
    BY <1>7 DEF StartLogging, LogInv
  <2> QED BY <2>1 DEF LogInv, LastRunsWhole
<1>8. CASE StartPlotter
  BY <1>8 DEF StartPlotter, LogInv, LastRunsWhole, log
<1>9. CASE Start
  BY <1>9 DEF Start, LogInv, LastRunsWhole, log
<1>10. CASE StartFails
  <2>1. /\ pc = "start" /\ pc' = "abandon" /\ FinishLogging
        /\ UNCHANGED <<lastLogClosed, csv, runs>>
    BY <1>10 DEF StartFails
  <2> QED BY <2>1, FinishedLog DEF LogInv, LastRunsWhole
<1>11. CASE Abandon
  <2>1. /\ pc = "abandon" /\ pc' = "menu" /\ logging' = "off"
        /\ UNCHANGED <<logFile, lastLogClosed, csv, runs>>
    BY <1>11 DEF Abandon, Return
  <2> QED BY <2>1 DEF LogInv, LastRunsWhole
<1>12. CASE Join
  <2>1. /\ pc = "join" /\ pc' = "stopDaqc" /\ FinishLogging
        /\ UNCHANGED <<lastLogClosed, csv, runs>>
    BY <1>12 DEF Join
  <2> QED BY <2>1, FinishedLog DEF LogInv, LastRunsWhole
<1>13. CASE StopDaqc
  BY <1>13 DEF StopDaqc, LogInv, LastRunsWhole, log
<1>14. CASE JoinPlotter
  <2>1. /\ pc' = "menu" /\ logging' = "off" /\ lastLogClosed' = (logging = "complete")
        /\ UNCHANGED <<logFile, csv, runs>>
    BY <1>14 DEF JoinPlotter, Return
  <2> QED BY <2>1 DEF LogInv, LastRunsWhole
<1>15. CASE Signal
  BY <1>15, LogKept DEF Signal
<1>16. CASE Sim
  BY <1>16, LogKept DEF Sim, SimStep, PushCheck, PushPublish, SimLeave,
                        ReleasePreparedSimulation, SimDone, Exits, SimOnly
<1>17. CASE Plot
  BY <1>17, LogKept
     DEF Plot, PlotOpen, PopCheck, PopTake, PlotFlag, ReadFlag, PlotLastLook, PlotOnly
<1>18. CASE UNCHANGED vars
  BY <1>18, LogKept DEF vars
<1> QED
  BY <1>1, <1>2, <1>3, <1>4, <1>5, <1>6, <1>7, <1>8, <1>9, <1>10, <1>11, <1>12, <1>13,
     <1>14, <1>15, <1>16, <1>17, <1>18 DEF Next, Menu, Run

\* ConvertClosedLog: a CSV is the whole log of the latest run, whatever was
\* run, abandoned, configured and converted before.
THEOREM ConsoleCsvIsOfLastRun == Spec => []CsvIsOfLastRun
<1>1. Init => LogInv
  BY DEF Init, LogInv
<1>2. LogInv => CsvIsOfLastRun
  BY DEF LogInv, LastRunsWhole, CsvIsOfLastRun
<1> QED BY <1>1, <1>2, LogStep, PTL DEF Spec

-----------------------------------------------------------------------------
(* The ring.                                                                 *)

\* The index arithmetic of the queue, inside the ring.
LEMMA RingArithmetic ==
  ASSUME NEW h \in Slots, NEW t \in Slots
  PROVE  /\ (h + 1) % Capacity = IF h = Capacity - 1 THEN 0 ELSE h + 1
         /\ (h + 1) % Capacity \in Slots
         /\ (h - t + Capacity) % Capacity = IF h >= t THEN h - t ELSE h - t + Capacity
         /\ \A k \in 0..(Capacity - 1) : (t + k) % Capacity = At(t + k) /\ At(t + k) \in Slots
<1>0. Capacity \in Nat \ {0, 1}
  BY ConsoleAssumption
<1>1. (h + 1) % Capacity = IF h = Capacity - 1 THEN 0 ELSE h + 1
  BY <1>0 DEF Slots
<1>2. (h - t + Capacity) % Capacity = IF h >= t THEN h - t ELSE h - t + Capacity
  BY <1>0 DEF Slots
<1>3. ASSUME NEW k \in 0..(Capacity - 1)
      PROVE  (t + k) % Capacity = At(t + k) /\ At(t + k) \in Slots
  BY <1>0 DEF Slots, At
<1>4. (h + 1) % Capacity \in Slots
  BY <1>0, <1>1 DEF Slots
<1> QED BY <1>1, <1>2, <1>3, <1>4

\* The samples accepted are the ones taken and the ones in the ring.
LEMMA RingIsQueued ==
  ASSUME RingInv
  PROVE  accepted = taken \o Queued
<1>0. Capacity \in Nat \ {0, 1}
  BY ConsoleAssumption
<1>1. head \in Slots /\ tail \in Slots
  BY DEF RingInv
<1>2. (head - tail + Capacity) % Capacity = Dist /\ Dist \in 0..(Capacity - 1)
  BY <1>0, <1>1, RingArithmetic DEF Dist, Slots
<1>3. ASSUME NEW i \in 1..Dist
      PROVE  /\ (tail + i - 1) % Capacity = At(tail + i - 1)
             /\ At(tail + i - 1) \in Slots
  <2>1. i - 1 \in 0..(Capacity - 1) /\ tail + (i - 1) = tail + i - 1
    BY <1>0, <1>1, <1>2 DEF Slots
  <2> QED BY <1>1, <2>1, RingArithmetic
<1>4. Queued = [i \in 1..Dist |-> slots[At(tail + i - 1)]]
  BY <1>2, <1>3 DEF Queued
<1>5. Queued \in Seq(Nat) /\ Len(Queued) = Dist
  BY <1>2, <1>3, <1>4 DEF RingInv
<1> DEFINE q == Queued
<1>6. \A i \in 1..Dist : q[i] = slots[At(tail + i - 1)]
  BY <1>4
<1>7. q \in Seq(Nat) /\ Len(q) = Dist
  BY <1>5
<1> HIDE DEF q
<1>8. /\ taken \o q \in Seq(Nat) /\ Len(taken \o q) = Len(taken) + Dist
      /\ \A i \in 1..(Len(taken) + Dist) :
            (taken \o q)[i] = IF i <= Len(taken) THEN taken[i] ELSE q[i - Len(taken)]
  BY <1>7, ConcatProperties DEF RingInv
<1>9. ASSUME NEW i \in 1..Len(accepted)
      PROVE  accepted[i] = (taken \o q)[i]
  <2>0. Len(taken) \in Nat /\ Dist \in Nat /\ i \in 1..(Len(taken) + Dist)
    BY <1>2 DEF RingInv
  <2>1. CASE i <= Len(taken)
    BY SMTT(40), <1>8, <2>0, <2>1 DEF RingInv
  <2>2. CASE i > Len(taken)
    <3>1. i - Len(taken) \in 1..Dist /\ i = Len(taken) + (i - Len(taken))
      BY <2>0, <2>2
    <3>2. accepted[i] = slots[At(tail + (i - Len(taken)) - 1)]
      BY <3>1 DEF RingInv
    <3> QED BY <1>6, <1>8, <2>0, <2>2, <3>1, <3>2
  <2>3. \A n \in Nat : i <= n \/ i > n
    OBVIOUS
  <2> QED BY <2>0, <2>1, <2>2, <2>3
<1>10. accepted = taken \o q
  BY <1>8, <1>9, SeqEqual DEF RingInv
<1> QED BY <1>10 DEF q

\* sample_queue_push, published.
LEMMA PushKeepsRing ==
  ASSUME RingInv, PushPublish
  PROVE  RingInv'
<1>0. Capacity \in Nat \ {0, 1}
  BY ConsoleAssumption
<1>1. /\ head \in Slots /\ tail \in Slots /\ slots \in [Slots -> Nat] /\ steps \in Nat
      /\ accepted \in Seq(Nat) /\ taken \in Seq(Nat)
      /\ Len(accepted) = Len(taken) + Dist /\ Dist < Capacity - 1 /\ Dist \in Nat
  BY <1>0 DEF RingInv, PushPublish, Dist, Slots
<1>2. /\ head' = (IF head = Capacity - 1 THEN 0 ELSE head + 1) /\ head' \in Slots
  BY <1>1, RingArithmetic DEF PushPublish
<1>3. /\ slots' = [slots EXCEPT ![head] = steps + 1] /\ accepted' = Append(accepted, steps + 1)
      /\ steps' = steps + 1 /\ simPc' = "loop"
      /\ UNCHANGED <<tail, taken, plotPc>>
  BY DEF PushPublish, SimOnly, plotter
<1>4. Dist' = Dist + 1
  BY <1>0, <1>1, <1>2, <1>3 DEF Dist, Slots
<1>5. /\ accepted' \in Seq(Nat) /\ Len(accepted') = Len(taken) + Dist + 1
      /\ \A i \in 1..(Len(taken) + Dist) : accepted'[i] = accepted[i]
      /\ accepted'[Len(taken) + Dist + 1] = steps + 1
  BY <1>1, <1>3, AppendProperties
<1>6. \A i \in 1..Len(taken') : accepted'[i] = taken'[i]
  <2> SUFFICES ASSUME NEW i \in 1..Len(taken) PROVE accepted'[i] = taken[i]
    BY <1>3
  <2>1. i \in 1..(Len(taken) + Dist)
    BY <1>1
  <2> QED BY <1>5, <2>1 DEF RingInv
<1>7. \A i \in 1..Dist' : accepted'[Len(taken') + i] = slots'[At(tail' + i - 1)]
  <2> SUFFICES ASSUME NEW i \in 1..(Dist + 1)
               PROVE  accepted'[Len(taken) + i] = slots'[At(tail + i - 1)]
    BY <1>3, <1>4
  <2>1. CASE i = Dist + 1
    <3>1. At(tail + i - 1) = head
      BY <1>0, <1>1, <2>1 DEF At, Dist, Slots
    <3>2. Len(taken) + i = Len(taken) + Dist + 1
      BY <1>1, <2>1
    <3> QED BY <1>1, <1>3, <1>5, <3>1, <3>2
  <2>2. CASE i \in 1..Dist
    <3>1. At(tail + i - 1) # head /\ At(tail + i - 1) \in Slots
      BY <1>0, <1>1, <2>2 DEF At, Dist, Slots
    <3>2. slots'[At(tail + i - 1)] = slots[At(tail + i - 1)]
      BY <1>1, <1>3, <3>1
    <3>3. Len(taken) + i \in 1..(Len(taken) + Dist)
      BY <1>1, <2>2
    <3>4. accepted'[Len(taken) + i] = accepted[Len(taken) + i]
      BY <1>5, <3>3
    <3> QED BY <2>2, <3>2, <3>4 DEF RingInv
  <2> QED BY <1>1, <2>1, <2>2
<1>8. plotPc' \in {"copy", "recopy"} => Dist' > 0
  BY <1>1, <1>4
<1>9. slots' \in [Slots -> Nat] /\ steps' \in Nat /\ tail' \in Slots
  BY <1>1, <1>3
<1>10. Len(accepted') = Len(taken') + Dist' /\ taken' \in Seq(Nat)
  BY <1>1, <1>3, <1>4, <1>5
<1> QED BY <1>2, <1>3, <1>5, <1>6, <1>7, <1>8, <1>9, <1>10 DEF RingInv

\* sample_queue_pop, published.
LEMMA PopKeepsRing ==
  ASSUME RingInv, PopTake
  PROVE  RingInv' /\ slots[tail] \in Nat /\ taken' = Append(taken, slots[tail])
<1>0. Capacity \in Nat \ {0, 1}
  BY ConsoleAssumption
<1>1. /\ head \in Slots /\ tail \in Slots /\ slots \in [Slots -> Nat] /\ steps \in Nat
      /\ accepted \in Seq(Nat) /\ taken \in Seq(Nat)
      /\ Len(accepted) = Len(taken) + Dist /\ Dist > 0 /\ Dist \in 0..(Capacity - 1)
  BY <1>0 DEF RingInv, PopTake, PlotSteps, Dist, Slots
<1>2. /\ tail' = (IF tail = Capacity - 1 THEN 0 ELSE tail + 1) /\ tail' \in Slots
  BY <1>1, RingArithmetic DEF PopTake
<1>3. /\ taken' = Append(taken, slots[tail]) /\ plotPc' = "pop"
      /\ UNCHANGED <<head, slots, accepted, simPc, steps>>
  BY DEF PopTake, PlotSteps, PlotOnly
<1>4. Dist' = Dist - 1
  BY <1>0, <1>1, <1>2, <1>3 DEF Dist, Slots
<1>5. slots[tail] \in Nat
  BY <1>1
<1>6. /\ taken' \in Seq(Nat) /\ Len(taken') = Len(taken) + 1
      /\ \A i \in 1..Len(taken) : taken'[i] = taken[i]
      /\ taken'[Len(taken) + 1] = slots[tail]
  BY <1>1, <1>3, <1>5, AppendProperties
<1>7. accepted[Len(taken) + 1] = slots[tail]
  <2>1. 1 \in 1..Dist /\ At(tail + 1 - 1) = tail
    BY <1>0, <1>1 DEF At, Slots
  <2> QED BY <2>1 DEF RingInv
<1>8. \A i \in 1..Len(taken') : accepted'[i] = taken'[i]
  <2> SUFFICES ASSUME NEW i \in 1..(Len(taken) + 1) PROVE accepted[i] = taken'[i]
    BY <1>3, <1>6
  <2>1. CASE i \in 1..Len(taken)
    BY <1>6, <2>1 DEF RingInv
  <2>2. CASE i = Len(taken) + 1
    BY <1>6, <1>7, <2>2
  <2>3. \A n \in Nat : \A j \in 1..(n + 1) : j \in 1..n \/ j = n + 1
    OBVIOUS
  <2>4. Len(taken) \in Nat
    BY <1>1
  <2> QED BY <2>1, <2>2, <2>3, <2>4
<1>9. \A i \in 1..Dist' : accepted'[Len(taken') + i] = slots'[At(tail' + i - 1)]
  <2> SUFFICES ASSUME NEW i \in 1..(Dist - 1)
               PROVE  accepted[Len(taken) + 1 + i] = slots[At(tail' + i - 1)]
    BY <1>3, <1>4, <1>6
  <2>1. At(tail' + i - 1) = At(tail + (i + 1) - 1)
    BY <1>0, <1>1, <1>2 DEF At, Slots
  <2>2. i + 1 \in 1..Dist /\ Len(taken) + 1 + i = Len(taken) + (i + 1)
    BY <1>1
  <2> QED BY <2>1, <2>2 DEF RingInv
<1>10. simPc' = "write" => Dist' < Capacity - 1
  BY <1>0, <1>1, <1>4
<1>11. Len(accepted') = Len(taken') + Dist'
  <2>1. \A n, d \in Nat : n + d = n + 1 + (d - 1)
    OBVIOUS
  <2>2. Len(taken) \in Nat /\ Dist \in Nat
    BY <1>1
  <2> QED BY <1>1, <1>3, <1>4, <1>6, <2>1, <2>2
<1>12. /\ head' \in Slots /\ tail' \in Slots /\ slots' \in [Slots -> Nat] /\ steps' \in Nat
       /\ accepted' \in Seq(Nat)
  BY <1>1, <1>2, <1>3
<1> QED BY <1>3, <1>5, <1>6, <1>8, <1>9, <1>10, <1>11, <1>12 DEF RingInv

-----------------------------------------------------------------------------
(* The history of the plotter.                                               *)

\* A set of natural numbers that is not empty has a least one.
LEMMA LeastNatural ==
  ASSUME NEW T, T \subseteq Nat, T # {}
  PROVE  \E x \in T : \A y \in T : x <= y
<1> DEFINE R == OpToRel(<, Nat)
<1>1. IsWellFoundedOn(R, Nat)
  BY NatLessThanWellFounded
<1>2. \A x, y \in Nat : y < x => <<y, x>> \in R
  BY DEF OpToRel
<1> HIDE DEF R
<1>3. PICK x \in T : \A y \in T : ~ (<<y, x>> \in R)
  BY <1>1, WFMin
<1>4. ASSUME NEW y \in T PROVE x <= y
  <2>1. x \in Nat /\ y \in Nat /\ ~(<<y, x>> \in R)
    BY <1>3
  <2>2. ~(y < x)
    BY <1>2, <2>1
  <2> QED BY <2>1, <2>2
<1> QED BY <1>4

\* An end of an end, and of a longer sequence.
LEMMA EndTrans ==
  ASSUME NEW s \in Seq(Nat), NEW t \in Seq(Nat), NEW u \in Seq(Nat),
         EndOf(s, t), EndOf(t, u)
  PROVE  EndOf(s, u)
<1>1. Len(s) \in Nat /\ Len(t) \in Nat /\ Len(u) \in Nat /\ Len(s) <= Len(t) /\ Len(t) <= Len(u)
  BY DEF EndOf
<1>2. ASSUME NEW i \in 1..Len(s)
      PROVE  s[i] = u[Len(u) - Len(s) + i]
  <2> DEFINE j == Len(t) - Len(s) + i
  <2>1. j \in 1..Len(t) /\ Len(u) - Len(t) + j = Len(u) - Len(s) + i
    BY <1>1
  <2>2. s[i] = t[j]
    BY DEF EndOf
  <2> HIDE DEF j
  <2>3. t[j] = u[Len(u) - Len(t) + j]
    BY <2>1 DEF EndOf
  <2> QED BY <2>1, <2>2, <2>3
<1>3. Len(s) <= Len(u)
  BY <1>1
<1> QED BY <1>2, <1>3 DEF EndOf

\* The end of a sequence that has grown by one.
LEMMA EndAppend ==
  ASSUME NEW s \in Seq(Nat), NEW t \in Seq(Nat), NEW x \in Nat, EndOf(s, t)
  PROVE  EndOf(Append(s, x), Append(t, x))
<1> DEFINE S == Append(s, x)
           T == Append(t, x)
<1>1. /\ Len(S) = Len(s) + 1 /\ \A i \in 1..Len(s) : S[i] = s[i]
      /\ S[Len(s) + 1] = x
  BY AppendProperties
<1>2. /\ Len(T) = Len(t) + 1 /\ \A i \in 1..Len(t) : T[i] = t[i]
      /\ T[Len(t) + 1] = x
  BY AppendProperties
<1> HIDE DEF S, T
<1>3. Len(s) \in Nat /\ Len(t) \in Nat /\ Len(s) <= Len(t)
  BY DEF EndOf
<1>4. ASSUME NEW i \in 1..Len(S)
      PROVE  S[i] = T[Len(T) - Len(S) + i]
  <2>1. Len(T) - Len(S) + i = Len(t) - Len(s) + i
    BY <1>1, <1>2, <1>3
  <2>2. CASE i \in 1..Len(s)
    <3>1. Len(t) - Len(s) + i \in 1..Len(t)
      BY <1>3, <2>2
    <3>2. s[i] = t[Len(t) - Len(s) + i]
      BY <2>2 DEF EndOf
    <3> QED BY <1>1, <1>2, <2>1, <2>2, <3>1, <3>2
  <2>3. CASE i = Len(s) + 1
    <3>1. Len(t) - Len(s) + i = Len(t) + 1
      BY <1>3, <2>3
    <3> QED BY <1>1, <1>2, <2>1, <2>3, <3>1
  <2>4. \A n \in Nat : \A j \in 1..(n + 1) : j \in 1..n \/ j = n + 1
    OBVIOUS
  <2> QED BY <1>1, <1>3, <2>2, <2>3, <2>4
<1>5. Len(S) <= Len(T)
  BY <1>1, <1>2, <1>3
<1> QED BY <1>4, <1>5 DEF EndOf, S, T

\* The end of a sequence of which the beginning is dropped.
LEMMA EndSubSeq ==
  ASSUME NEW t \in Seq(Nat), NEW k \in 1..Len(t)
  PROVE  SubSeq(t, k, Len(t)) \in Seq(Nat) /\ EndOf(SubSeq(t, k, Len(t)), t)
<1> DEFINE s == SubSeq(t, k, Len(t))
<1>1. Len(t) \in Nat /\ k \in Int /\ Len(t) \in Int /\ \A i \in k..Len(t) : t[i] \in Nat
  OBVIOUS
<1>2. /\ s \in Seq(Nat) /\ Len(s) = Len(t) - k + 1
      /\ \A i \in 1..(Len(t) - k + 1) : s[i] = t[k + i - 1]
  BY <1>1, SubSeqProperties
<1> HIDE DEF s
<1>3. ASSUME NEW i \in 1..Len(s)
      PROVE  s[i] = t[Len(t) - Len(s) + i]
  <2>1. Len(t) - Len(s) + i = k + i - 1 /\ i \in 1..(Len(t) - k + 1)
    BY <1>1, <1>2
  <2> QED BY <1>2, <2>1
<1>4. Len(s) <= Len(t)
  BY <1>1, <1>2
<1> QED BY <1>2, <1>3, <1>4 DEF EndOf, s

\* history_push keeps an end of what was taken.
LEMMA HistoryStep ==
  ASSUME NEW h \in Seq(Nat), NEW t \in Seq(Nat), EndOf(h, t), NEW x \in Nat
  PROVE  HistoryPush(h, x) \in Seq(Nat) /\ EndOf(HistoryPush(h, x), Append(t, x))
<1> DEFINE all == Append(h, x)
           kept == IF Len(all) > HistoryMax THEN Tail(all) ELSE all
           starts == {i \in DOMAIN kept :
                        \/ i = Len(kept) - 1
                        \/ i < Len(kept) /\ x - kept[i] <= Window}
           first == CHOOSE i \in starts : \A j \in starts : i <= j
<1>0. HistoryPush(h, x) = IF Len(kept) <= 2 THEN kept ELSE SubSeq(kept, first, Len(kept))
  BY Zenon DEF HistoryPush
<1>1. /\ all \in Seq(Nat) /\ Append(t, x) \in Seq(Nat) /\ EndOf(all, Append(t, x))
      /\ all # <<>> /\ Len(all) \in Nat \ {0}
  <2>1. all \in Seq(Nat) /\ Append(t, x) \in Seq(Nat) /\ EndOf(all, Append(t, x))
    BY EndAppend, AppendProperties
  <2>2. all # <<>> /\ Len(all) = Len(h) + 1 /\ Len(h) \in Nat
    BY AppendProperties
  <2> HIDE DEF all
  <2> QED BY <2>1, <2>2
<1>2. kept \in Seq(Nat) /\ EndOf(kept, Append(t, x)) /\ Len(kept) \in Nat
  <2>1. CASE Len(all) > HistoryMax
    <3>0. HistoryMax \in Nat \ {0, 1}
      BY ConsoleAssumption
    <3> HIDE DEF all
    <3>1. 2 \in 1..Len(all)
      BY <1>1, <2>1, <3>0
    <3>2. Tail(all) = SubSeq(all, 2, Len(all))
      BY <1>1, TailIsSubSeq
    <3>3. SubSeq(all, 2, Len(all)) \in Seq(Nat) /\ EndOf(SubSeq(all, 2, Len(all)), all)
      BY <1>1, <3>1, EndSubSeq
    <3>4. EndOf(Tail(all), Append(t, x)) /\ Tail(all) \in Seq(Nat)
      BY <1>1, <3>2, <3>3, EndTrans
    <3> QED BY <2>1, <3>4
  <2>2. CASE ~(Len(all) > HistoryMax)
    BY <1>1, <2>2
  <2> QED BY <2>1, <2>2
<1> HIDE DEF kept
<1>3. CASE Len(kept) <= 2
  BY <1>0, <1>2, <1>3
<1>4. CASE ~(Len(kept) <= 2)
  <2>1. DOMAIN kept = 1..Len(kept) /\ Len(kept) - 1 \in 1..Len(kept)
    BY <1>2, <1>4
  <2>2. starts \subseteq 1..Len(kept) /\ starts # {}
    BY <2>1
  <2>3. starts \subseteq Nat
    BY <1>2, <2>2
  <2> HIDE DEF starts
  <2>4. \E i \in starts : \A j \in starts : i <= j
    BY <2>2, <2>3, LeastNatural
  <2>5. first \in starts
    BY <2>4, Zenon
  <2> HIDE DEF first
  <2>6. first \in 1..Len(kept)
    BY <2>2, <2>5
  <2>7. /\ SubSeq(kept, first, Len(kept)) \in Seq(Nat)
        /\ EndOf(SubSeq(kept, first, Len(kept)), kept)
    BY <1>2, <2>6, EndSubSeq
  <2>8. EndOf(SubSeq(kept, first, Len(kept)), Append(t, x))
    BY <1>1, <1>2, <2>7, EndTrans
  <2> QED BY <1>0, <1>4, <2>7, <2>8
<1> QED BY <1>3, <1>4

\* An end is a suffix.
LEMMA EndIsSuffix ==
  ASSUME NEW s \in Seq(Nat), NEW t \in Seq(Nat), EndOf(s, t)
  PROVE  IsSuffix(s, t)
<1> DEFINE S == Reverse(s)
           T == Reverse(t)
<1>0. Len(s) \in Nat /\ Len(t) \in Nat /\ Len(s) <= Len(t)
  BY DEF EndOf
<1>1. /\ S \in Seq(Nat) /\ Len(S) = Len(s)
      /\ \A i \in 1..Len(s) : S[i] = s[(Len(s) - i) + 1]
  BY DEF Reverse
<1>2. /\ T \in Seq(Nat) /\ Len(T) = Len(t)
      /\ \A i \in 1..Len(t) : T[i] = t[(Len(t) - i) + 1]
  BY DEF Reverse
<1> HIDE DEF S, T
<1>3. ASSUME NEW i \in 1..Len(s)
      PROVE  S[i] = T[i]
  <2>1. /\ (Len(s) - i) + 1 \in 1..Len(s) /\ i \in 1..Len(t)
        /\ Len(t) - Len(s) + ((Len(s) - i) + 1) = (Len(t) - i) + 1
    BY <1>0
  <2>2. s[(Len(s) - i) + 1] = t[(Len(t) - i) + 1]
    BY <2>1 DEF EndOf
  <2> QED BY <1>1, <1>2, <2>1, <2>2
<1> DEFINE A == SubSeq(S, 1, Len(s))
           B == SubSeq(T, 1, Len(s))
<1>4. A \in Seq(Nat) /\ Len(A) = Len(s) /\ \A i \in 1..Len(s) : A[i] = S[i]
  <2>1. \A i \in 1..Len(s) : S[i] \in Nat
    BY SMTT(40), <1>1
  <2>2. \A n \in Nat : 1 \in Int /\ n \in Int /\ n - 1 + 1 = n /\ (1 <= n \/ n = 0)
                        /\ \A i \in 1..n : 1 + i - 1 = i
    OBVIOUS
  <2>3. /\ A \in Seq(Nat) /\ Len(A) = (IF 1 <= Len(s) THEN Len(s) - 1 + 1 ELSE 0)
        /\ \A i \in 1..(Len(s) - 1 + 1) : A[i] = S[1 + i - 1]
    BY <1>0, <2>1, SubSeqProperties
  <2> QED BY <1>0, <2>2, <2>3
<1>5. B \in Seq(Nat) /\ Len(B) = Len(s) /\ \A i \in 1..Len(s) : B[i] = T[i]
  <2>1. \A i \in 1..Len(s) : T[i] \in Nat
    <3> TAKE i \in 1..Len(s)
    <3>1. i \in 1..Len(T)
      BY <1>0, <1>2
    <3>2. T \in Seq(Nat)
      BY <1>2
    <3> QED BY <3>1, <3>2
  <2>2. \A n \in Nat : 1 \in Int /\ n \in Int /\ n - 1 + 1 = n /\ (1 <= n \/ n = 0)
                        /\ \A i \in 1..n : 1 + i - 1 = i
    OBVIOUS
  <2>3. /\ B \in Seq(Nat) /\ Len(B) = (IF 1 <= Len(s) THEN Len(s) - 1 + 1 ELSE 0)
        /\ \A i \in 1..(Len(s) - 1 + 1) : B[i] = T[1 + i - 1]
    BY <1>0, <2>1, SubSeqProperties
  <2> QED BY <1>0, <2>2, <2>3
<1> HIDE DEF A, B
<1>6. A = B
  BY <1>3, <1>4, <1>5, SeqEqual
<1>7. IsPrefix(S, T)
  BY <1>0, <1>1, <1>2, <1>6 DEF IsPrefix, A, B
<1> QED BY <1>7 DEF IsSuffix, S, T

-----------------------------------------------------------------------------
(* PlotInv.                                                                  *)

\* run_simulation returns: the queue and the plotter are gone.
LEMMA ReturnClears ==
  ASSUME PlotInv, Return, simPc = "none", UNCHANGED <<simPc, steps>>
  PROVE  PlotInv'
<1>0. Capacity \in Nat \ {0, 1}
  BY ConsoleAssumption
<1>1. /\ head' = 0 /\ tail' = 0 /\ slots' = [i \in 0..Capacity - 1 |-> 0]
      /\ accepted' = <<>> /\ taken' = <<>> /\ history' = <<>>
      /\ simPc' = "none" /\ plotPc' = "none" /\ fresh' = FALSE /\ pc' = "menu"
      /\ steps' \in Nat
  BY DEF Return, PlotInv, RingInv
<1>2. Dist' = 0 /\ head' \in Slots /\ tail' \in Slots /\ slots' \in [Slots -> Nat]
  BY <1>0, <1>1 DEF Dist, Slots
<1>3. RingInv'
  BY <1>1, <1>2 DEF RingInv
<1>4. HistoryInv'
  BY <1>1 DEF HistoryInv, EndOf
<1>5. DoneInv'
  BY <1>1 DEF DoneInv
<1> QED BY <1>3, <1>4, <1>5 DEF PlotInv

\* A step that leaves the queue alone, and takes nobody into it.
LEMMA RingKept ==
  ASSUME RingInv, UNCHANGED <<queue, taken>>, steps' \in Nat,
         simPc' = "write" => Dist < Capacity - 1,
         plotPc' \in {"copy", "recopy"} => Dist > 0
  PROVE  RingInv'
<1>1. Dist' = Dist /\ UNCHANGED <<head, tail, slots, accepted, taken>>
  BY DEF Dist, queue
<1> QED BY <1>1 DEF RingInv, At

\* Steps that leave the history and what was taken alone.
LEMMA HistoryKept ==
  ASSUME HistoryInv, UNCHANGED <<history, taken>>
  PROVE  HistoryInv'
  BY DEF HistoryInv, EndOf

\* The menu and the signal do not touch the queue, nor the plotter.
LEMMA PlotKept ==
  ASSUME PlotInv, UNCHANGED <<queue, plotter, simPc, steps>>, pc' = pc,
         producerDone' => producerDone
  PROVE  PlotInv'
<1>1. RingInv'
  <2>1. UNCHANGED <<queue, taken, plotPc, steps>>
    BY DEF plotter
  <2>2. /\ RingInv /\ steps' \in Nat /\ (simPc' = "write" => Dist < Capacity - 1)
        /\ (plotPc' \in {"copy", "recopy"} => Dist > 0)
    BY <2>1 DEF PlotInv, RingInv
  <2> QED BY <2>1, <2>2, RingKept
<1>2. HistoryInv'
  BY HistoryKept DEF PlotInv, plotter
<1>3. DoneInv'
  BY DEF PlotInv, DoneInv, SimOver, plotter, queue
<1> QED BY <1>1, <1>2, <1>3 DEF PlotInv

\* A step of the runner: it may start the plotter, or move on.
LEMMA RunnerMoves ==
  ASSUME PlotInv, UNCHANGED <<queue, taken>>, steps' \in Nat, DoneInv',
         simPc' \in {simPc, "none", "loop"},
         \/ UNCHANGED <<plotPc, history>>
         \/ plotPc' = "open" /\ history' = <<>>
  PROVE  PlotInv'
<1>1. RingInv'
  <2>1. /\ RingInv /\ (simPc' = "write" => Dist < Capacity - 1)
        /\ (plotPc' \in {"copy", "recopy"} => Dist > 0)
    BY DEF PlotInv, RingInv
  <2> QED BY <2>1, RingKept
<1>2. HistoryInv'
  <2>1. CASE UNCHANGED history
    BY <2>1, HistoryKept DEF PlotInv
  <2>2. CASE history' = <<>>
    BY <2>2 DEF PlotInv, RingInv, HistoryInv, EndOf
  <2> QED BY <2>1, <2>2
<1> QED BY <1>1, <1>2 DEF PlotInv

\* The steps of a run keep the ring, the history and the flags.
LEMMA RunPlotStep ==
  ASSUME PlotInv, Run
  PROVE  PlotInv'
<1>0. DoneInv /\ steps \in Nat /\ 0 \in Nat
  BY DEF PlotInv, RingInv
<1>1. CASE Prepare
  <2>1. pc = "prepare" /\ simPc = "none" /\ UNCHANGED <<simPc, steps, producerDone>>
    BY <1>0, <1>1 DEF Prepare, DoneInv
  <2>2. CASE Return
    BY <2>1, <2>2, ReturnClears
  <2>3. CASE pc' \in {"daqc", "log"} /\ UNCHANGED <<queue, plotter>>
    <3>1. DoneInv'
      BY <1>0, <2>1, <2>3 DEF DoneInv, SimOver, plotter, queue
    <3> QED BY <1>0, <2>1, <2>3, <3>1, RunnerMoves DEF plotter
  <2> QED BY <1>1, <2>2, <2>3 DEF Prepare
<1>2. CASE StartDaqc
  <2>1. pc = "daqc" /\ simPc = "none" /\ UNCHANGED <<simPc, steps>>
    BY <1>0, <1>2 DEF StartDaqc, DoneInv
  <2>2. CASE Return
    BY <2>1, <2>2, ReturnClears
  <2>3. CASE pc' = "log" /\ UNCHANGED <<queue, plotter, producerDone>>
    <3>1. DoneInv'
      BY <1>0, <2>1, <2>3 DEF DoneInv, SimOver, plotter, queue
    <3> QED BY <1>0, <2>1, <2>3, <3>1, RunnerMoves DEF plotter
  <2> QED BY <1>2, <2>2, <2>3 DEF StartDaqc
<1>3. CASE StartLogging
  <2>1. /\ pc = "log" /\ pc' = "plot"
        /\ UNCHANGED <<simPc, steps, queue, plotter, producerDone>>
    BY <1>3 DEF StartLogging, session
  <2>2. DoneInv'
    BY <1>0, <2>1 DEF DoneInv, SimOver, plotter, queue
  <2> QED BY <1>0, <2>1, <2>2, RunnerMoves DEF plotter
<1>4. CASE StartPlotter
  <2>1. /\ pc = "plot" /\ pc' = "start" /\ simPc = "none" /\ plotPc = "none" /\ ~fresh
        /\ UNCHANGED <<simPc, steps, queue, taken, producerDone>>
        /\ \/ plotPc' = "open" /\ fresh' = ~producerDone /\ history' = <<>>
           \/ UNCHANGED <<plotPc, history, fresh>>
    BY <1>0, <1>4 DEF StartPlotter, session, DoneInv
  <2>2. (fresh' => ~producerDone') /\ plotPc' \in {"open", "none"}
    <3>1. UNCHANGED producerDone /\ plotPc = "none" /\ ~fresh
      BY <2>1
    <3>2. CASE plotPc' = "open" /\ fresh' = ~producerDone
      BY <3>1, <3>2
    <3>3. CASE UNCHANGED <<plotPc, fresh>>
      BY <3>1, <3>3
    <3> QED BY <2>1, <3>2, <3>3
  <2>3. DoneInv'
    BY <2>1, <2>2 DEF DoneInv, SimOver
  <2> QED BY <1>0, <2>1, <2>3, RunnerMoves
<1>5. CASE Start
  <2>1. /\ pc = "start" /\ pc' = "join" /\ simPc = "none" /\ simPc' = "loop" /\ steps' = 0
        /\ UNCHANGED <<queue, plotter, producerDone>>
    BY <1>0, <1>5 DEF Start, DoneInv
  <2>2. DoneInv'
    BY <1>0, <2>1 DEF DoneInv, SimOver, plotter, queue
  <2> QED BY <1>0, <2>1, <2>2, RunnerMoves DEF plotter
<1>6. CASE StartFails
  <2>1. /\ pc = "start" /\ pc' = "abandon" /\ producerDone' = FALSE
        /\ UNCHANGED <<simPc, steps, queue, plotter>>
    BY <1>6 DEF StartFails, ClearRunState
  <2>2. DoneInv'
    BY <1>0, <2>1 DEF DoneInv, SimOver, plotter, queue
  <2> QED BY <1>0, <2>1, <2>2, RunnerMoves DEF plotter
<1>7. CASE Abandon
  <2>1. simPc = "none" /\ Return /\ UNCHANGED <<simPc, steps>>
    BY <1>0, <1>7 DEF Abandon, DoneInv
  <2> QED BY <2>1, ReturnClears
<1>8. CASE Join
  <2>1. /\ pc = "join" /\ pc' = "stopDaqc" /\ simPc = "exited" /\ simPc' = "none"
        /\ steps' = 0 /\ UNCHANGED <<queue, plotter, producerDone>>
    BY <1>8 DEF Join
  <2>2. DoneInv'
    BY <1>0, <2>1 DEF DoneInv, SimOver, plotter, queue
  <2> QED BY <1>0, <2>1, <2>2, RunnerMoves DEF plotter
<1>9. CASE StopDaqc
  <2>1. /\ pc = "stopDaqc" /\ pc' = "plotJoin"
        /\ UNCHANGED <<simPc, steps, queue, plotter, producerDone>>
    BY <1>9 DEF StopDaqc, session
  <2>2. DoneInv'
    BY <1>0, <2>1 DEF DoneInv, SimOver, plotter, queue
  <2> QED BY <1>0, <2>1, <2>2, RunnerMoves DEF plotter
<1>10. CASE JoinPlotter
  <2>1. simPc = "none" /\ Return /\ UNCHANGED <<simPc, steps>>
    BY <1>0, <1>10 DEF JoinPlotter, DoneInv
  <2> QED BY <2>1, ReturnClears
<1> QED
  BY <1>1, <1>2, <1>3, <1>4, <1>5, <1>6, <1>7, <1>8, <1>9, <1>10 DEF Run

\* Only a sample that is pushed changes the queue: the simulation thread.
LEMMA SimPlotStep ==
  ASSUME PlotInv, Sim
  PROVE  PlotInv'
<1>0. DoneInv /\ HistoryInv /\ RingInv /\ steps \in Nat /\ steps + 1 \in Nat
  BY DEF PlotInv, RingInv
<1>1. UNCHANGED <<pc, plotter>> /\ UNCHANGED <<plotPc, taken, history, fresh>>
  BY DEF Sim, SimStep, PushCheck, PushPublish, SimLeave, ReleasePreparedSimulation, SimDone,
         SimOnly, plotter
<1>2. HistoryInv'
  BY <1>0, <1>1, HistoryKept
<1>3. plotPc' \in {"copy", "recopy"} => Dist > 0
  BY <1>0, <1>1 DEF RingInv
<1>4. CASE SimStep
  <2>1. /\ simPc = "loop" /\ simPc' \in {"loop", "push", "release"} /\ steps' \in Nat
        /\ UNCHANGED <<producerDone, queue>>
    BY <1>0, <1>4 DEF SimStep
  <2>2. RingInv'
    BY <1>0, <1>1, <1>3, <2>1, RingKept
  <2>3. DoneInv'
    BY <1>0, <1>1, <2>1 DEF DoneInv, SimOver
  <2> QED BY <1>2, <2>2, <2>3 DEF PlotInv
<1>5. CASE PushCheck
  <2>1. /\ simPc = "push" /\ simPc' \in {"loop", "write"} /\ steps' \in Nat
        /\ UNCHANGED <<producerDone, queue>>
        /\ simPc' = "write" => (head + 1) % Capacity # tail
    BY <1>0, <1>5 DEF PushCheck
  <2>2. simPc' = "write" => Dist < Capacity - 1
    <3>1. /\ head \in Slots /\ tail \in Slots /\ Capacity \in Nat \ {0, 1}
      BY <1>0, ConsoleAssumption DEF RingInv
    <3>2. (head + 1) % Capacity = IF head = Capacity - 1 THEN 0 ELSE head + 1
      BY <3>1, RingArithmetic
    <3> QED BY <2>1, <3>1, <3>2 DEF Dist, Slots
  <2>3. RingInv'
    BY <1>0, <1>1, <1>3, <2>1, <2>2, RingKept
  <2>4. DoneInv'
    BY <1>0, <1>1, <2>1 DEF DoneInv, SimOver
  <2> QED BY <1>2, <2>3, <2>4 DEF PlotInv
<1>6. CASE PushPublish
  <2>1. simPc = "write" /\ simPc' = "loop" /\ UNCHANGED producerDone
    BY <1>6 DEF PushPublish
  <2>2. DoneInv'
    BY <1>0, <1>1, <2>1 DEF DoneInv, SimOver
  <2> QED BY <1>0, <1>2, <1>6, <2>2, PushKeepsRing DEF PlotInv
<1>7. CASE SimLeave \/ ReleasePreparedSimulation
  <2>1. /\ simPc \in {"loop", "release"} /\ simPc' \in {"release", "done"}
        /\ UNCHANGED <<steps, producerDone, queue>>
    BY <1>7 DEF SimLeave, ReleasePreparedSimulation
  <2>2. RingInv'
    BY <1>0, <1>1, <1>3, <2>1, RingKept
  <2>3. DoneInv'
    BY <1>0, <1>1, <2>1 DEF DoneInv, SimOver
  <2> QED BY <1>2, <2>2, <2>3 DEF PlotInv
<1>8. CASE SimDone
  <2>1. simPc = "done" /\ simPc' = "exited" /\ UNCHANGED <<steps, queue>>
    BY <1>8 DEF SimDone, Exits
  <2>2. RingInv'
    BY <1>0, <1>1, <1>3, <2>1, RingKept
  <2>3. DoneInv'
    BY <1>0, <1>1, <2>1 DEF DoneInv, SimOver, queue
  <2> QED BY <1>2, <2>2, <2>3 DEF PlotInv
<1> QED BY <1>4, <1>5, <1>6, <1>7, <1>8 DEF Sim

\* The plotter takes the oldest sample, and ends when there is none and the
\* simulation has pushed its last.
LEMMA PlotterPlotStep ==
  ASSUME PlotInv, Plot
  PROVE  PlotInv'
<1>0. DoneInv /\ HistoryInv /\ RingInv /\ steps \in Nat
  BY DEF PlotInv, RingInv
<1>1. UNCHANGED <<pc, simPc, steps, producerDone, fresh, head, slots, accepted>>
  BY DEF Plot, PlotOpen, PopCheck, PopTake, PlotFlag, ReadFlag, PlotLastLook, PlotOnly, session
<1>2. simPc' = "write" => Dist < Capacity - 1
  BY <1>0, <1>1 DEF RingInv
<1>3. Dist > 0 <=> head # tail
  <2>1. head \in Slots /\ tail \in Slots /\ Capacity \in Nat \ {0, 1}
    BY <1>0, ConsoleAssumption DEF RingInv
  <2> QED BY <2>1 DEF Dist, Slots
<1>4. CASE PlotOpen
  <2>1. plotPc' \in {"pop", "disabled"} /\ UNCHANGED <<history, taken, tail>>
        /\ plotPc = "open"
    BY <1>4 DEF PlotOpen, PlotSteps
  <2>2. RingInv'
    BY <1>0, <1>1, <1>2, <2>1, RingKept DEF queue
  <2>3. DoneInv'
    BY <1>0, <1>1, <2>1 DEF DoneInv, SimOver
  <2> QED BY <1>0, <2>1, <2>2, <2>3, HistoryKept DEF PlotInv
<1>5. CASE PopCheck
  <2>1. /\ plotPc = "pop" /\ plotPc' \in {"copy", "flag"} /\ (plotPc' = "copy" => head # tail)
        /\ UNCHANGED <<history, taken, tail>>
    BY <1>5 DEF PopCheck, PlotSteps
  <2>2. RingInv'
    BY <1>0, <1>1, <1>2, <1>3, <2>1, RingKept DEF queue
  <2>3. DoneInv'
    BY <1>0, <1>1, <2>1 DEF DoneInv, SimOver
  <2> QED BY <1>0, <2>1, <2>2, <2>3, HistoryKept DEF PlotInv
<1>6. CASE PopTake
  <2>1. RingInv' /\ slots[tail] \in Nat /\ taken' = Append(taken, slots[tail])
    BY <1>0, <1>6, PopKeepsRing
  <2>2. /\ plotPc \in {"copy", "recopy"} /\ plotPc' = "pop"
        /\ history' = HistoryPush(history, slots[tail])
    BY <1>6 DEF PopTake, PlotSteps
  <2>3. taken \in Seq(Nat) /\ history \in Seq(Nat) /\ EndOf(history, taken)
    BY <1>0 DEF RingInv, HistoryInv
  <2>4. history' \in Seq(Nat) /\ EndOf(history', taken')
    BY <2>1, <2>2, <2>3, HistoryStep
  <2>5. HistoryInv'
    BY <2>4 DEF HistoryInv, EndOf
  <2>6. DoneInv'
    BY <1>0, <1>1, <2>2 DEF DoneInv, SimOver
  <2> QED BY <2>1, <2>5, <2>6 DEF PlotInv
<1>7. CASE PlotFlag
  <2>1. /\ plotPc = "flag" /\ plotPc' \in {"repop", "pop"} /\ (plotPc' = "repop" => producerDone)
        /\ UNCHANGED <<history, taken, tail>>
    BY <1>7 DEF PlotFlag, ReadFlag, PlotSteps
  <2>2. RingInv'
    BY <1>0, <1>1, <1>2, <2>1, RingKept DEF queue
  <2>3. DoneInv'
    BY <1>0, <1>1, <2>1 DEF DoneInv, SimOver
  <2> QED BY <1>0, <2>1, <2>2, <2>3, HistoryKept DEF PlotInv
<1>8. CASE PlotLastLook
  <2>1. /\ plotPc = "repop" /\ plotPc' \in {"recopy", "ended"}
        /\ (plotPc' = "recopy" => head # tail) /\ (plotPc' = "ended" => head = tail)
        /\ UNCHANGED <<history, taken, tail>>
    BY <1>8 DEF PlotLastLook, PlotSteps
  <2>2. RingInv'
    BY <1>0, <1>1, <1>2, <1>3, <2>1, RingKept DEF queue
  <2>3. DoneInv'
    BY <1>0, <1>1, <2>1 DEF DoneInv, SimOver
  <2> QED BY <1>0, <2>1, <2>2, <2>3, HistoryKept DEF PlotInv
<1> QED BY <1>4, <1>5, <1>6, <1>7, <1>8 DEF Plot

\* The commands of the menu keep them.
LEMMA MenuPlotStep ==
  ASSUME PlotInv, Menu
  PROVE  PlotInv'
<1>0. DoneInv /\ steps \in Nat
  BY DEF PlotInv, RingInv
<1>1. CASE load_fmu_menu \/ select_outputs \/ load_profile_menu \/ configure_timing
  <2>1. pc' = pc /\ UNCHANGED <<queue, plotter, simPc, steps, producerDone>>
    BY <1>1 DEF load_fmu_menu, LoadFmu, select_outputs, load_profile_menu, configure_timing,
                Idle, session
  <2> QED BY <2>1, PlotKept
<1>2. CASE ConvertClosedLog
  <2>1. pc' = pc /\ UNCHANGED <<queue, plotter, simPc, steps, producerDone>>
    BY <1>2 DEF ConvertClosedLog, session
  <2> QED BY <2>1, PlotKept
<1>3. CASE Begin \/ Exit
  <2>1. /\ pc = "menu" /\ pc' \in {"prepare", "exited"}
        /\ UNCHANGED <<queue, plotter, simPc, steps>>
    BY <1>3 DEF Begin, PassChecks, Exit
  <2>2. DoneInv'
    BY <1>0, <2>1 DEF DoneInv, SimOver, plotter, queue
  <2> QED BY <1>0, <2>1, <2>2, RunnerMoves DEF plotter
<1> QED BY <1>1, <1>2, <1>3 DEF Menu

\* The queue, the plotter and producer_done agree at every step.
THEOREM ConsolePlot == Spec => []PlotInv
<1>1. Init => PlotInv
  <2> SUFFICES ASSUME Init PROVE PlotInv
    OBVIOUS
  <2>0. Capacity \in Nat \ {0, 1}
    BY ConsoleAssumption
  <2>1. /\ head = 0 /\ tail = 0 /\ slots = [i \in 0..Capacity - 1 |-> 0]
        /\ accepted = <<>> /\ taken = <<>> /\ history = <<>> /\ steps = 0
        /\ simPc = "none" /\ plotPc = "none" /\ fresh = FALSE /\ pc = "menu"
    BY DEF Init
  <2>2. Dist = 0 /\ head \in Slots /\ tail \in Slots /\ slots \in [Slots -> Nat]
    BY <2>0, <2>1 DEF Dist, Slots
  <2>3. RingInv
    BY <2>1, <2>2 DEF RingInv
  <2>4. HistoryInv
    BY <2>1 DEF HistoryInv, EndOf
  <2>5. DoneInv
    BY <2>1 DEF DoneInv
  <2> QED BY <2>3, <2>4, <2>5 DEF PlotInv
<1>2. PlotInv /\ [Next]_vars => PlotInv'
  <2> SUFFICES ASSUME PlotInv, [Next]_vars PROVE PlotInv'
    OBVIOUS
  <2>1. CASE Signal
    <3>1. pc' = pc /\ UNCHANGED <<queue, plotter, simPc, steps, producerDone>>
      BY <2>1 DEF Signal
    <3> QED BY <3>1, PlotKept
  <2>2. CASE UNCHANGED vars
    <3>1. pc' = pc /\ UNCHANGED <<queue, plotter, simPc, steps, producerDone>>
      BY <2>2 DEF vars, session
    <3> QED BY <3>1, PlotKept
  <2> QED BY <2>1, <2>2, MenuPlotStep, RunPlotStep, SimPlotStep, PlotterPlotStep DEF Next
<1> QED BY <1>1, <1>2, PTL DEF Spec

\* sample_queue.c and plotter.c: the plotter shows the samples the queue took,
\* in order, none twice and none torn, for every capacity, history length and
\* window; one that started on a clear producer_done ends after the last.
THEOREM ConsolePlotIsFaithful == Spec => []PlotIsFaithful
<1>1. PlotInv => PlotIsFaithful
  <2> SUFFICES ASSUME PlotInv PROVE PlotIsFaithful
    OBVIOUS
  <2>0. RingInv /\ HistoryInv /\ DoneInv
    BY DEF PlotInv
  <2>1. /\ head \in Slots /\ tail \in Slots /\ Capacity \in Nat \ {0, 1}
        /\ taken \in Seq(Nat) /\ history \in Seq(Nat) /\ accepted \in Seq(Nat)
    BY <2>0, ConsoleAssumption DEF RingInv, HistoryInv
  <2>2. ~(simPc = "write" /\ plotPc \in {"copy", "recopy"} /\ head = tail)
    <3>1. head = tail => Dist = 0
      BY <2>1 DEF Dist, Slots
    <3> QED BY <2>0, <3>1 DEF RingInv
  <2>3. accepted = taken \o Queued
    BY <2>0, RingIsQueued
  <2>4. IsSuffix(history, taken)
    BY <2>0, <2>1, EndIsSuffix DEF HistoryInv
  <2>5. ASSUME plotPc = "ended", fresh
        PROVE  simPc \in {"exited", "none"} /\ taken = accepted
    <3>1. simPc \in {"exited", "none"} /\ head = tail
      BY <2>0, <2>5 DEF DoneInv, SimOver
    <3>2. Dist = 0
      BY <2>1, <3>1 DEF Dist, Slots
    <3>3. Len(accepted) = Len(taken) /\ \A i \in 1..Len(accepted) : accepted[i] = taken[i]
      BY <2>0, <2>1, <3>2 DEF RingInv
    <3>4. accepted = taken
      BY <2>1, <3>3, SeqEqual
    <3> QED BY <3>1, <3>4
  <2> QED BY <2>2, <2>3, <2>4, <2>5 DEF PlotIsFaithful
<1> QED BY <1>1, ConsolePlot, PTL

-----------------------------------------------------------------------------
(* Sorting.                                                                  *)

\* One turn of an insertion sort: a new index goes before the first that it
\* precedes.
LEMMA Insertion ==
  ASSUME NEW S, S \subseteq Nat, NEW n \in Nat, NEW p \in [1..n -> S], NEW key,
         Sorts(p, S, key), NEW x \in Nat, x \notin S,
         \A i \in S \cup {x} : key[i] \in Nat
  PROVE  \E q \in [1..(n + 1) -> S \cup {x}] : Sorts(q, S \cup {x}, key)
<1> DEFINE Before(i, j) == key[i] < key[j] \/ (key[i] = key[j] /\ i < j)
           K == {k \in 1..(n + 1) : k = n + 1 \/ (k \in 1..n /\ Before(x, p[k]))}
<1>0. n + 1 \in 1..(n + 1) /\ K \subseteq Nat
  OBVIOUS
<1>1. PICK k \in K : \A l \in K : k <= l
  BY <1>0, LeastNatural
<1>2. /\ DOMAIN p = 1..n
      /\ \A i \in 1..n : p[i] \in S
      /\ \A i \in S : \E l \in 1..n : p[l] = i
  BY DEF Sorts
<1>3. \A i, j \in 1..n : i < j => Before(p[i], p[j])
  BY <1>2 DEF Sorts
<1>4. \A i, j, l \in S \cup {x} : Before(i, j) /\ Before(j, l) => Before(i, l)
  OBVIOUS
<1>5. \A i, j \in S \cup {x} : i # j /\ ~Before(i, j) => Before(j, i)
  OBVIOUS
<1>6. k \in 1..(n + 1) /\ (k \in 1..n => Before(x, p[k]))
  <2>1. k = n + 1 \/ (k \in 1..n /\ Before(x, p[k]))
    BY <1>1
  <2> QED BY <1>1, <2>1
<1>7. ASSUME NEW i \in 1..n, i < k PROVE Before(p[i], x)
  <2>1. i \notin K /\ i # n + 1 /\ i \in 1..(n + 1)
    BY <1>1, <1>6, <1>7
  <2>2. ~Before(x, p[i])
    BY <2>1
  <2> HIDE DEF Before, K
  <2>3. p[i] \in S /\ p[i] # x
    BY <1>2
  <2> QED BY <1>5, <2>2, <2>3
<1> HIDE DEF K
<1>8. ASSUME NEW i \in 1..n, i >= k PROVE Before(x, p[i])
  <2> HIDE DEF Before
  <2>1. k \in 1..n
    BY <1>6, <1>8
  <2>2. CASE i = k
    BY <1>6, <2>2
  <2>3. CASE i # k
    <3>1. k < i
      BY <1>6, <1>8, <2>3
    <3>2. Before(p[k], p[i]) /\ Before(x, p[k]) /\ p[k] \in S /\ p[i] \in S
      BY <1>2, <1>3, <1>6, <2>1, <3>1
    <3> QED BY <1>4, <3>2
  <2> QED BY <2>2, <2>3
<1> DEFINE q == [i \in 1..(n + 1) |-> IF i < k THEN p[i] ELSE IF i = k THEN x ELSE p[i - 1]]
<1>9. /\ \A i \in 1..(n + 1) : i < k => i \in 1..n /\ q[i] = p[i]
      /\ q[k] = x
      /\ \A i \in 1..(n + 1) : i > k => i - 1 \in 1..n /\ q[i] = p[i - 1]
      /\ DOMAIN q = 1..(n + 1)
  BY <1>6
<1>10. q \in [1..(n + 1) -> S \cup {x}]
  <2>1. ASSUME NEW i \in 1..(n + 1) PROVE q[i] \in S \cup {x}
    BY <1>2, <1>6, <1>9, <2>1
  <2> QED BY <2>1
<1> HIDE DEF q
<1>11. ASSUME NEW i \in S \cup {x} PROVE \E l \in 1..(n + 1) : q[l] = i
  <2>1. CASE i = x
    BY <1>6, <1>9, <2>1
  <2>2. CASE i \in S
    <3>1. PICK l \in 1..n : p[l] = i
      BY <1>2, <2>2
    <3>2. CASE l < k
      <4>1. l \in 1..(n + 1) /\ q[l] = i
        BY <1>9, <3>1, <3>2
      <4> QED BY <4>1
    <3>3. CASE ~(l < k)
      <4>1. l + 1 \in 1..(n + 1) /\ l + 1 > k /\ (l + 1) - 1 = l
        BY <1>6, <3>1, <3>3
      <4>2. q[l + 1] = i
        BY <1>9, <3>1, <4>1
      <4> QED BY <4>1, <4>2
    <3> QED BY <3>2, <3>3
  <2> QED BY <2>1, <2>2
<1>12. ASSUME NEW i \in 1..(n + 1), NEW j \in 1..(n + 1), i < j
       PROVE  Before(q[i], q[j])
  <2> HIDE DEF Before
  <2>1. CASE j < k
    BY <1>3, <1>6, <1>9, <1>12, <2>1
  <2>2. CASE j = k
    BY <1>6, <1>7, <1>9, <1>12, <2>2
  <2>3. CASE j > k /\ i = k
    <3>1. j - 1 \in 1..n /\ j - 1 >= k /\ q[j] = p[j - 1] /\ q[i] = x
      BY <1>6, <1>9, <2>3
    <3> QED BY <1>8, <3>1
  <2>4. CASE j > k /\ i < k
    <3>1. /\ j - 1 \in 1..n /\ q[j] = p[j - 1]
          /\ i \in 1..n /\ q[i] = p[i] /\ i < j - 1
      BY <1>6, <1>9, <2>4
    <3> QED BY <1>3, <3>1
  <2>5. CASE j > k /\ i > k
    <3>1. /\ j - 1 \in 1..n /\ q[j] = p[j - 1]
          /\ i - 1 \in 1..n /\ q[i] = p[i - 1] /\ i - 1 < j - 1
      BY <1>6, <1>9, <1>12, <2>5
    <3> QED BY <1>3, <3>1
  <2> QED BY <1>6, <2>1, <2>2, <2>3, <2>4, <2>5
<1>13. Sorts(q, S \cup {x}, key)
  BY <1>9, <1>11, <1>12 DEF Sorts
<1> QED BY <1>10, <1>13

\* Any finite set of indices can be sorted.
LEMMA SortExists ==
  ASSUME NEW S, IsFiniteSet(S), S \subseteq Nat, NEW key, \A i \in S : key[i] \in Nat
  PROVE  \E p \in [1..Cardinality(S) -> S] : Sorts(p, S, key)
<1> DEFINE Good(R) == \E p \in [1..Cardinality(R) -> R] : Sorts(p, R, key)
           Bad == {n \in Nat : \E R \in SUBSET S : Cardinality(R) = n /\ ~Good(R)}
<1>1. \A R \in SUBSET S : IsFiniteSet(R) /\ Cardinality(R) \in Nat
  BY FS_Subset, FS_CardinalityType
<1>2. Bad = {}
  <2> SUFFICES ASSUME Bad # {} PROVE FALSE
    OBVIOUS
  <2>1. PICK n \in Bad : \A m \in Bad : n <= m
    <3>1. Bad \subseteq Nat
      OBVIOUS
    <3> HIDE DEF Bad
    <3> QED BY <3>1, LeastNatural
  <2>2. PICK R \in SUBSET S : Cardinality(R) = n /\ ~Good(R)
    BY <2>1
  <2>3. n \in Nat
    BY <2>1
  <2>4. CASE R = {}
    <3>1. Cardinality(R) = 0
      BY <2>4, FS_EmptySet
    <3> DEFINE p == [i \in 1..0 |-> i]
    <3>2. p \in [1..0 -> R] /\ DOMAIN p = {}
      OBVIOUS
    <3>3. Sorts(p, R, key)
      BY <2>4, <3>2 DEF Sorts
    <3> HIDE DEF p
    <3>4. Good(R)
      BY <3>1, <3>2, <3>3
    <3> QED BY <2>2, <3>4
  <2>5. CASE R # {}
    <3>1. PICK x \in R : TRUE
      BY <2>5
    <3> DEFINE T == R \ {x}
    <3>2. IsFiniteSet(T) /\ Cardinality(T) = n - 1 /\ T \in SUBSET S
      BY <1>1, <2>2, <3>1, FS_RemoveElement
    <3>3. n - 1 \in Nat
      BY <1>1, <3>2
    <3>4. Good(T)
      <4>1. n - 1 \notin Bad
        <5> HIDE DEF Bad
        <5> QED BY <2>1, <2>3
      <4> HIDE DEF Good
      <4> QED BY <3>2, <3>3, <4>1
    <3>5. PICK p \in [1..(n - 1) -> T] : Sorts(p, T, key)
      BY <3>2, <3>4
    <3>6. T \cup {x} = R /\ x \notin T /\ (n - 1) + 1 = n /\ T \subseteq Nat /\ x \in Nat
      BY <2>3, <3>1
    <3>7. \A i \in T \cup {x} : key[i] \in Nat
      BY <3>1
    <3> HIDE DEF T
    <3>8. \E q \in [1..((n - 1) + 1) -> T \cup {x}] : Sorts(q, T \cup {x}, key)
      BY <3>3, <3>5, <3>6, <3>7, Insertion
    <3>9. Good(R)
      BY <2>2, <3>6, <3>8
    <3> QED BY <2>2, <3>9
  <2> QED BY <2>4, <2>5
<1>3. Good(S)
  <2>1. Cardinality(S) \in Nat /\ S \in SUBSET S
    BY FS_CardinalityType
  <2> HIDE DEF Good
  <2> QED BY <1>2, <2>1
<1> QED BY <1>3

\* What Arranged promises.
LEMMA ArrangedSorts ==
  ASSUME NEW S, IsFiniteSet(S), S \subseteq Nat, NEW key, \A i \in S : key[i] \in Nat
  PROVE  /\ Arranged(S, key) \in [1..Cardinality(S) -> S]
         /\ Sorts(Arranged(S, key), S, key)
<1>1. \E p \in [1..Cardinality(S) -> S] : Sorts(p, S, key)
  BY SortExists
<1> QED BY <1>1, Zenon DEF Arranged

-----------------------------------------------------------------------------
(* The variables of an FMU.                                                  *)

Variables == [name : STRING, causality : STRING, type : STRING, vr : Nat]

Numeric(fmu, causality) ==
    {i \in DOMAIN fmu : fmu[i].causality = causality /\ fmu[i].type # "string"}

\* Positions lists numeric variables of the causality, and Len counts them.
LEMMA PositionsList ==
  ASSUME NEW fmu \in Seq(Variables), NEW causality
  PROVE  LET at == Positions(fmu, causality)
         IN  /\ Cardinality(Numeric(fmu, causality)) \in Nat
             /\ at \in [1..Cardinality(Numeric(fmu, causality)) -> DOMAIN fmu]
             /\ \A k \in DOMAIN at : at[k] \in Nat /\ fmu[at[k]].causality = causality
<1> DEFINE S == Numeric(fmu, causality)
           key == [i \in DOMAIN fmu |-> i]
<1>1. DOMAIN fmu = 1..Len(fmu) /\ Len(fmu) \in Nat
  OBVIOUS
<1>2. IsFiniteSet(DOMAIN fmu)
  BY <1>1, FS_Interval
<1>3. S \in SUBSET DOMAIN fmu /\ S \subseteq Nat
  BY <1>1 DEF Numeric
<1>4. IsFiniteSet(S) /\ Cardinality(S) \in Nat
  BY <1>2, <1>3, FS_Subset, FS_CardinalityType
<1>5. \A i \in S : key[i] \in Nat
  BY <1>1, <1>3
<1>6. Positions(fmu, causality) = Arranged(S, key)
  BY DEF Positions, Numeric
<1>7. \A i \in S : fmu[i].causality = causality
  BY DEF Numeric
<1> HIDE DEF S, key
<1>8. Arranged(S, key) \in [1..Cardinality(S) -> S]
  BY <1>3, <1>4, <1>5, ArrangedSorts
<1> DEFINE at == Positions(fmu, causality)
<1>9. at \in [1..Cardinality(S) -> S]
  BY <1>6, <1>8
<1> HIDE DEF at
<1>10. /\ at \in [1..Cardinality(S) -> DOMAIN fmu]
       /\ \A k \in DOMAIN at : at[k] \in Nat /\ fmu[at[k]].causality = causality
  BY <1>3, <1>7, <1>9
<1> QED BY <1>4, <1>10 DEF at, S

\* The lists of outputs and inputs are sequences as long as Positions.
LEMMA ListsAreSequences ==
  ASSUME NEW fmu \in Seq(Variables)
  PROVE  /\ DOMAIN ListOutputs(fmu) = DOMAIN Positions(fmu, "output")
         /\ DOMAIN ListInputs(fmu) = DOMAIN Positions(fmu, "input")
         /\ DOMAIN ListOutputs(fmu) = 1..Len(ListOutputs(fmu))
         /\ DOMAIN ListInputs(fmu) = 1..Len(ListInputs(fmu))
         /\ ListOutputs(fmu) \in Seq(Range(ListOutputs(fmu)))
         /\ ListInputs(fmu) \in Seq(Range(ListInputs(fmu)))
<1> DEFINE ins == Cardinality(Numeric(fmu, "input"))
           outs == Cardinality(Numeric(fmu, "output"))
<1>1. /\ ins \in Nat /\ DOMAIN Positions(fmu, "input") = 1..ins
      /\ outs \in Nat /\ DOMAIN Positions(fmu, "output") = 1..outs
  BY PositionsList
<1>2. /\ DOMAIN ListOutputs(fmu) = DOMAIN Positions(fmu, "output")
      /\ DOMAIN ListInputs(fmu) = DOMAIN Positions(fmu, "input")
  BY DEF ListOutputs, ListInputs
<1> HIDE DEF ins, outs
<1> DEFINE in == ListInputs(fmu)
           out == ListOutputs(fmu)
<1>3. /\ in = [k \in 1..ins |-> in[k]]
      /\ out = [k \in 1..outs |-> out[k]]
  BY <1>1, <1>2 DEF ListOutputs, ListInputs
<1>4. DOMAIN in = 1..ins /\ DOMAIN out = 1..outs
  BY <1>1, <1>2
<1> HIDE DEF in, out
<1>5. \A k \in 1..ins : in[k] \in Range(in)
  BY <1>4 DEF Range
<1>6. \A k \in 1..outs : out[k] \in Range(out)
  BY <1>4 DEF Range
<1>7. in \in [1..ins -> Range(in)] /\ out \in [1..outs -> Range(out)]
  BY <1>3, <1>5, <1>6
<1>8. in \in Seq(Range(in)) /\ out \in Seq(Range(out))
  BY <1>1, <1>7, SeqDef
<1>9. DOMAIN in = 1..Len(in) /\ DOMAIN out = 1..Len(out)
  BY <1>8
<1> QED BY <1>2, <1>8, <1>9 DEF in, out

\* What is listed denotes a variable of the FMU.
LEMMA ListedDenote ==
  ASSUME NEW fmu \in Seq(Variables)
  PROVE  /\ \A v \in Range(ListOutputs(fmu)) : Denotes(fmu, v, "output") /\ v.xml \in Nat
         /\ \A v \in Range(ListInputs(fmu)) : Denotes(fmu, v, "input")
<1>1. ASSUME NEW v \in Range(ListOutputs(fmu))
      PROVE  Denotes(fmu, v, "output") /\ v.xml \in Nat
  <2> DEFINE at == Positions(fmu, "output")
  <2>1. PICK k \in DOMAIN ListOutputs(fmu) : v = ListOutputs(fmu)[k]
    BY DEF Range
  <2>2. /\ k \in DOMAIN at
        /\ v = [name |-> fmu[at[k]].name, type |-> fmu[at[k]].type,
                vr |-> fmu[at[k]].vr, xml |-> at[k], index |-> k - 1]
    BY <2>1 DEF ListOutputs
  <2>3. at[k] \in Nat /\ at[k] \in DOMAIN fmu /\ fmu[at[k]].causality = "output"
    BY <2>2, PositionsList
  <2> HIDE DEF at
  <2> QED BY <2>2, <2>3 DEF Denotes
<1>2. ASSUME NEW v \in Range(ListInputs(fmu))
      PROVE  Denotes(fmu, v, "input")
  <2> DEFINE at == Positions(fmu, "input")
  <2>1. PICK k \in DOMAIN ListInputs(fmu) : v = ListInputs(fmu)[k]
    BY DEF Range
  <2>2. /\ k \in DOMAIN at
        /\ v = [name |-> fmu[at[k]].name, type |-> fmu[at[k]].type, vr |-> fmu[at[k]].vr]
    BY <2>1 DEF ListInputs
  <2>3. at[k] \in DOMAIN fmu /\ fmu[at[k]].causality = "input"
    BY ZenonT(60), <2>2, PositionsList
  <2> HIDE DEF at
  <2> QED BY <2>2, <2>3 DEF Denotes
<1> QED BY <1>1, <1>2

\* The index of a listed output is its place.
LEMMA ListedIndex ==
  ASSUME NEW fmu \in Seq(Variables), NEW v \in Range(ListOutputs(fmu))
  PROVE  LET at == Positions(fmu, "output")
         IN  fmu[at[v.index + 1]].vr = v.vr /\ fmu[at[v.index + 1]].type = v.type
<1> DEFINE at == Positions(fmu, "output")
<1>1. PICK k \in DOMAIN ListOutputs(fmu) : v = ListOutputs(fmu)[k]
  BY DEF Range
<1>2. /\ k \in DOMAIN at
      /\ v = [name |-> fmu[at[k]].name, type |-> fmu[at[k]].type,
              vr |-> fmu[at[k]].vr, xml |-> at[k], index |-> k - 1]
  BY <1>1 DEF ListOutputs
<1>3. k \in Nat
  BY <1>2, PositionsList
<1> HIDE DEF at
<1>4. v.index + 1 = k
  BY <1>2, <1>3
<1>5. fmu[at[v.index + 1]].vr = v.vr /\ fmu[at[v.index + 1]].type = v.type
  BY <1>2, <1>4
<1> QED BY <1>5 DEF at

\* app_config_normalize_outputs: the same outputs in ascending XML order.
LEMMA NormalizeSorts ==
  ASSUME NEW V, \A v \in V : v.xml \in Nat, NEW outputs \in Seq(V)
  PROVE  LET normal == Normalize(outputs)
         IN  /\ normal \in Seq(V)
             /\ \A k \in DOMAIN outputs : \E j \in DOMAIN normal : normal[j] = outputs[k]
             /\ ~Duplicated(outputs) => \A i, j \in DOMAIN normal :
                   i < j => normal[i].xml < normal[j].xml
<1> DEFINE n == Len(outputs)
           key == [i \in DOMAIN outputs |-> outputs[i].xml]
           p == Arranged(DOMAIN outputs, key)
           normal == Normalize(outputs)
<1>1. DOMAIN outputs = 1..n /\ n \in Nat /\ \A i \in 1..n : outputs[i] \in V
  OBVIOUS
<1>2. IsFiniteSet(DOMAIN outputs) /\ Cardinality(DOMAIN outputs) = n
  <2> HIDE DEF n
  <2>1. IsFiniteSet(1..n) /\ Cardinality(1..n) = IF 1 > n THEN 0 ELSE n - 1 + 1
    BY <1>1, FS_Interval
  <2> QED BY <1>1, <2>1
<1>3. /\ \A i \in DOMAIN outputs : key[i] \in Nat /\ key[i] = outputs[i].xml
      /\ DOMAIN outputs \subseteq Nat
  BY <1>1
<1>4. normal = [k \in DOMAIN outputs |-> outputs[p[k]]]
  BY Zenon DEF Normalize
<1> HIDE DEF key, normal, n
<1>5. p \in [1..n -> 1..n] /\ Sorts(p, DOMAIN outputs, key)
  BY <1>1, <1>2, <1>3, ArrangedSorts
<1> HIDE DEF p
<1>6. normal \in [1..n -> V]
  BY <1>1, <1>4, <1>5
<1>7. normal \in Seq(V)
  BY <1>1, <1>6, SeqDef
<1>8. ASSUME ~Duplicated(outputs), NEW i \in DOMAIN normal, NEW j \in DOMAIN normal, i < j
      PROVE  normal[i].xml < normal[j].xml
  <2>1. i \in 1..n /\ j \in 1..n /\ DOMAIN p = 1..n /\ p[i] \in 1..n /\ p[j] \in 1..n
    BY <1>5, <1>6, <1>8
  <2>2. \/ key[p[i]] < key[p[j]]
        \/ key[p[i]] = key[p[j]] /\ p[i] < p[j]
    BY <1>5, <1>8, <2>1 DEF Sorts
  <2>3. key[p[i]] = normal[i].xml /\ key[p[j]] = normal[j].xml
    BY <1>1, <1>3, <1>4, <2>1
  <2>4. key[p[i]] = key[p[j]] => p[i] = p[j]
    BY <1>1, <1>3, <1>8, <2>1 DEF Duplicated
  <2> QED BY <2>1, <2>2, <2>3, <2>4
<1>9. ASSUME NEW k \in DOMAIN outputs
      PROVE  \E j \in DOMAIN normal : normal[j] = outputs[k]
  <2>1. PICK j \in DOMAIN p : p[j] = k
    BY <1>5 DEF Sorts
  <2>2. j \in 1..n /\ DOMAIN normal = 1..n
    BY <1>5, <1>6, <2>1
  <2>3. normal[j] = outputs[k]
    BY <1>1, <1>4, <2>1, <2>2
  <2> QED BY <2>2, <2>3
<1> QED BY <1>7, <1>8, <1>9 DEF normal

-----------------------------------------------------------------------------
(* The profile.                                                              *)

\* The pins have a place and a width.
LEMMA PinShape ==
  ASSUME NEW channel \in DOMAIN Pins
  PROVE  Pins[channel].offset \in Nat /\ Pins[channel].width \in Nat \ {0}
  BY DEF Pins, Pin

\* Find returns the place of an entry with the name and the type, or 0.
LEMMA FindFinds ==
  ASSUME NEW V, NEW list \in Seq(V), NEW m, Find(list, m) # 0
  PROVE  LET k == Find(list, m)
         IN  /\ k \in Nat /\ k \in DOMAIN list
             /\ list[k].name = m.variable /\ list[k].type = m.type
<1> DEFINE I == {i \in 1..Len(list) : list[i].name = m.variable /\ list[i].type = m.type}
           k == Find(list, m)
<1>1. k = IF I # {} THEN Min(I) ELSE 0
  BY DEF Find, SelectInSeq
<1>2. I # {} /\ k = Min(I)
  BY <1>1
<1>3. I \subseteq Nat /\ DOMAIN list = 1..Len(list)
  OBVIOUS
<1>4. ASSUME NEW i \in I
      PROVE  i \in 1..Len(list) /\ list[i].name = m.variable /\ list[i].type = m.type
  OBVIOUS
<1> HIDE DEF I, k
<1>5. \E x \in I : \A y \in I : x =< y
  BY <1>2, <1>3, LeastNatural
<1>6. Min(I) \in I
  BY <1>5, Zenon DEF Min
<1>7. k \in I
  BY <1>2, <1>6
<1>8. /\ k \in Nat /\ k \in DOMAIN list
      /\ list[k].name = m.variable /\ list[k].type = m.type
  BY <1>3, <1>4, <1>7
<1> QED BY <1>8 DEF k

\* What a place in a list of the FMU says.
LEMMA ListedPlace ==
  ASSUME NEW fmu \in Seq(Variables), NEW m, NEW k,
         k \in DOMAIN (IF IsInput(m) THEN ListInputs(fmu) ELSE ListOutputs(fmu))
  PROVE  LET at == Positions(fmu, Causality(m))
             list == IF IsInput(m) THEN ListInputs(fmu) ELSE ListOutputs(fmu)
         IN  /\ k \in DOMAIN at /\ fmu[at[k]].causality = Causality(m)
             /\ list[k].name = fmu[at[k]].name /\ list[k].type = fmu[at[k]].type
             /\ list[k].vr = fmu[at[k]].vr
<1> DEFINE at == Positions(fmu, Causality(m))
           list == IF IsInput(m) THEN ListInputs(fmu) ELSE ListOutputs(fmu)
<1>1. /\ k \in DOMAIN at
      /\ list[k].name = fmu[at[k]].name /\ list[k].type = fmu[at[k]].type
      /\ list[k].vr = fmu[at[k]].vr
  BY DEF Causality, ListInputs, ListOutputs
<1>2. fmu[at[k]].causality = Causality(m)
  BY <1>1, PositionsList
<1> QED BY <1>1, <1>2

\* fmu_model_resolve_profile_mappings: each mapping it accepts gets the place of
\* the variable of its name, type and causality, or one past the array.
LEMMA ResolutionResolves ==
  ASSUME NEW fmu \in Seq(Variables), NEW m, m.channel \in DOMAIN Pins,
         NEW r \in Resolutions(fmu, m)
  PROVE  IsResolved(fmu, r)
<1> DEFINE list == IF IsInput(m) THEN ListInputs(fmu) ELSE ListOutputs(fmu)
           limit == Limit(m)
           entry(k, vr) == [channel |-> m.channel, variable |-> m.variable, type |-> m.type,
                            scale |-> m.scale, offset |-> m.offset,
                            vr |-> vr, index |-> k - 1]
           at == Positions(fmu, Causality(m))
<1>1. PICK k \in Places(list, limit, m) \ {0} :
         \E vr \in References(fmu, list, limit, k) : r = entry(k, vr)
  BY DEF Resolutions, Limit
<1>2. PICK vr \in References(fmu, list, limit, k) : r = entry(k, vr)
  BY <1>1
<1>3. /\ r.channel = m.channel /\ r.variable = m.variable /\ r.type = m.type
      /\ r.vr = vr /\ r.index = k - 1
  BY <1>2
<1>4. list \in Seq(Range(list)) /\ DOMAIN list = 1..Len(list) /\ Len(list) \in Nat
  BY ListsAreSequences
<1>5. limit \in Nat \ {0}
  BY ConfigurationAssumption DEF Limit
<1> HIDE DEF limit
<1>6. /\ k \in Nat \ {0} /\ k \in DOMAIN list
      /\ k <= limit => list[k].name = m.variable /\ list[k].type = m.type /\ vr = list[k].vr
  <2> HIDE DEF list
  <2> DEFINE first == Find(list, m)
  <2>1. CASE first \in 1..limit
    <3>1. k = first /\ first # 0
      BY <1>1, <1>5, <2>1 DEF Places
    <3>2. /\ k \in Nat /\ k \in DOMAIN list
          /\ list[k].name = m.variable /\ list[k].type = m.type
      BY <1>4, <3>1, FindFinds
    <3>3. vr = list[k].vr
      BY <1>2, <1>5, <2>1, <3>1 DEF References
    <3> QED BY <3>1, <3>2, <3>3
  <2>2. CASE first \notin 1..limit
    <3>1. k \in (limit + 1)..Len(list)
      BY <1>1, <2>2 DEF Places
    <3> QED BY <1>4, <1>5, <3>1
  <2> QED BY <2>1, <2>2
<1>7. /\ k \in DOMAIN at /\ fmu[at[k]].causality = Causality(m)
      /\ list[k].name = fmu[at[k]].name /\ list[k].type = fmu[at[k]].type
      /\ list[k].vr = fmu[at[k]].vr
  BY <1>6, ListedPlace
<1>8. Causality(r) = Causality(m) /\ Limit(r) = limit
  BY <1>3 DEF Causality, Limit, IsInput, limit
<1>9. r.index \in Nat /\ r.index + 1 = k /\ (r.index < limit => k <= limit)
  BY <1>3, <1>5, <1>6
<1> HIDE DEF list
<1>10. Mapped(fmu, r) = fmu[at[k]]
  BY <1>8, <1>9 DEF Mapped
<1> HIDE DEF at
<1>11. r.index < limit => IsExact(fmu, r) /\ Mapped(fmu, r).name = r.variable
  BY <1>3, <1>6, <1>7, <1>9, <1>10 DEF IsExact
<1>12. r.index + 1 \in DOMAIN Positions(fmu, Causality(r))
  BY <1>7, <1>8, <1>9 DEF at
<1> QED BY <1>3, <1>7, <1>8, <1>9, <1>10, <1>11, <1>12 DEF IsResolved

\* ProfileConfigBuildAcquisitionSchema and ProfileConfigBuildActuationSchema:
\* what they accept gives each mapping of their direction bytes of its own and
\* a variable of its own.
LEMMA SchemaIsLayout ==
  ASSUME NEW fmu \in Seq(Variables), NEW mappings, NEW n \in Nat,
         DOMAIN mappings = 1..n,
         \A i \in DOMAIN mappings : IsResolved(fmu, mappings[i]),
         NEW input \in BOOLEAN, NEW limit, NEW size \in Nat,
         Schema(mappings, input, limit, size) # Failed
  PROVE  IsLayout(Schema(mappings, input, limit, size), mappings, input)
<1> DEFINE chosen == {i \in DOMAIN mappings : IsInput(mappings[i]) = input}
           key == [i \in DOMAIN mappings |-> Field(mappings[i]).at]
           sorted == Arranged(chosen, key)
           fields == [k \in DOMAIN sorted |-> Field(mappings[sorted[k]])]
           schema == Schema(mappings, input, limit, size)
           F == {schema.fields[k] : k \in DOMAIN schema.fields}
           c == Cardinality(chosen)
<1>1. schema = BuildFixedPayload(fields, size)
  BY Zenon DEF Schema
<1>2. BuildFixedPayload(fields, size) # Failed
  BY <1>1
<1> HIDE DEF schema
<1>3. /\ \A i, j \in DOMAIN fields : i < j =>
            /\ fields[j].at >= fields[i].at + fields[i].width
            /\ fields[i].index # fields[j].index
      /\ \A i \in DOMAIN fields : fields[i].at + fields[i].width <= size
      /\ schema = [fields |-> fields, size |-> size]
  <2> HIDE DEF fields
  <2> QED BY <1>1, <1>2 DEF BuildFixedPayload
<1>4. /\ chosen \in SUBSET (1..n) /\ chosen \subseteq Nat
      /\ \A i \in chosen : IsResolved(fmu, mappings[i]) /\ IsInput(mappings[i]) = input
  OBVIOUS
<1>5. IsFiniteSet(chosen) /\ c \in Nat
  <2>1. IsFiniteSet(1..n)
    BY FS_Interval
  <2>2. IsFiniteSet(chosen)
    BY <1>4, <2>1, FS_Subset
  <2> QED BY <2>2, FS_CardinalityType
<1>6. ASSUME NEW i \in chosen
      PROVE  /\ Field(mappings[i]).at \in Nat /\ Field(mappings[i]).width \in Nat \ {0}
             /\ key[i] = Field(mappings[i]).at
             /\ Field(mappings[i]).index = mappings[i].index
             /\ Field(mappings[i]).vr = mappings[i].vr
             /\ Field(mappings[i]).gpio = Pins[mappings[i].channel].gpio
  <2>1. mappings[i].channel \in DOMAIN Pins /\ i \in DOMAIN mappings
    BY <1>4 DEF IsResolved
  <2>2. /\ Pins[mappings[i].channel].offset \in Nat
        /\ Pins[mappings[i].channel].width \in Nat \ {0}
    BY <2>1, PinShape
  <2> QED BY <2>1, <2>2 DEF Field
<1> HIDE DEF chosen, key, c
<1>7. sorted \in [1..c -> chosen] /\ Sorts(sorted, chosen, key)
  BY <1>4, <1>5, <1>6, ArrangedSorts DEF c
<1> HIDE DEF sorted
<1>8. /\ DOMAIN fields = 1..c
      /\ \A k \in 1..c : fields[k] = Field(mappings[sorted[k]]) /\ sorted[k] \in chosen
  BY <1>7
<1>9. \A k \in 1..c : fields[k].at \in Nat /\ fields[k].width \in Nat \ {0}
  BY <1>6, <1>8
<1> HIDE DEF fields
<1>10. /\ schema.fields = fields /\ schema.size = size
       /\ F = {fields[k] : k \in 1..c}
  BY <1>3, <1>8
<1> HIDE DEF F
<1>11. ASSUME NEW f \in F, NEW g \in F, f # g
       PROVE  Bytes(f) \cap Bytes(g) = {} /\ f.index # g.index
  <2>1. PICK i \in 1..c : f = fields[i]
    BY <1>10
  <2>2. PICK j \in 1..c : g = fields[j]
    BY <1>10
  <2>3. i # j
    BY <1>11, <2>1, <2>2
  <2>4. /\ f.at \in Nat /\ f.width \in Nat /\ g.at \in Nat /\ g.width \in Nat
        /\ f.index # g.index
        /\ g.at >= f.at + f.width \/ f.at >= g.at + g.width
    <3>1. CASE i < j
      BY <1>3, <1>8, <1>9, <2>1, <2>2, <3>1
    <3>2. CASE j < i
      BY <1>3, <1>8, <1>9, <2>1, <2>2, <3>2
    <3> QED BY <1>5, <2>3, <3>1, <3>2
  <2> QED BY SMTT(40), <2>4 DEF Bytes
<1>12. ASSUME NEW f \in F PROVE Bytes(f) \subseteq 0..(size - 1)
  <2>1. PICK i \in 1..c : f = fields[i]
    BY <1>10
  <2>2. f.at \in Nat /\ f.width \in Nat /\ f.at + f.width <= size
    BY <1>3, <1>8, <1>9, <2>1
  <2> QED BY <2>2 DEF Bytes
<1>13. Cardinality(F) = c
  <2> DEFINE D == 1..c
  <2>1. fields \in [D -> F] /\ \A f \in F : \E k \in D : fields[k] = f
    <3>1. fields = [k \in 1..c |-> fields[k]]
      BY <1>8 DEF fields
    <3>2. \A k \in 1..c : fields[k] \in F
      BY <1>10
    <3> QED BY <1>10, <3>1, <3>2
  <2>2. \A i, j \in D : fields[i] = fields[j] => i = j
    <3>1. \A i, j \in D : i < j => fields[i].index # fields[j].index
      BY <1>3, <1>8
    <3> QED BY <1>5, <3>1
  <2>3. fields \in Bijection(D, F)
    BY <2>1, <2>2 DEF Bijection, Injection, Surjection, IsInjective
  <2>4. IsFiniteSet(D) /\ Cardinality(D) = c
    <3>1. IsFiniteSet(1..c) /\ Cardinality(1..c) = IF 1 > c THEN 0 ELSE c - 1 + 1
      BY <1>5, FS_Interval
    <3> QED BY <1>5, <3>1
  <2>5. ExistsBijection(D, F)
    BY <2>3 DEF ExistsBijection
  <2> HIDE DEF D
  <2> QED BY <2>4, <2>5, FS_Bijection
<1>14. ASSUME NEW i \in chosen
       PROVE  \E f \in F :
                 /\ f.gpio = Pins[mappings[i].channel].gpio
                 /\ f.index = mappings[i].index /\ f.vr = mappings[i].vr
  <2>1. PICK k \in 1..c : sorted[k] = i
    BY <1>7 DEF Sorts
  <2>2. fields[k] \in F /\ fields[k] = Field(mappings[i])
    BY <1>8, <1>10, <2>1
  <2> QED BY <1>6, <2>2
<1>15. /\ \A f, g \in F : f # g => Bytes(f) \cap Bytes(g) = {} /\ f.index # g.index
       /\ \A f \in F : Bytes(f) \subseteq 0..(schema.size - 1)
       /\ Cardinality(F) = Cardinality(chosen)
  BY <1>10, <1>11, <1>12, <1>13 DEF c
<1> QED BY SMTT(40), <1>14, <1>15 DEF IsLayout, F, chosen, schema

\* LoadProfileCandidate: a profile that every stage accepts is laid out for the
\* FMU it was resolved with.
LEMMA CandidateIsLaidOut ==
  ASSUME NEW fmu \in Seq(Variables), NEW doc \in Profiles,
         NEW candidate \in LoadProfileCandidate(fmu, doc)
  PROVE  IsLaidOut(fmu, candidate)
<1> DEFINE mappings == doc.mappings
           made(r) == [mappings |-> r, acquisition |-> AcquisitionSchema(r),
                       actuation |-> ActuationSchema(r), step |-> doc.step]
<1>1. ProfileConfigLoadYaml(doc) # Failed
  BY DEF LoadProfileCandidate
<1>2. doc # BadYaml /\ \A i \in DOMAIN mappings : mappings[i].channel \in DOMAIN Pins
  BY <1>1 DEF ProfileConfigLoadYaml
<1>3. PICK r \in Resolve(fmu, mappings) :
         /\ AcquisitionSchema(r) # Failed /\ ActuationSchema(r) # Failed
         /\ candidate = made(r)
  BY <1>1 DEF LoadProfileCandidate
<1>4. DOMAIN mappings = 1..Len(mappings) /\ Len(mappings) \in Nat
  <2> DEFINE M == [channel : STRING, variable : STRING, type : STRING,
                   scale : Int, offset : Int]
  <2>1. mappings \in Seq(M)
    BY <1>2, FilesAssumption
  <2> HIDE DEF M, mappings
  <2> QED BY <2>1
<1> HIDE DEF mappings
<1>5. DOMAIN r = DOMAIN mappings /\ \A i \in DOMAIN mappings : r[i] \in Resolutions(fmu, mappings[i])
  BY <1>3 DEF Resolve
<1>6. \A i \in DOMAIN r : IsResolved(fmu, r[i])
  BY <1>2, <1>5, ResolutionResolves
<1>7. IsLayout(AcquisitionSchema(r), r, TRUE)
  BY <1>3, <1>4, <1>5, <1>6, SchemaIsLayout DEF AcquisitionSchema
<1>8. IsLayout(ActuationSchema(r), r, FALSE)
  BY <1>3, <1>4, <1>5, <1>6, SchemaIsLayout DEF ActuationSchema
<1>9. /\ candidate.mappings = r /\ candidate.acquisition = AcquisitionSchema(r)
      /\ candidate.actuation = ActuationSchema(r)
  BY <1>3
<1> QED BY <1>6, <1>7, <1>8, <1>9 DEF IsLaidOut

\* A layout whose mappings all refer to the variable at their index.
LEMMA LayoutIsExact ==
  ASSUME NEW fmu, NEW schema, NEW mappings, NEW input \in BOOLEAN,
         IsLayout(schema, mappings, input),
         \A i \in DOMAIN mappings : IsResolved(fmu, mappings[i]),
         \A i \in DOMAIN mappings : IsInput(mappings[i]) = input => IsExact(fmu, mappings[i])
  PROVE  LayoutFor(fmu, schema, mappings, input)
<1> DEFINE causality == IF input THEN "input" ELSE "output"
           limit == IF input THEN MaxInputs ELSE MaxOutputs
           F == {schema.fields[k] : k \in DOMAIN schema.fields}
           chosen == {i \in DOMAIN mappings : IsInput(mappings[i]) = input}
<1>1. /\ \A f, g \in F : f # g => Bytes(f) \cap Bytes(g) = {} /\ f.index # g.index
      /\ \A f \in F : Bytes(f) \subseteq 0..(schema.size - 1)
      /\ Cardinality(F) = Cardinality(chosen)
      /\ \A i \in chosen : \E f \in F :
            /\ f.gpio = Pins[mappings[i].channel].gpio
            /\ f.index = mappings[i].index /\ f.vr = mappings[i].vr
  BY DEF IsLayout
<1>2. \A i \in chosen : /\ IsResolved(fmu, mappings[i]) /\ IsExact(fmu, mappings[i])
                        /\ IsInput(mappings[i]) = input
  OBVIOUS
<1> HIDE DEF F, chosen
<1>3. ASSUME NEW i \in chosen
      PROVE  \E f \in F :
                LET v == VariableOf(fmu, f, causality)
                IN  /\ f.gpio = Pins[mappings[i].channel].gpio
                    /\ f.index + 1 \in DOMAIN Positions(fmu, causality)
                    /\ v.causality = causality /\ v.vr = f.vr
                    /\ v.type = mappings[i].type
                    /\ f.index < limit => v.name = mappings[i].variable
  <2> DEFINE m == mappings[i]
  <2>1. PICK f \in F : /\ f.gpio = Pins[m.channel].gpio
                       /\ f.index = m.index /\ f.vr = m.vr
    BY <1>1
  <2>2. IsResolved(fmu, m) /\ IsExact(fmu, m) /\ IsInput(m) = input
    BY <1>2
  <2> HIDE DEF m
  <2>3. Causality(m) = causality /\ Limit(m) = limit
    BY <2>2 DEF Causality, Limit
  <2> DEFINE v == VariableOf(fmu, f, causality)
  <2>4. v = Mapped(fmu, m)
    BY <2>1, <2>3 DEF VariableOf, Mapped
  <2>5. /\ f.index + 1 \in DOMAIN Positions(fmu, causality)
        /\ v.causality = causality
        /\ f.index < limit => v.name = m.variable
    BY <2>1, <2>2, <2>3, <2>4 DEF IsResolved
  <2>6. v.vr = f.vr /\ v.type = m.type
    BY <2>1, <2>2, <2>4 DEF IsExact
  <2> HIDE DEF v, causality, limit
  <2>7. /\ f.gpio = Pins[mappings[i].channel].gpio
        /\ v.type = mappings[i].type
        /\ f.index < limit => v.name = mappings[i].variable
    BY <2>1, <2>5, <2>6 DEF m
  <2> QED BY <2>1, <2>5, <2>6, <2>7 DEF v
<1> QED BY <1>1, <1>3 DEF LayoutFor, F, chosen

\* DaqAcquisitionInit leaves only inputs within the array, which are those the
\* profile names.
LEMMA InputsAreExact ==
  ASSUME NEW fmu, NEW profile, IsLaidOut(fmu, profile),
         NEW V, NEW inputs \in Seq(V), Len(inputs) <= MaxInputs,
         AcquisitionFits(profile.acquisition, inputs)
  PROVE  LayoutFor(fmu, profile.acquisition, profile.mappings, TRUE)
<1> DEFINE mappings == profile.mappings
           fields == profile.acquisition.fields
<1>1. /\ \A i \in DOMAIN mappings : IsResolved(fmu, mappings[i])
      /\ IsLayout(profile.acquisition, mappings, TRUE)
  BY DEF IsLaidOut
<1>2. ASSUME NEW i \in DOMAIN mappings, IsInput(mappings[i]) = TRUE
      PROVE  IsExact(fmu, mappings[i])
  <2>1. PICK k \in DOMAIN fields : fields[k].index = mappings[i].index
    BY <1>1, <1>2 DEF IsLayout
  <2>2. fields[k].index < Len(inputs)
    BY <2>1 DEF AcquisitionFits
  <2>3. mappings[i].index \in Nat /\ Limit(mappings[i]) = MaxInputs
    BY <1>1, <1>2 DEF IsResolved, Limit
  <2>4. mappings[i].index < Limit(mappings[i])
    <3> HIDE DEF mappings, fields
    <3> QED BY <2>1, <2>2, <2>3, ConfigurationAssumption
  <2> QED BY <1>1, <2>4 DEF IsResolved
<1> HIDE DEF mappings
<1>3. LayoutFor(fmu, profile.acquisition, mappings, TRUE)
  BY <1>1, <1>2, LayoutIsExact
<1> QED BY <1>3 DEF mappings

\* ProfileOutputsAreSelected leaves only outputs that were selected from the
\* FMU's own list.
LEMMA OutputsAreExact ==
  ASSUME NEW fmu \in Seq(Variables), NEW profile, IsLaidOut(fmu, profile),
         NEW outputs \in Seq(Range(ListOutputs(fmu))),
         MappedOutputsSelected(profile, outputs)
  PROVE  LayoutFor(fmu, profile.actuation, profile.mappings, FALSE)
<1> DEFINE mappings == profile.mappings
<1>1. /\ \A i \in DOMAIN mappings : IsResolved(fmu, mappings[i])
      /\ IsLayout(profile.actuation, mappings, FALSE)
  BY DEF IsLaidOut
<1>2. ASSUME NEW i \in DOMAIN mappings, IsInput(mappings[i]) = FALSE
      PROVE  IsExact(fmu, mappings[i])
  <2> DEFINE m == mappings[i]
  <2>1. PICK k \in DOMAIN outputs : /\ outputs[k].index = m.index /\ outputs[k].vr = m.vr
                                    /\ outputs[k].type = m.type
    BY <1>2 DEF MappedOutputsSelected
  <2>2. outputs[k] \in Range(ListOutputs(fmu))
    OBVIOUS
  <2> DEFINE v == outputs[k]
             at == Positions(fmu, "output")
  <2>3. fmu[at[v.index + 1]].vr = v.vr /\ fmu[at[v.index + 1]].type = v.type
    BY <2>2, ListedIndex
  <2>4. Causality(m) = "output"
    BY <1>2 DEF Causality
  <2> HIDE DEF m
  <2>5. Mapped(fmu, m) = fmu[at[v.index + 1]]
    BY <2>1, <2>4 DEF Mapped
  <2> HIDE DEF at, v
  <2>6. v.vr = m.vr /\ v.type = m.type
    BY <2>1 DEF v
  <2>7. IsExact(fmu, m)
    BY <2>3, <2>5, <2>6 DEF IsExact
  <2> QED BY <2>7 DEF m
<1> HIDE DEF mappings
<1>3. LayoutFor(fmu, profile.actuation, mappings, FALSE)
  BY <1>1, <1>2, LayoutIsExact
<1> QED BY <1>3 DEF mappings

-----------------------------------------------------------------------------
(* ConfigInv.                                                                *)

\* An adapter with the FMU of another.
SameFmu(r, m) == r \in Adapters /\ r.fmu = m.fmu /\ r.name = m.name

\* A call keeps the FMU, legal or not, and so do its failures,
LEMMA CallKeepsFmu ==
  ASSUME NEW m \in Adapters, NEW call, NEW from, NEW to \in Modes
  PROVE  SameFmu(Call(m, call, from, to), m)
  BY DEF Call, Misuse, Adapters, SameFmu

\* what fails keeps it,
LEMMA FailureKeepsFmu ==
  ASSUME NEW m \in Adapters, NEW left \in SUBSET Modes, NEW r \in Failures(m, left)
  PROVE  SameFmu(r, m)
<1>1. CASE r = m
  BY <1>1 DEF SameFmu
<1>2. ASSUME NEW o \in left, r = [m EXCEPT !.mode = o] PROVE SameFmu(r, m)
  BY <1>2 DEF SameFmu, Adapters
<1> QED BY <1>1, <1>2 DEF Failures

\* and so does the end of the instance.
LEMMA TerminateKeepsFmu ==
  ASSUME NEW m \in Adapters
  PROVE  SameFmu(fmu_model_terminate(m), m)
<1> DEFINE terminated == IF m.initialized THEN Terminate(m) ELSE m
           called == IF terminated.mode \in Modes \ {"none", "fatal"} THEN terminated
                     ELSE Misuse(terminated, "release")
           freed == [called EXCEPT !.mode = "none"]
           last == [freed EXCEPT !.instantiated = FALSE, !.initialized = FALSE]
<1>1. fmu_model_terminate(m) = IF ~m.fmu \/ ~m.instantiated THEN m ELSE last
  BY DEF fmu_model_terminate, Release
<1>2. SameFmu(terminated, m)
  BY CallKeepsFmu DEF Modes, Terminate, SameFmu
<1> HIDE DEF terminated
<1>3. SameFmu(called, m)
  BY ZenonT(60), <1>2 DEF Misuse, Adapters, SameFmu
<1> HIDE DEF called
<1>4. SameFmu(freed, m)
  BY <1>3 DEF Adapters, SameFmu, Modes
<1> HIDE DEF freed
<1>5. SameFmu(last, m)
  BY <1>4 DEF Adapters, SameFmu
<1> HIDE DEF last
<1> QED BY <1>1, <1>5 DEF SameFmu

\* So does a preparation, whether it succeeds or fails.
LEMMA PrepareKeepsFmu ==
  ASSUME NEW m \in Adapters,
         NEW r \in RtSimulationPrepare(m).failed \cup RtSimulationPrepare(m).prepared
  PROVE  SameFmu(r, m)
<1> DEFINE called == Call(m, "instantiate", {"none"}, "instantiated")
           created == [called EXCEPT !.instantiated = TRUE]
           setup == Call(created, "setup", {"instantiated"}, "instantiated")
           entered == Call(setup, "enter", {"instantiated"}, "initialization")
           stepping == Call(entered, "exit", {"initialization"}, "step")
           ready == [stepping EXCEPT !.initialized = TRUE]
           resolved == Call(ready, "get", {"step"}, "step")
           broken(o) == [created EXCEPT !.mode = o]
           silenced == {Call(broken(o), "setup", {"instantiated"}, "instantiated") :
                           o \in Broken}
           stages == {created, setup, entered, resolved}
           results == {m} \cup silenced \cup UNION {Failures(y, Broken) : y \in stages}
<1>1. r = m \/ r = resolved \/ \E x \in results : r = fmu_model_terminate(x)
  <2>1. RtSimulationPrepare(m) =
          IF ~m.fmu THEN [failed |-> {m}, prepared |-> {}]
          ELSE IF ~m.dll THEN [failed |-> {fmu_model_terminate(m)}, prepared |-> {}]
          ELSE [failed |-> {fmu_model_terminate(x) : x \in results},
                prepared |-> {resolved}]
    BY DEF RtSimulationPrepare
  <2>2. m \in results
    OBVIOUS
  <2> HIDE DEF results, resolved
  <2>3. CASE ~m.fmu
    BY <2>1, <2>3
  <2>4. CASE m.fmu /\ ~m.dll
    BY <2>1, <2>2, <2>4
  <2>5. CASE m.fmu /\ m.dll
    BY <2>1, <2>5
  <2> QED BY <2>3, <2>4, <2>5
<1>2. SameFmu(called, m)
  BY CallKeepsFmu DEF Modes
<1> HIDE DEF called
<1>3. SameFmu(created, m)
  BY <1>2 DEF Adapters, SameFmu
<1> HIDE DEF created
<1>4. SameFmu(setup, m)
  BY <1>3, CallKeepsFmu DEF Modes, SameFmu
<1> HIDE DEF setup
<1>5. SameFmu(entered, m)
  BY <1>4, CallKeepsFmu DEF Modes, SameFmu
<1> HIDE DEF entered
<1>6. SameFmu(stepping, m)
  BY <1>5, CallKeepsFmu DEF Modes, SameFmu
<1> HIDE DEF stepping
<1>7. SameFmu(ready, m)
  BY <1>6 DEF Adapters, SameFmu
<1> HIDE DEF ready
<1>8. SameFmu(resolved, m)
  BY <1>7, CallKeepsFmu DEF Modes, SameFmu
<1> HIDE DEF resolved
<1>9. ASSUME NEW o \in Broken
      PROVE  SameFmu(Call(broken(o), "setup", {"instantiated"}, "instantiated"), m)
  <2>1. SameFmu(broken(o), m)
    BY <1>3, <1>9 DEF Adapters, SameFmu, Broken, Modes
  <2> HIDE DEF broken
  <2> QED BY <2>1, CallKeepsFmu DEF Modes, SameFmu
<1>10. ASSUME NEW y \in stages, NEW x \in Failures(y, Broken)
       PROVE  SameFmu(x, m)
  <2>1. SameFmu(y, m)
    BY <1>3, <1>4, <1>5, <1>8
  <2>2. Broken \in SUBSET Modes
    BY DEF Broken, Modes
  <2>3. SameFmu(x, y)
    BY <2>1, <2>2, FailureKeepsFmu DEF SameFmu
  <2> QED BY <2>1, <2>3 DEF SameFmu
<1>11. SameFmu(m, m)
  BY DEF SameFmu
<1> HIDE DEF broken, stages
<1>12. ASSUME NEW x \in results PROVE SameFmu(x, m)
  BY <1>9, <1>10, <1>11
<1> HIDE DEF results
<1>13. ASSUME NEW x \in results
       PROVE  SameFmu(fmu_model_terminate(x), m)
  BY <1>12, TerminateKeepsFmu DEF SameFmu
<1> QED BY <1>1, <1>8, <1>11, <1>13

\* So does a communication step.
LEMMA StepKeepsFmu ==
  ASSUME NEW m \in Adapters,
         NEW r \in fmu_model_step(m).done \cup fmu_model_step(m).failed
  PROVE  SameFmu(r, m)
<1> DEFINE n == Call(m, "step", {"step"}, "step")
           left == Broken \cup {"stepFailed"}
<1>1. SameFmu(n, m)
  BY CallKeepsFmu DEF Modes
<1>2. left \in SUBSET Modes
  BY DEF Broken, Modes
<1>3. fmu_model_step(m) = [done |-> {n}, failed |-> Failures(n, left)]
  BY DEF fmu_model_step
<1> HIDE DEF n, left
<1>4. r = n \/ SameFmu(r, n)
  BY <1>1, <1>2, <1>3, FailureKeepsFmu DEF SameFmu
<1> QED BY <1>1, <1>4 DEF SameFmu

\* The adapter is one, and holds an FMU only of the set.
LEMMA ModelIsAdapter ==
  ASSUME ModelInv
  PROVE  model \in Adapters /\ (model.fmu => model.name \in Names)
  BY DEF ModelInv, IsEmpty, IsLoaded, IsReady, IsStepped, Is

\* Steps that keep the configuration and the FMU, and begin no run.
LEMMA ConfigKept ==
  ASSUME ConfigInv, UNCHANGED config,
         model'.fmu = model.fmu /\ model'.name = model.name,
         pc' \in {"menu", "exited"} \/ pc \notin {"menu", "exited"},
         runtime' = "on" =>
            /\ pc' \notin {"menu", "exited", "prepare", "daqc", "plotJoin"}
            /\ runtime = "on" \/ FitsBoard(config)
  PROVE  ConfigInv'
  BY DEF ConfigInv

\* A command sets its fields of the configuration and no other: the outputs,
LEMMA SetOutputs ==
  ASSUME NEW c, IsConfig(c), NEW x
  PROVE  LET d == [c EXCEPT !.outputs = x]
         IN  /\ IsConfig(d) /\ d.outputs = x /\ d.fmu = c.fmu
             /\ d.inputs = c.inputs /\ d.profile = c.profile
<1> DEFINE d == [c EXCEPT !.outputs = x]
           r == [fmu |-> c.fmu, outputs |-> x, inputs |-> c.inputs,
                 profile |-> c.profile, step |-> c.step]
<1>1. d = r
  BY DEF IsConfig
<1>2. IsConfig(r)
  BY DEF IsConfig
<1> QED BY <1>1, <1>2

\* the step size.
LEMMA SetStep ==
  ASSUME NEW c, IsConfig(c), NEW x
  PROVE  LET d == [c EXCEPT !.step = x]
         IN  /\ IsConfig(d) /\ d.outputs = c.outputs /\ d.fmu = c.fmu
             /\ d.inputs = c.inputs /\ d.profile = c.profile
<1> DEFINE d == [c EXCEPT !.step = x]
           r == [fmu |-> c.fmu, outputs |-> c.outputs, inputs |-> c.inputs,
                 profile |-> c.profile, step |-> x]
<1>1. d = r
  BY DEF IsConfig
<1>2. IsConfig(r)
  BY DEF IsConfig
<1> QED BY <1>1, <1>2

\* Every FMU is a sequence of variables.
LEMMA FmuIsSequence ==
  ASSUME NEW f \in Names
  PROVE  Fmus[f] \in Seq(Variables)
  BY FilesAssumption DEF Names, Variables

\* Sorting the outputs keeps them outputs of the FMU.
LEMMA NormalizeConfigured ==
  ASSUME NEW f \in Names, NEW c, IsConfig(c), ConfiguredFor(c, f)
  PROVE  LET d == [c EXCEPT !.outputs = Normalize(@)]
         IN  /\ IsConfig(d) /\ ConfiguredFor(d, f)
             /\ Selects(c) => Selects(d)
             /\ ~Duplicated(c.outputs) => InXmlOrder(d.outputs)
<1> DEFINE V == Range(ListOutputs(Fmus[f]))
           d == [c EXCEPT !.outputs = Normalize(@)]
           normal == Normalize(c.outputs)
<1>1. Fmus[f] \in Seq(Variables)
  BY FmuIsSequence
<1>2. \A v \in V : v.xml \in Nat
  BY <1>1, ListedDenote
<1>3. c.outputs \in Seq(V)
  BY DEF ConfiguredFor
<1>4. d = [c EXCEPT !.outputs = normal]
  OBVIOUS
<1> HIDE DEF V
<1>5. /\ normal \in Seq(V)
      /\ \A k \in DOMAIN c.outputs : \E j \in DOMAIN normal : normal[j] = c.outputs[k]
      /\ ~Duplicated(c.outputs) => InXmlOrder(normal)
  BY <1>2, <1>3, NormalizeSorts DEF InXmlOrder
<1> HIDE DEF normal, d
<1>6. /\ IsConfig(d) /\ d.outputs = normal
      /\ d.fmu = c.fmu /\ d.inputs = c.inputs /\ d.profile = c.profile
  BY <1>4, SetOutputs
<1>7. ConfiguredFor(d, f)
  BY <1>5, <1>6 DEF ConfiguredFor, V
<1>8. ASSUME MappedOutputsSelected(c.profile, c.outputs)
      PROVE  MappedOutputsSelected(c.profile, normal)
  BY <1>5, <1>8 DEF MappedOutputsSelected
<1>9. Selects(c) => Selects(d)
  BY <1>6, <1>8 DEF Selects
<1> QED BY <1>5, <1>6, <1>7, <1>9 DEF d

\* The commands of the menu keep the configuration that of the loaded FMU.
LEMMA MenuConfigStep ==
  ASSUME ModelInv, ConfigInv, Menu
  PROVE  ConfigInv'
<1>0. /\ pc = "menu" /\ IsConfig(config) /\ (IsEmpty(model) \/ IsLoaded(model))
      /\ runtime' # "on"
  BY DEF Idle, Menu, load_fmu_menu, LoadFmu, select_outputs, load_profile_menu, configure_timing,
         ConvertClosedLog, Begin, PassChecks, Exit, ModelInv, HasInstance, ConfigInv
<1>1. /\ model \in Adapters /\ (model.fmu => model.name \in Names)
      /\ model.fmu => ConfiguredFor(config, model.name)
  BY ModelIsAdapter DEF ConfigInv
<1>2. CASE load_fmu_menu
  <2>1. PICK f \in Names :
           \/ model' \in fmu_model_load(model, f).failed /\ UNCHANGED config
           \/ /\ model' \in fmu_model_load(model, f).loaded
              /\ config' = [config EXCEPT
                    !.fmu = f, !.outputs = <<>>, !.profile = Failed,
                    !.inputs = IF Len(ListInputs(Fmus[f])) > MaxInputs THEN <<>>
                               ELSE ListInputs(Fmus[f])]
    BY <1>2 DEF load_fmu_menu, LoadFmu, Names
  <2>2. pc' = "menu"
    BY <1>0, <1>2 DEF load_fmu_menu, LoadFmu
  <2>3. CASE model' \in fmu_model_load(model, f).failed /\ UNCHANGED config
    <3>1. IsEmpty(model')
      BY <1>0, <2>3, LoadOutcomes
    <3>2. ~model'.fmu
      BY <3>1 DEF IsEmpty, Is
    <3> QED BY <1>0, <2>2, <2>3, <3>2 DEF ConfigInv
  <2>4. ASSUME model' \in fmu_model_load(model, f).loaded,
               config' = [config EXCEPT
                    !.fmu = f, !.outputs = <<>>, !.profile = Failed,
                    !.inputs = IF Len(ListInputs(Fmus[f])) > MaxInputs THEN <<>>
                               ELSE ListInputs(Fmus[f])]
        PROVE  ConfigInv'
    <3>1. model'.name = f
      BY <1>0, <2>4, LoadOutcomes
    <3> DEFINE list == ListInputs(Fmus[f])
               in == IF Len(list) > MaxInputs THEN <<>> ELSE list
    <3>2. /\ IsConfig(config') /\ config'.fmu = f /\ config'.outputs = <<>>
          /\ config'.profile = Failed /\ config'.inputs = in
      <4> HIDE DEF in
      <4>1. config' = [config EXCEPT !.fmu = f, !.outputs = <<>>, !.profile = Failed,
                                     !.inputs = in]
        BY <2>4 DEF in
      <4> QED BY <1>0, <4>1 DEF IsConfig
    <3>3. in \in Seq(Range(list)) /\ Len(in) <= MaxInputs
      <4>1. list \in Seq(Range(list))
        BY FmuIsSequence, ListsAreSequences
      <4> HIDE DEF list
      <4> QED BY <4>1, ConfigurationAssumption
    <3>4. <<>> \in Seq(Range(ListOutputs(Fmus[f])))
      OBVIOUS
    <3> HIDE DEF in
    <3>5. ConfiguredFor(config', f)
      BY <3>2, <3>3, <3>4 DEF ConfiguredFor
    <3> QED BY <1>0, <2>2, <3>1, <3>2, <3>5 DEF ConfigInv
  <2> QED BY <2>1, <2>3, <2>4
<1>3. CASE select_outputs
  <2> DEFINE candidates == ListOutputs(Fmus[model.name])
  <2>1. PICK n \in 0..MaxOutputs :
           \E typed \in [1..n -> DOMAIN candidates \cap 1..MaxCandidates] :
           config' = [config EXCEPT !.outputs = [i \in 1..n |-> candidates[typed[i]]]]
    BY <1>3 DEF select_outputs
  <2>2. PICK typed \in [1..n -> DOMAIN candidates \cap 1..MaxCandidates] :
           config' = [config EXCEPT !.outputs = [i \in 1..n |-> candidates[typed[i]]]]
    BY <2>1
  <2>3. model.fmu /\ UNCHANGED <<pc, model>>
    BY <1>3 DEF select_outputs
  <2> DEFINE outputs == [i \in 1..n |-> candidates[typed[i]]]
  <2>4. outputs \in Seq(Range(candidates))
    <3> HIDE DEF candidates
    <3>1. n \in Nat
      BY <2>1, ConfigurationAssumption
    <3>2. \A i \in 1..n : candidates[typed[i]] \in Range(candidates)
      BY <2>2 DEF Range
    <3>3. outputs \in [1..n -> Range(candidates)]
      BY <3>2
    <3> HIDE DEF outputs
    <3> QED BY <3>1, <3>3, SeqDef
  <2> HIDE DEF outputs
  <2>5. /\ IsConfig(config') /\ config'.outputs = outputs /\ config'.fmu = config.fmu
        /\ config'.inputs = config.inputs /\ config'.profile = config.profile
    <3>1. config' = [config EXCEPT !.outputs = outputs]
      BY <2>2 DEF outputs
    <3> QED BY <1>0, <3>1, SetOutputs
  <2>6. ConfiguredFor(config', model.name)
    BY <1>1, <2>3, <2>4, <2>5 DEF ConfiguredFor
  <2> QED BY <1>0, <2>3, <2>5, <2>6 DEF ConfigInv
<1>4. CASE load_profile_menu
  <2>1. model.fmu /\ UNCHANGED <<pc, model>>
    BY <1>4 DEF load_profile_menu
  <2>2. PICK doc \in Profiles : \E candidate \in LoadProfileCandidate(Fmus[model.name], doc) :
           config' = [config EXCEPT !.profile = candidate, !.step = candidate.step]
    BY <1>4 DEF load_profile_menu
  <2>3. PICK candidate \in LoadProfileCandidate(Fmus[model.name], doc) :
           config' = [config EXCEPT !.profile = candidate, !.step = candidate.step]
    BY <2>2
  <2>4. IsLaidOut(Fmus[model.name], candidate)
    BY <1>1, <2>1, <2>3, FmuIsSequence, CandidateIsLaidOut
  <2>5. /\ IsConfig(config') /\ config'.outputs = config.outputs /\ config'.fmu = config.fmu
        /\ config'.inputs = config.inputs /\ config'.profile = candidate
    <3> DEFINE step == candidate.step
    <3>1. config' = [config EXCEPT !.profile = candidate, !.step = step]
      BY <2>3
    <3> HIDE DEF step
    <3> QED BY <1>0, <3>1 DEF IsConfig
  <2>6. ConfiguredFor(config', model.name)
    BY <1>1, <2>1, <2>4, <2>5 DEF ConfiguredFor
  <2> QED BY <1>0, <2>1, <2>5, <2>6 DEF ConfigInv
<1>5. CASE configure_timing
  <2>1. PICK step \in StepSizes : config' = [config EXCEPT !.step = step]
    BY <1>5 DEF configure_timing
  <2>2. UNCHANGED <<pc, model>>
    BY <1>5 DEF configure_timing
  <2>3. /\ IsConfig(config') /\ config'.outputs = config.outputs /\ config'.fmu = config.fmu
        /\ config'.inputs = config.inputs /\ config'.profile = config.profile
    BY <1>0, <2>1, SetStep
  <2>4. model.fmu => ConfiguredFor(config', model.name)
    BY <1>1, <2>3 DEF ConfiguredFor
  <2> QED BY <1>0, <2>2, <2>3, <2>4 DEF ConfigInv
<1>6. CASE ConvertClosedLog
  <2>1. config' = [config EXCEPT !.outputs = Normalize(@)] /\ UNCHANGED <<pc, model>>
    BY <1>6 DEF ConvertClosedLog
  <2>2. IsConfig(config')
    BY <1>0, <2>1, SetOutputs
  <2>3. model.fmu => ConfiguredFor(config', model.name)
    BY <1>0, <1>1, <2>1, NormalizeConfigured
  <2> QED BY <1>0, <2>1, <2>2, <2>3 DEF ConfigInv
<1>7. CASE Begin
  <2>1. /\ model.fmu /\ ~Duplicated(config.outputs) /\ UNCHANGED model
        /\ config' = [config EXCEPT !.outputs = Normalize(@)]
        /\ Selects(config)
    BY <1>7 DEF Begin, PassChecks, Selects
  <2>2. /\ IsConfig(config') /\ ConfiguredFor(config', model.name)
        /\ InXmlOrder(config'.outputs) /\ Selects(config')
    BY <1>0, <1>1, <2>1, NormalizeConfigured
  <2> QED BY <1>0, <2>1, <2>2 DEF ConfigInv
<1>8. CASE Exit
  <2>1. pc' = "exited" /\ UNCHANGED config /\ model' = fmu_model_unload(model)
    BY <1>8 DEF Exit
  <2>2. IsEmpty(model')
    BY <1>0, <2>1, IdleIsTidy, UnloadEmpties
  <2>3. ~model'.fmu
    BY <2>2 DEF IsEmpty, Is
  <2> QED BY <1>0, <2>1, <2>3 DEF ConfigInv
<1> QED BY <1>2, <1>3, <1>4, <1>5, <1>6, <1>7, <1>8 DEF Menu

\* A run and its threads change neither the configuration nor the FMU.
LEMMA RunConfigStep ==
  ASSUME ModelInv, ConfigInv, Run \/ Sim \/ Plot \/ Signal \/ UNCHANGED vars
  PROVE  ConfigInv'
<1>0. model \in Adapters
  BY ModelIsAdapter
<1>1. CASE Prepare
  <2>1. /\ pc = "prepare" /\ UNCHANGED <<config, runtime>>
        /\ model' \in RtSimulationPrepare(model).failed \cup RtSimulationPrepare(model).prepared
    BY <1>1 DEF Prepare
  <2>2. SameFmu(model', model)
    BY <1>0, <2>1, PrepareKeepsFmu
  <2>3. runtime' # "on"
    BY <2>1 DEF ConfigInv
  <2> QED BY <2>1, <2>2, <2>3, ConfigKept DEF SameFmu
<1>2. CASE StartDaqc
  <2>1. /\ pc = "daqc" /\ UNCHANGED config
        /\ model' = model \/ model' = fmu_model_terminate(model)
        /\ runtime' = runtime \/ (pc' = "log" /\ FitsBoard(config))
    BY <1>2 DEF StartDaqc, FitsBoard
  <2>2. SameFmu(model', model)
    BY <1>0, <2>1, TerminateKeepsFmu DEF SameFmu
  <2>3. runtime # "on"
    BY <2>1 DEF ConfigInv
  <2> QED BY <2>1, <2>2, <2>3, ConfigKept DEF SameFmu
<1>3. CASE StartFails
  <2>1. /\ pc = "start" /\ pc' = "abandon" /\ UNCHANGED <<config, runtime>>
        /\ model' = fmu_model_terminate(model)
    BY <1>3 DEF StartFails
  <2>2. SameFmu(model', model)
    BY <1>0, <2>1, TerminateKeepsFmu
  <2> QED BY <2>1, <2>2, ConfigKept DEF SameFmu
<1>4. CASE StartLogging \/ StartPlotter \/ Start \/ Join
  <2>1. /\ pc \notin {"menu", "exited"} /\ UNCHANGED <<config, model, runtime>>
        /\ pc' \notin {"menu", "exited", "prepare", "daqc", "plotJoin"}
    BY <1>4 DEF StartLogging, StartPlotter, Start, Join
  <2> QED BY <2>1, ConfigKept
<1>5. CASE Abandon \/ StopDaqc
  <2>1. /\ pc \notin {"menu", "exited"} /\ UNCHANGED <<config, model>>
        /\ runtime' = "off"
    BY <1>5 DEF Abandon, StopDaqc
  <2> QED BY <2>1, ConfigKept
<1>6. CASE JoinPlotter
  <2>1. /\ pc = "plotJoin" /\ pc' = "menu" /\ UNCHANGED <<config, model, runtime>>
    BY <1>6 DEF JoinPlotter, Return
  <2>2. runtime # "on"
    BY <2>1 DEF ConfigInv
  <2> QED BY <2>1, <2>2, ConfigKept
<1>7. CASE Sim
  <2>1. /\ simPc # "none" /\ UNCHANGED <<pc, config, runtime>>
        /\ \/ model' = model \/ model' = fmu_model_terminate(model)
           \/ model' \in fmu_model_step(model).done \cup fmu_model_step(model).failed
    BY <1>7 DEF Sim, SimStep, PushCheck, PushPublish, SimLeave, ReleasePreparedSimulation,
                SimDone, Exits, SimOnly
  <2>2. pc = "join"
    BY <2>1 DEF ModelInv
  <2>3. SameFmu(model', model)
    <3>1. SameFmu(model, model)
      BY <1>0 DEF SameFmu
    <3> QED BY <1>0, <2>1, <3>1, TerminateKeepsFmu, StepKeepsFmu
  <2> QED BY <2>1, <2>2, <2>3, ConfigKept DEF SameFmu
<1>8. CASE Plot \/ Signal \/ UNCHANGED vars
  <2>1. UNCHANGED <<pc, config, model, runtime>>
    BY <1>8 DEF Plot, PlotOpen, PopCheck, PopTake, PlotFlag, ReadFlag, PlotLastLook,
                PlotOnly, Signal, vars
  <2> QED BY <2>1 DEF ConfigInv
<1> QED BY <1>1, <1>2, <1>3, <1>4, <1>5, <1>6, <1>7, <1>8 DEF Run

\* At every step the configuration is that of the FMU that is loaded, whatever
\* the number of its variables: the mappings within the searched arrays are the
\* ones the profile names; a run has its mapped outputs among the selected ones,
\* and one with the board has its mapped inputs among its own.
THEOREM ConsoleConfig == Spec => []ConfigInv
<1>1. Init => ConfigInv
  <2> SUFFICES ASSUME Init PROVE ConfigInv
    OBVIOUS
  <2>1. /\ pc = "menu" /\ model = NewModel
        /\ config = [fmu |-> NoFmu, outputs |-> <<>>, inputs |-> <<>>, profile |-> Failed,
                     step |-> 1]
    BY DEF Init
  <2>2. IsConfig(config) /\ ~model.fmu
    BY <2>1 DEF IsConfig, NewModel
  <2>3. runtime # "on"
    BY DEF Init
  <2> QED BY <2>1, <2>2, <2>3 DEF ConfigInv
<1>2. ModelInv /\ ConfigInv /\ [Next]_vars => ConfigInv'
  BY MenuConfigStep, RunConfigStep DEF Next
<1> QED BY <1>1, <1>2, ConsoleModel, PTL DEF Spec

\* What a run reads, writes, logs and exchanges with the board are variables of
\* the FMU that is loaded, in ascending XML order, each mapped pin with bytes and
\* a variable of its own; for every set of FMUs and profiles, those with more
\* inputs or outputs than the searched arrays hold included, and every order of
\* the commands before it.
THEOREM ConsoleRunUsesLoadedFmu == Spec => []RunUsesLoadedFmu
<1>1. ModelInv /\ ConfigInv => RunUsesLoadedFmu
  <2> SUFFICES ASSUME ModelInv, ConfigInv, simPc # "none" PROVE RunUsesLoadedFmu
    BY DEF RunUsesLoadedFmu
  <2> DEFINE fmu == Fmus[model.name]
  <2>1. pc = "join"
    BY DEF ModelInv
  <2>2. /\ model.fmu /\ InXmlOrder(config.outputs) /\ ConfiguredFor(config, model.name)
        /\ model.name \in Names
    BY <2>1, ModelIsAdapter DEF ConfigInv
  <2>3. fmu \in Seq(Variables)
    BY <2>2, FmuIsSequence
  <2>4. /\ config.fmu = model.name
        /\ config.outputs \in Seq(Range(ListOutputs(fmu)))
        /\ config.inputs \in Seq(Range(ListInputs(fmu))) /\ Len(config.inputs) <= MaxInputs
        /\ config.profile # Failed => IsLaidOut(fmu, config.profile)
    BY <2>2 DEF ConfiguredFor
  <2> HIDE DEF fmu
  <2>5. ASSUME NEW i \in DOMAIN config.outputs
        PROVE  Denotes(fmu, config.outputs[i], "output")
    <3>1. config.outputs[i] \in Range(ListOutputs(fmu))
      BY <2>4
    <3> QED BY <2>3, <3>1, ListedDenote
  <2>6. ASSUME NEW i \in DOMAIN config.inputs
        PROVE  Denotes(fmu, config.inputs[i], "input")
    <3>1. config.inputs[i] \in Range(ListInputs(fmu))
      BY <2>4
    <3> QED BY <2>3, <3>1, ListedDenote
  <2>7. ASSUME runtime = "on"
        PROVE  /\ LayoutFor(fmu, config.profile.acquisition, config.profile.mappings, TRUE)
               /\ LayoutFor(fmu, config.profile.actuation, config.profile.mappings, FALSE)
               /\ \A i \in DOMAIN config.profile.acquisition.fields :
                     config.profile.acquisition.fields[i].index < Len(config.inputs)
    <3>1. /\ config.profile # Failed
          /\ AcquisitionFits(config.profile.acquisition, config.inputs)
          /\ MappedOutputsSelected(config.profile, config.outputs)
      BY <2>1, <2>7 DEF ConfigInv, FitsBoard, Selects
    <3>2. IsLaidOut(fmu, config.profile)
      BY <2>4, <3>1
    <3>3. LayoutFor(fmu, config.profile.acquisition, config.profile.mappings, TRUE)
      BY <2>4, <3>1, <3>2, InputsAreExact
    <3>4. LayoutFor(fmu, config.profile.actuation, config.profile.mappings, FALSE)
      BY <2>3, <2>4, <3>1, <3>2, OutputsAreExact
    <3>5. ASSUME NEW i \in DOMAIN config.profile.acquisition.fields
          PROVE  config.profile.acquisition.fields[i].index < Len(config.inputs)
      BY <3>1 DEF AcquisitionFits
    <3> QED BY <3>3, <3>4, <3>5
  <2> QED BY <2>2, <2>4, <2>5, <2>6, <2>7 DEF RunUsesLoadedFmu, InXmlOrder, fmu
<1> QED BY <1>1, ConsoleModel, ConsoleConfig, PTL
=============================================================================
