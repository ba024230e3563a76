------------------------------ MODULE FmuModel ------------------------------
(***************************************************************************)
(* The FMU adapter, src/fmu_model.c: what it holds of the FMI library and  *)
(* in which order it asks for it and gives it back.                        *)
(*                                                                         *)
(* An adapter is a record.  name, tmp, context, fmu, dll, instantiated and *)
(* initialized are the fields of FmuModel; live, mode and misused are the  *)
(* library's side: the objects that exist, the state of the FMI instance,  *)
(* and whether a call ever came out of order, but for the calls on a       *)
(* broken instance that OnBrokenInstance lists.  A C function that may     *)
(* fail is an operator that returns its outcomes.                          *)
(***************************************************************************)
EXTENDS Naturals

Resources == {"tmp", "context", "xml", "dll"}

\* The states of an FMI 2.0 co-simulation instance.  stepFailed is left by a
\* discarded step, error by fmi2Error, fatal by fmi2Fatal or by a step that
\* stays pending.
Modes == {"none", "instantiated", "initialization", "step", "terminated",
          "stepFailed", "error", "fatal"}

NoFmu == "no FMU"

-----------------------------------------------------------------------------
(***************************************************************************)
(* The FMI library, as the adapter uses it.  An object is created once and *)
(* freed once, after the objects made from it; a call on the instance is   *)
(* legal in some modes only, and one that fails may leave the instance as  *)
(* it was or in error.  After an error only its release is legal, after a  *)
(* fatal one nothing is.                                                   *)
(***************************************************************************)

\* The calls FMI 2.0 forbids that the adapter does make, with the mode they come
\* in: fmu_model_terminate does not ask whether a step failed, nor
\* fmu_model_initialize_cosimulation whether set_debug_logging did.
OnBrokenInstance ==
    {<<"terminate", "error">>, <<"terminate", "fatal">>, <<"release", "fatal">>,
     <<"setup", "error">>, <<"setup", "fatal">>}

Misuse(m, call) == [m EXCEPT !.misused = @ \/ <<call, m.mode>> \notin OnBrokenInstance]

Create(m, r) == IF r \in m.live THEN Misuse(m, "create")
                ELSE [m EXCEPT !.live = @ \cup {r}]

Free(m, r, users) ==
    IF r \in m.live /\ m.live \cap users = {} /\ m.mode = "none"
    THEN [m EXCEPT !.live = @ \ {r}] ELSE Misuse(m, "free")

Call(m, call, from, to) ==
    IF "dll" \in m.live /\ m.mode \in from THEN [m EXCEPT !.mode = to]
    ELSE Misuse(m, call)

\* What a call that fails may leave of the instance it was made on.
Failures(m, left) == {m} \cup {[m EXCEPT !.mode = o] : o \in left}

Broken == {"error", "fatal"}

\* fmi2_import_free_instance: whatever it finds, no instance is left.
Release(m) ==
    LET called == IF m.mode \in Modes \ {"none", "fatal"} THEN m ELSE Misuse(m, "release")
    IN  [called EXCEPT !.mode = "none"]

-----------------------------------------------------------------------------
(***************************************************************************)
(* fmu_model_init, fmu_model_terminate and fmu_model_unload.               *)
(***************************************************************************)

\* Only the adapter's own fields: what the library holds is not touched.
fmu_model_init(m) ==
    [m EXCEPT !.name = NoFmu, !.tmp = FALSE, !.context = FALSE, !.fmu = FALSE,
              !.dll = FALSE, !.instantiated = FALSE, !.initialized = FALSE]

NewModel ==
    [name |-> NoFmu, tmp |-> FALSE, context |-> FALSE, fmu |-> FALSE, dll |-> FALSE,
     instantiated |-> FALSE, initialized |-> FALSE,
     live |-> {}, mode |-> "none", misused |-> FALSE]

Terminate(m) == Call(m, "terminate", {"step", "stepFailed"}, "terminated")

fmu_model_terminate_Always(m) ==
    IF ~m.fmu \/ ~m.instantiated THEN m
    ELSE [Release(Terminate(m)) EXCEPT !.instantiated = FALSE, !.initialized = FALSE]

\* The outcome of the calls before is not asked for.
fmu_model_terminate(m) ==
    LET terminated == IF m.initialized THEN Terminate(m) ELSE m
    IN  IF ~m.fmu \/ ~m.instantiated THEN m
        ELSE [Release(terminated) EXCEPT !.instantiated = FALSE, !.initialized = FALSE]

\* Each resource the adapter knows of, newest first.
fmu_model_unload(m) ==
    LET idle == IF m.instantiated THEN fmu_model_terminate(m) ELSE m
        noDll == IF idle.fmu /\ idle.dll
                 THEN [Free(idle, "dll", {}) EXCEPT !.dll = FALSE] ELSE idle
        noFmu == IF noDll.fmu
                 THEN [Free(noDll, "xml", {"dll"}) EXCEPT !.fmu = FALSE] ELSE noDll
        noContext == IF noFmu.context
                     THEN [Free(noFmu, "context", {"xml"}) EXCEPT !.context = FALSE]
                     ELSE noFmu
        noTmp == IF noContext.tmp
                 THEN [Free(noContext, "tmp", {"dll", "xml"}) EXCEPT !.tmp = FALSE]
                 ELSE noContext
    IN  [noTmp EXCEPT !.name = NoFmu]

\* fmu_model_load of the file f: the outcomes that fail, at the temporary
\* directory, the context, the version, the XML, the kind or the binary, and
\* the one that succeeds.
fmu_model_load(m, f) ==
    LET empty == fmu_model_init(fmu_model_unload(m))
        extracted == [Create(empty, "tmp") EXCEPT !.tmp = TRUE]
        opened == [Create(extracted, "context") EXCEPT !.context = TRUE]
        parsed == [Create(opened, "xml") EXCEPT !.fmu = TRUE]
        named == [parsed EXCEPT !.name = f]
    IN  [failed |-> {empty, fmu_model_unload(extracted), fmu_model_unload(opened),
                     fmu_model_unload(parsed), fmu_model_unload(named)},
         loaded |-> {[Create(named, "dll") EXCEPT !.dll = TRUE]}]

-----------------------------------------------------------------------------
(***************************************************************************)
(* Preparing an instance and stepping it.                                  *)
(***************************************************************************)

\* fmu_model_initialize_cosimulation and fmu_model_resolve_input_initial_values
\* as RtSimulationPrepare calls them: it terminates whatever a failure leaves.
\* A failed set_debug_logging is only warned of; an instance it leaves broken
\* refuses the next call.
RtSimulationPrepare(m) ==
    LET created == [Call(m, "instantiate", {"none"}, "instantiated") EXCEPT !.instantiated = TRUE]
        setup == Call(created, "setup", {"instantiated"}, "instantiated")
        entered == Call(setup, "enter", {"instantiated"}, "initialization")
        ready == [Call(entered, "exit", {"initialization"}, "step")
                      EXCEPT !.initialized = TRUE]
        resolved == Call(ready, "get", {"step"}, "step")
        silenced == {Call([created EXCEPT !.mode = o], "setup", {"instantiated"},
                          "instantiated") : o \in Broken}
    IN  IF ~m.fmu THEN [failed |-> {m}, prepared |-> {}]
        ELSE IF ~m.dll THEN [failed |-> {fmu_model_terminate(m)}, prepared |-> {}]
        ELSE [failed |-> {fmu_model_terminate(x) :
                              x \in {m} \cup silenced \cup
                                    UNION {Failures(y, Broken) :
                                              y \in {created, setup, entered, resolved}}},
              prepared |-> {resolved}]

\* fmu_model_set_inputs, fmu_model_do_step and fmu_model_read_outputs: the
\* whole of one communication step, or as far as it gets.
fmu_model_step(m) ==
    LET stepped == Call(m, "step", {"step"}, "step")
    IN  [done |-> {stepped}, failed |-> Failures(stepped, Broken \cup {"stepFailed"})]
=============================================================================
