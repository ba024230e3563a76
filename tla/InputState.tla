----------------------------- MODULE InputState -----------------------------
(***************************************************************************)
(* The input state of a run (input_state.c): for every input of the FMU    *)
(* the newest candidate its publisher left, and what the steps have made   *)
(* of it.  Publishing one channel and preparing a whole step each happen   *)
(* under the mutex.                                                        *)
(*                                                                         *)
(* A value is the number of the publication that brought it; 0 is the      *)
(* initial value of the FMU, which InputStateInit requires to be valid.    *)
(* IsValueValid, the range checks included, is the choice of `valid`.      *)
(***************************************************************************)
EXTENDS Naturals

CONSTANTS Channels,      \* the indices of the FMU's inputs
          InvalidLimit   \* INPUT_STATE_INVALID_STEP_LIMIT

ASSUME InputAssumption == InvalidLimit \in Nat \ {0}

VARIABLES candidate,     \* newest publication: value, valid, generation
          consumed,      \* consumed_generation
          lastValid,     \* last_valid_value, 0 before there is one
          invalidSteps,  \* consecutive_invalid_steps
          protect,       \* stop_on_invalid_limit
          initialized

inputVars == <<candidate, consumed, lastValid, invalidSteps, protect,
               initialized>>

InputTypeOK ==
    /\ candidate \in [Channels -> [value : Nat, valid : BOOLEAN, generation : Nat]]
    /\ consumed \in [Channels -> Nat]
    /\ lastValid \in [Channels -> Nat]
    /\ invalidSteps \in [Channels -> Nat]
    /\ protect \in BOOLEAN
    /\ initialized \in BOOLEAN

InputStateInit ==
    /\ candidate = [c \in Channels |->
                      [value |-> 0, valid |-> FALSE, generation |-> 0]]
    /\ consumed = [c \in Channels |-> 0]
    /\ lastValid = [c \in Channels |-> 0]
    /\ invalidSteps = [c \in Channels |-> 0]
    /\ protect \in BOOLEAN
    /\ initialized = TRUE

\* InputStatePublish on a state that is initialized.
InputStatePublish(c, value, valid) ==
    /\ candidate' = [candidate EXCEPT
                       ![c] = [value |-> value, valid |-> valid,
                               generation |-> @.generation + 1]]
    /\ UNCHANGED <<consumed, lastValid, invalidSteps, protect, initialized>>

\* A variant that takes the same candidate for a new sample at every step.
IsNew_Always(c) == candidate[c].generation > 0
IsNew(c) == candidate[c].generation # consumed[c]

\* consecutive_invalid_steps of channel c after this step's look at it.
InvalidSteps(c) ==
    CASE ~IsNew(c) -> invalidSteps[c]
      [] IsNew(c) /\ candidate[c].valid -> 0
      [] OTHER -> invalidSteps[c] + 1

\* A variant that hands the candidate to the FMU whether it is valid or not.
StepValue_Raw(c) == candidate[c].value

\* The value the step gets: a new valid sample, or what was valid last.
StepValue(c) == IF IsNew(c) /\ candidate[c].valid
                  THEN candidate[c].value ELSE lastValid[c]

\* The channels that are at the limit with this step's sample.
LimitChannels == {c \in Channels : /\ IsNew(c) /\ ~candidate[c].valid
                                   /\ protect
                                   /\ InvalidSteps(c) >= InvalidLimit}

InputStatePrepareStep ==
    /\ consumed' = [c \in Channels |-> candidate[c].generation]
    /\ lastValid' = [c \in Channels |-> StepValue(c)]
    /\ invalidSteps' = [c \in Channels |-> InvalidSteps(c)]
    /\ UNCHANGED <<candidate, protect, initialized>>

\* InputStateDestroy leaves the whole state zero.
InputStateDestroy ==
    /\ initialized' = FALSE
    /\ protect' = FALSE
    /\ candidate' = [c \in Channels |->
                       [value |-> 0, valid |-> FALSE, generation |-> 0]]
    /\ consumed' = [c \in Channels |-> 0]
    /\ lastValid' = [c \in Channels |-> 0]
    /\ invalidSteps' = [c \in Channels |-> 0]
=============================================================================
