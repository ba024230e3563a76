----------------------------- MODULE MCConsole ------------------------------
(***************************************************************************)
(* Two FMUs with the same variable names in different places and with      *)
(* different references; the first has more outputs than a run takes, the  *)
(* second more inputs.                                                     *)
(* The profiles: one that fits both FMUs, two whose searches may go past   *)
(* their arrays, one for each FMU, and one that maps a variable to two     *)
(* pins.                                                                   *)
(***************************************************************************)
EXTENDS Console

Var(name, causality, type, vr) ==
    [name |-> name, causality |-> causality, type |-> type, vr |-> vr]
Map(channel, variable, type, scale) ==
    [channel |-> channel, variable |-> variable, type |-> type, scale |-> scale, offset |-> 0]
Doc(mappings) ==
    [version |-> 1, id |-> 1, step |-> 1, stop |-> 1, mappings |-> mappings]

MCFmus ==
    [plant |-> <<Var("u", "input", "real", 1), Var("s", "output", "string", 1),
                 Var("y", "output", "real", 2), Var("on", "output", "boolean", 1),
                 Var("off", "output", "boolean", 2)>>,
     motor |-> <<Var("y", "output", "real", 1), Var("u", "input", "real", 2),
                 Var("v", "input", "real", 3)>>]

MCProfiles ==
    {BadYaml,
     Doc(<<Map("GPIO32_AI", "u", "real", 1)>>),
     Doc(<<Map("GPIO33_AI", "v", "real", 1)>>),
     Doc(<<Map("GPIO25_AO", "y", "real", 2), Map("GPIO16_DO", "off", "boolean", 1)>>),
     Doc(<<Map("GPIO25_AO", "y", "real", 1), Map("GPIO26_AO", "y", "real", 1)>>)}
=============================================================================
