----------------------------- MODULE MCLogFile -----------------------------
EXTENDS LogFile

\* Two FMUs with outputs of the same types, and a selection that fills one
\* byte of the bitmap and begins another.
MCDescriptors == {[fmu |-> "a", types |-> <<"Integer", "Real">>],
                  [fmu |-> "b", types |-> <<"Integer", "Real">>],
                  [fmu |-> "a", types |-> <<"Real", "Boolean", "Integer">>]}
=============================================================================
