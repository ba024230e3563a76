---------------------------- MODULE MCSerialLine ----------------------------
(***************************************************************************)
(* Bytes are 0..7, with 5 and 6 the sync pair: sequence numbers and lengths *)
(* are below 64, so 32 is the distance at which a number turns old.        *)
(***************************************************************************)
EXTENDS SerialLine

MCHostFrames == {Frame(CONFIG, <<3, 3>>), Frame(XRCE, <<5>>), Frame(XRCE, <<5, 6>>)}
MCDataPayloads == {<<3>>}
MCDatagrams == {<<1>>, <<5, 6>>, <<1, 2, 3>>}
=============================================================================
