------------------------- MODULE MCImportHandshake -------------------------
(***************************************************************************)
(* Instances of ImportHandshake for TLC.  With a field of two bytes, the   *)
(* busids below are empty, shorter than the field, exactly as long, cut at *)
(* a character boundary and cut inside a character.                        *)
(***************************************************************************)
EXTENDS ImportHandshake, TLC

MCBusids == {<<>>,
             <<Ascii>>,
             <<Lead, Tail2>>,
             <<Ascii, Ascii, Ascii>>,
             <<Ascii, Lead, Tail2>>}
=============================================================================
