---------------------------- MODULE MCArguments ----------------------------
(***************************************************************************)
(* A small instance of the argument references for TLC.                    *)
(***************************************************************************)
EXTENDS Arguments

CONSTANTS configMap, secret, override   \* referents

\* A required Secret between two optional ConfigMaps.
RequiredBetween ==
    << [name |-> configMap, optional |-> TRUE],
       [name |-> secret,    optional |-> FALSE],
       [name |-> override,  optional |-> TRUE] >>
=============================================================================
