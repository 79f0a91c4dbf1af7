------------------------------- MODULE MCNode -------------------------------
(* An instance of Node for TLC.                                             *)
EXTENDS Node

\* A miner that is not listed, has left, has room, and has less power than
\* space.
MCInfos ==
    {NoInfo,
     [state |-> "exit", power |-> 3, space |-> 0],
     [state |-> "positive", power |-> 3, space |-> 1],
     [state |-> "positive", power |-> 0, space |-> 2]}
=============================================================================
