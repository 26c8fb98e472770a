--------------------------- MODULE DurableRegister ---------------------------
(***************************************************************************)
(* What a persisted document promises to the rest of the panel, without    *)
(* files, locks and goroutines: a register that holds the current          *)
(* generation while the server is up, survives stops, and never comes back *)
(* with less than what it acknowledged, as long as its storage is not      *)
(* damaged.                                                                *)
(*                                                                         *)
(* It promises less than a register with a memory of its own would: a      *)
(* start may put a default document in the place of the one it should have *)
(* found (Default), which is what the code does when the main file is      *)
(* missing.                                                                *)
(***************************************************************************)
EXTENDS Integers

VARIABLES
    up,         \* the server answers from the register
    cur,        \* the generation it answers with, 0 while it is down
    made,       \* the newest generation ever made
    acked,      \* the newest generation that was reported saved
    damaged     \* the storage was damaged at rest

vars == <<up, cur, made, acked, damaged>>

Init ==
    /\ up = FALSE
    /\ cur = 0
    /\ made = 0
    /\ acked = 0
    /\ damaged = FALSE

\* The document is changed.
Change ==
    /\ up
    /\ made' = made + 1
    /\ cur' = made'
    /\ UNCHANGED <<up, acked, damaged>>

\* A save is reported successful: it holds what its caller changed.
Acknowledge ==
    /\ up
    /\ acked' \in acked .. cur
    /\ UNCHANGED <<up, cur, made, damaged>>

\* The server stops, with whatever it was doing.
Stop ==
    /\ up' = FALSE
    /\ cur' = 0
    /\ UNCHANGED <<made, acked, damaged>>

\* A start that finds nothing makes a new document.
Default ==
    /\ ~up
    /\ made' = made + 1
    /\ UNCHANGED <<up, cur, acked, damaged>>

\* A start has a document: one that was made once, and nothing older than what
\* was acknowledged, unless the storage was damaged; then it may be a new one.
Recover ==
    /\ ~up
    /\ up' = TRUE
    /\ made' = made \/ (damaged /\ made' = made + 1)
    /\ cur' \in 1 .. made'
    /\ damaged \/ acked <= cur'
    /\ acked' \in {acked, cur'} /\ acked <= acked'
    /\ UNCHANGED damaged

Damage ==
    /\ damaged' = TRUE
    /\ UNCHANGED <<up, cur, made, acked>>

Next == Change \/ Acknowledge \/ Stop \/ Default \/ Recover \/ Damage

Spec == Init /\ [][Next]_vars
=============================================================================
