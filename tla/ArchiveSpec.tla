----------------------------- MODULE ArchiveSpec -----------------------------
(***************************************************************************)
(* What the stores of game pages promise: a page is archived whole, at one *)
(* instant the clock has shown, or not at all.                             *)
(***************************************************************************)
EXTENDS ArchiveRows

CONSTANT Programs \* for each page, the touches that archive it

VARIABLES now,    \* the clock
          history \* the rows of all archive tables

Init == now = 0 /\ history = {}

Tick == /\ now < MaxNow
        /\ now' = now + 1
        /\ UNCHANGED history

Record == /\ history' # history \* else it is a stuttering step
          /\ \E program \in Programs, t \in 0 .. now :
               history' \in Replay(history, program, t)
          /\ UNCHANGED now

Spec == Init /\ [][Tick \/ Record]_<<now, history>>
=============================================================================
