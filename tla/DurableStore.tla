---------------------------- MODULE DurableStore ----------------------------
(***************************************************************************)
(* What a store that survives crashes promises: what a restart finds is    *)
(* always a whole value the program held at one moment, the one it last    *)
(* kept.  Store implements this specification.                             *)
(***************************************************************************)
CONSTANTS Data, Fresh, Loaded(_)

VARIABLES live,  \* the value the running program works on
          kept   \* the value a restart starts from

storeVars == <<live, kept>>

Init == live = Fresh /\ kept \in Data

Change == live' \in Data /\ UNCHANGED kept

Keep == kept' = live /\ UNCHANGED live

Restart == live' = Loaded(kept) /\ UNCHANGED kept

Next == Change \/ Keep \/ Restart

Spec == Init /\ [][Next]_storeVars
=============================================================================
