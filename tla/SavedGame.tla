----------------------------- MODULE SavedGame -----------------------------
(***************************************************************************)
(* What saving and loading promise, whatever a game consists of: a load    *)
(* brings back the game exactly as it was when it was saved, and finishing *)
(* a load changes nothing of it.                                           *)
(***************************************************************************)
CONSTANTS Fresh(_),     \* Fresh(g): g is a game as it starts
          NoGame        \* nothing saved yet

VARIABLES mode,         \* "title", "playing" or "loading"
          now,          \* the running game
          saved         \* the game in the save file

vars == <<mode, now, saved>>

Init == mode = "title" /\ Fresh(now)

Play == mode = "playing" /\ UNCHANGED <<mode, saved>>

Save ==
    /\ mode = "playing"
    /\ saved' = now
    /\ UNCHANGED <<mode, now>>

NewGame ==
    /\ mode \in {"title", "playing"}
    /\ mode' = "loading"
    /\ Fresh(now')
    /\ saved' = saved

Load ==
    /\ mode \in {"title", "playing"}
    /\ saved # NoGame
    /\ mode' = "loading"
    /\ now' = saved
    /\ saved' = saved

FinishLoad ==
    /\ mode = "loading"
    /\ mode' = "playing"
    /\ UNCHANGED <<now, saved>>

Next == Play \/ Save \/ NewGame \/ Load \/ FinishLoad

Spec == Init /\ [][Next]_vars
=============================================================================
