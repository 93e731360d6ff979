---------------------------- MODULE DurableFile ----------------------------
(***************************************************************************)
(* What a crash-safe file promises: a restart reads the last value written *)
(* or, if a write was under way, the value from before it; nothing else.   *)
(***************************************************************************)
CONSTANT Values

VARIABLES content,      \* what a restart would read
          undecided     \* during a write: the values it may leave behind

Init == content \in Values /\ undecided = {}

Begin(v) ==
    /\ undecided = {}
    /\ undecided' = {content, v}
    /\ content' = content

Progress == content' \in undecided /\ undecided' = undecided

End == undecided # {} /\ undecided' = {} /\ content' = content

Next == (\E v \in Values : Begin(v)) \/ Progress \/ End

Spec == Init /\ [][Next]_<<content, undecided>>
=============================================================================
