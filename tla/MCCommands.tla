----------------------------- MODULE MCCommands -----------------------------
(***************************************************************************)
(* Instances of Commands for TLC.  A behaviour is about one subject, the    *)
(* others stand still: signals, an operator alone with every command and    *)
(* resolution, or several who share one command's name and decide to retry  *)
(* or to wait, over a shorter history with crashes.                         *)
(***************************************************************************)
EXTENDS Commands, TLC

CONSTANT Shared    \* the command that the racers share

VARIABLE subject   \* "signal", "operator" or "racers"

(* Two reservations with correlations of their own, and a message for each.  *)
MCMessages == {[id |-> "m1", correlation |-> "x"], [id |-> "m2", correlation |-> "y"]}
MCCorrelation == [w \in {"w1", "w2"} |-> IF w = "w1" THEN "x" ELSE "y"]
Swap == Permutations(Actors) \cup Permutations(Senders) \cup Permutations(CommandIds)

(* What the steps of reconcile are narrowed to. *)
Alone ==
    /\ \E a \in Actors : \A b \in Actors \ {a} :
          client'[b].pc = "idle" /\ client'[b].rev = 0
    /\ \A a \in Actors : client'[a].cmd # R!none => client'[a].cmd.res # "inconclusive"
    /\ crashes' = crashes
Racing ==
    /\ order'.revision < MaxRevision
    /\ \A a \in Actors : client'[a].cmd # R!none =>
          client'[a].cmd.id = Shared /\ client'[a].cmd.res \in {"retry", "inconclusive"}

MCInit == Init /\ R!Init /\ subject \in {"signal", "operator", "racers"}

MCNext ==
    \/ subject = "signal" /\ Next /\ UNCHANGED <<subject, reconcile>>
    \/ subject = "operator" /\ R!Next /\ Alone /\ UNCHANGED <<subject, signal>>
    \/ subject = "racers" /\ R!Next /\ Racing /\ UNCHANGED <<subject, signal>>

MCSpec == MCInit /\ [][MCNext]_<<subject, signal, reconcile>>
=============================================================================
