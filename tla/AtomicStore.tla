---------------------------- MODULE AtomicStore ----------------------------
(***************************************************************************)
(* What the desired-state file promises to the daemon (ORCH-002, DF-004):  *)
(* a save is all or nothing, and one that succeeded is what the next start *)
(* goes by, until another save begins, whatever happens to the process or  *)
(* to the machine.  A save that failed or was cut short may or may not     *)
(* have taken effect.                                                      *)
(*                                                                         *)
(* Two exceptions.  Until the directory of the file lasts, a loss of power *)
(* may lose it with all that was stored.  And a start that is unable to    *)
(* examine the path goes by the empty state, whatever is stored.           *)
(***************************************************************************)
CONSTANTS Values,   \* desired states
          Initial,  \* the empty one, loaded when there is no file
          None,
          Unseen    \* a start may be unable to examine the path

VARIABLES status,   \* of the daemon: "down", "up" or "saving"
          saving,   \* what is being saved, or None
          acked,    \* what the last save stored, None if it has not succeeded
          possible, \* what the path may hold, now and after a loss of power
          lasting,  \* the directory of the path is certain to remain
          loaded    \* what the daemon that runs has started with, or None

vars == <<status, saving, acked, possible, lasting, loaded>>

Init == /\ status = "down" /\ saving = None /\ loaded = None
        /\ acked = Initial /\ possible = {Initial} /\ lasting \in BOOLEAN

StartWith(state) == /\ status = "down" /\ status' = "up"
                    /\ loaded' = state
                    /\ UNCHANGED <<saving, acked, possible, lasting>>

Load == \E state \in possible : StartWith(state)

LoadUnseen == Unseen /\ StartWith(Initial)

Begin(v) == /\ status = "up" /\ status' = "saving"
            /\ saving' = v /\ acked' = None
            /\ UNCHANGED <<possible, lasting, loaded>>

TakeEffect == /\ status = "saving"
              /\ possible' = possible \cup {saving}
              /\ UNCHANGED <<status, saving, acked, lasting, loaded>>

(* Some outcomes are ruled out; what is stored when the directory comes to *)
(* last is not among them.                                                 *)
Narrow == /\ possible' \in (SUBSET possible) \ {{}}
          /\ lasting' \in {lasting, TRUE}
          /\ ~lasting /\ lasting' /\ acked # None => possible' = {acked}

(* The kernel writes back, by itself or upon a fsync.                      *)
Settle == Narrow /\ UNCHANGED <<status, saving, acked, loaded>>

Succeed == /\ status = "saving" /\ status' = "up"
           /\ acked' = saving /\ saving' = None
           /\ possible' = {saving} \cup (IF lasting THEN {} ELSE {Initial})
           /\ UNCHANGED <<lasting, loaded>>

Fail == /\ status = "saving" /\ status' = "up" /\ saving' = None
        /\ UNCHANGED <<acked, possible, lasting, loaded>>

Stop == /\ status' = "down" /\ saving' = None /\ loaded' = None
        /\ Narrow
        /\ UNCHANGED acked

Next == \/ Load \/ LoadUnseen
        \/ TakeEffect \/ Settle \/ Succeed \/ Fail \/ Stop
        \/ \E v \in Values : Begin(v)

Spec == Init /\ [][Next]_vars

(* What the last successful save stored is all that the path may hold, now *)
(* and after a loss of power, from the moment that its directory lasts.    *)
Durable == lasting /\ acked # None => possible = {acked}
=============================================================================
