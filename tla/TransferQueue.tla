--------------------------- MODULE TransferQueue ---------------------------
(***************************************************************************)
(* What the upload queue promises for each file: it is sent by one         *)
(* transfer at a time, next to at most Slots - 1 others, every transfer ends *)
(* with the file stored or failed, and what is stored is never sent again. *)
(***************************************************************************)
EXTENDS Naturals, FiniteSets

CONSTANTS File, Slots

VARIABLE phase

Phases == {"waiting", "sending", "stored", "failed", "dropped"}

\* What may become of a file in one step.
Moves ==
  {<<"waiting", "sending">>, <<"sending", "stored">>, <<"sending", "failed">>,
   <<"failed", "sending">>, <<"failed", "waiting">>, <<"waiting", "failed">>}
  \cup {"waiting", "sending", "failed"} \X {"dropped"}

Sending == {f \in File : phase[f] = "sending"}

Init == phase = [f \in File |-> "waiting"]

\* Several files may move at once: the end of a transfer starts the next ones.
Next ==
  /\ phase' \in [File -> Phases]
  /\ \A f \in File : phase'[f] = phase[f] \/ <<phase[f], phase'[f]>> \in Moves
  /\ Cardinality(Sending') <= Slots

\* Every transfer ends.
Live == \A f \in File : phase[f] = "sending" ~> phase[f] # "sending"

Spec == Init /\ [][Next]_phase /\ Live
=============================================================================
