------------------------- MODULE MCControllerDriver -------------------------
EXTENDS ControllerDriver, TLC

(* Transfers of the shapes the device nubs ask for; one slave at address 1, one at 2. *)
W(n) == [addr |-> 1, rd |-> FALSE, len |-> n]
R(n) == [addr |-> 1, rd |-> TRUE, len |-> n]

MCRequests == {<<W(1)>>, <<[R(3) EXCEPT !.addr = 2]>>, <<W(3), R(2)>>, <<W(1), R(0)>>}

ShortRequests == {<<W(1), R(1)>>}

(* The environments the safety properties are claimed for: hardware that holds the clock
   on an empty FIFO, sleeps that are not interrupted, handlers that are not overtaken; the
   AMD workaround only on a line of its own. *)
MCEnvs ==
  {e \in Environment : e.hold /\ ~e.signals /\ ~e.lateirq /\ ~(e.shared /\ e.workaround)}

(* Environments of the liveness run: all that is good together, or all that is bad. *)
LivenessEnvs ==
  {e \in Environment : ~e.lateirq /\ e.stuck = e.signals /\ e.stuck # e.hold
                        /\ ~(e.shared /\ e.workaround)}

(* One hazard at a time, everything else as good as it gets. *)
Plain == [hold |-> TRUE, stuck |-> FALSE, shared |-> FALSE,
          workaround |-> FALSE, signals |-> FALSE, lateirq |-> FALSE]
PlainEnv == {Plain}
SignalEnv == {[Plain EXCEPT !.signals = TRUE]}
LateEnv == {[Plain EXCEPT !.lateirq = TRUE]}
NoHoldEnv == {[Plain EXCEPT !.hold = FALSE]}
RaceEnv == {[Plain EXCEPT !.shared = TRUE, !.workaround = TRUE]}
=============================================================================
