--------------------------- MODULE MCCommandGate ---------------------------
(* Instances of CommandGate for TLC. *)
EXTENDS CommandGate, TLC

CONSTANTS n1, n2, n3

ConnSymmetry == Permutations(Conns)

Signed(n, ts, action) ==
  [form |-> "ok", nonce |-> n, ts |-> ts, hmac |-> "right", action |-> action]

Forged(n) == [Signed(n, 1, "control") EXCEPT !.hmac = "wrong"]
Broken(form) == [Signed(n1, 1, "get") EXCEPT !.form = form]

(* Signed commands that may be delivered any number of times: a control     *)
(* command of a client whose clock is ahead, and two queries, one nonce     *)
(* more than the cache of the run holds.                                    *)
ReplayLines == {Signed(n1, 1, "control"), Signed(n2, 0, "get"), Signed(n3, 0, "get")}

(* Every kind of line once, for the failure paths.                          *)
FailureLines == {Signed(n1, 1, "control"), Signed(n2, 1, "audioStop"), Forged(n2),
                 Broken("oversize"), Broken("malformed"), Broken("invalid")}

=============================================================================
