------------------------------ MODULE MCExchange ------------------------------
(* Instances of Exchange for TLC. *)
EXTENDS Exchange, TLC

CONSTANTS a, b

MCEnds      == {a, b}
MCQuestions == a :> {"PNG", "DSN"} @@ b :> {"REQ", "DSN"}

=============================================================================
