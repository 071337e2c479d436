------------------------------ MODULE MCWebhooks ------------------------------
(* Constants for model checking Webhooks.                                  *)
EXTENDS Webhooks

\* The second version of the secret has lost a key.
MCKeysAt == [v \in 0..MaxVersion |-> IF v = 1 THEN {"token"} ELSE Keys]

MCHooks == {[exists |-> TRUE, auth |-> TRUE, multi_source |-> FALSE, names |-> {"s1"}],
            [exists |-> TRUE, auth |-> FALSE, multi_source |-> TRUE, names |-> {}]}

\* A request without the header, and one with the value of version 1.
MCHeaders == {Err, 1}
=============================================================================
