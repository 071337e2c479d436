---------------------------- MODULE MCWebhookFront ----------------------------
(* Constants for model checking WebhookFront.                              *)
EXTENDS WebhookFront, TLC

\* The second version of the secret has lost a key.
MCKeysAt == [v \in 0..MaxVersion |-> IF v = 1 THEN {"token"} ELSE Keys]

MCLimits(global, trigger, source) ==
    [l \in Layers |-> CASE l = "Global" -> global [] l = "Trigger" -> trigger
                        [] l = "Source" -> source]

Per(burst, seconds) == [burst |-> burst, seconds |-> seconds]

\* One trigger has two spellings.
MCDecode == [s \in Segments |-> IF s = "t1" THEN "t1" ELSE "t2"]

\* No limit, all of them, one for sources only with most choices of TLS options, a
\* zero, and a period that is too short for the clock.
MCOptions ==
    {[tls |-> {}, limits |-> MCLimits(NoPart, NoPart, NoPart)],
     [tls |-> {"cert", "key"}, limits |-> MCLimits(Per(2, 1), Per(1, 1), Per(1, 2))],
     [tls |-> {}, limits |-> MCLimits(Per(0, 1), NoPart, NoPart)],
     [tls |-> {"secret"}, limits |-> MCLimits(NoPart, Per(5, 1), NoPart)]}
    \cup {[tls |-> given, limits |-> MCLimits(NoPart, NoPart, Per(1, 1))] :
              given \in SUBSET TlsOptions \ {{}, {"cert", "key"}, {"secret"}}}

MCSymmetry == Permutations(Requests)
=============================================================================
