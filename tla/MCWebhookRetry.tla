---------------------------- MODULE MCWebhookRetry ----------------------------
(* Instances of WebhookRetry for TLC: the messages are interchangeable.        *)
EXTENDS WebhookRetry, TLC

Symmetry == Permutations(Ids)

\* The change of a second, and the microsecond after it.
FullSecond == {8000000, 8000001}

=============================================================================
