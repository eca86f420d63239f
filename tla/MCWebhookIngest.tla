-------------------------- MODULE MCWebhookIngest ---------------------------
EXTENDS WebhookIngest, TLC

\* Requests and identifiers are interchangeable.
Symmetry ==
    Permutations(Handler) \cup Permutations(Key) \cup Permutations(Nonce)
        \cup Permutations(External) \cup Permutations(Task)
=============================================================================
