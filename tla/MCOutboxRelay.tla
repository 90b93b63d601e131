---------------------------- MODULE MCOutboxRelay ----------------------------
(* Two relays over two outbox rows.                                        *)
EXTENDS OutboxRelay, TLC

Symmetry == Permutations(Relays) \cup Permutations(Events)
=============================================================================
