------------------------------ MODULE MCJournal ------------------------------
(* Small instances of JournalBroker for TLC. *)
EXTENDS JournalBroker, TLC

CONSTANTS b1, b2, nsA, nsB, x, y, s1

\* Both brokers serve the namespace the record belongs to.
OneBinding == [b \in Brokers |-> nsA]

\* The second broker is configured for another namespace (a rotated key).
TwoBindings == [b \in Brokers |-> IF b = b1 THEN nsA ELSE nsB]

BrokerSymmetry == Permutations(Brokers)

FirstIdentity == [revision |-> 1, fingerprint |-> x]
=============================================================================
