---------------------------- MODULE MCSubmission ----------------------------
(* Submission with requests that may share a key. *)
EXTENDS Submission, TLC

OneCustomer == [r \in Requests |-> "acme-carrier"]
EachTheirOwn == [r \in Requests |-> r]

Clients == Permutations(Requests)
=============================================================================
