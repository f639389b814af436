------------------------------ MODULE MCMembers ------------------------------
(* Small instances of Members for TLC. *)
EXTENDS Members, TLC

\* Requests are interchangeable, and so are the people who are not the founder.
MemberSymmetry == Permutations(Reqs) \cup Permutations(Users \ {Founder})

=============================================================================
