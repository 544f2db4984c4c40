------------------------------- MODULE MCAuth -------------------------------
(* Small instances of Auth for TLC. *)
EXTENDS Auth, TLC

CONSTANTS p1, p2, c1, devcode, w1, w2, o1, o2, u1, u2, t1, t2

OnePhone == {p1}
TwoPhones == {p1, p2}
OneCode == {c1}
DevCodeOnly == {devcode}
CodeAndDevCode == {c1, devcode}
OneWorker == {w1}
TwoWorkers == {w1, w2}
OneOtp == {o1}
TwoOtps == {o1, o2}
OneUser == {u1}
TwoUsers == {u1, u2}
TwoTokens == {t1, t2}

\* Row ids, tokens and workers are interchangeable.
Symmetry ==
    Permutations(OtpIds) \cup Permutations(UserIds) \cup Permutations(Tokens)
      \cup Permutations(Workers)

\* State constraint of the run with two phones: no row is swept.
CleanupAway == sweeper = "otp"
=============================================================================
